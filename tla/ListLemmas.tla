----------------------------- MODULE ListLemmas ------------------------------
(***************************************************************************)
(* What adding and taking out an element makes of a list and of the number *)
(* of places an element has in it, for the lists of responders and of      *)
(* connections in Mastership and in PacketIO; and induction over a         *)
(* sequence of sequences, for the recipes of TopologyGenerator.            *)
(***************************************************************************)
EXTENDS SequencesExt, SequenceTheorems, FiniteSetTheorems, WellFoundedInduction, TLAPS

\* Every nonempty set of naturals has a minimum.
LEMMA MinExists ==
    ASSUME NEW I \in SUBSET Nat, I # {}
    PROVE  Min(I) \in I /\ \A i \in I : Min(I) <= i
  <1> DEFINE R == {ss \in Nat \X Nat : ss[1] < ss[2]}
  <1>1. IsWellFoundedOn(R, Nat)
    BY NatLessThanWellFounded, Zenon DEF OpToRel
  <1>2. PICK m \in I : \A i \in I : ~ (<<i, m>> \in R)
    <2> HIDE DEF R
    <2> QED
      BY <1>1, WFMin, Zenon
  <1>3. ASSUME NEW i \in I
        PROVE  m <= i
    <2>1. i \in Nat /\ m \in Nat
      OBVIOUS
    <2>2. ~ (i < m)
      BY <1>2, <2>1
    <2> QED
      BY <2>1, <2>2
  <1> QED
    BY <1>3 DEF Min

\* Induction, for a set of naturals.
LEMMA NaturalsAreReached ==
    ASSUME NEW T, 0 \in T, \A n \in Nat : n \in T => n + 1 \in T
    PROVE  \A n \in Nat : n \in T
  <1> DEFINE U == Nat \ T
  <1> SUFFICES ASSUME U # {} PROVE FALSE
    OBVIOUS
  <1>1. PICK m \in U : \A n \in U : m <= n
    BY MinExists
  <1>2. m - 1 \in Nat /\ m - 1 \notin U
    BY <1>1
  <1> QED
    BY <1>1, <1>2

\* RemoveFirst leaves the list as it is, or takes out one place that holds the
\* element.
LEMMA RemoveFirstEffect ==
    ASSUME NEW S, NEW seq \in Seq(S), NEW e
    PROVE  \/ /\ \A i \in 1..Len(seq) : seq[i] # e
              /\ RemoveFirst(seq, e) = seq
           \/ \E m \in 1..Len(seq) :
                /\ seq[m] = e
                /\ RemoveFirst(seq, e) = RemoveAt(seq, m)
  <1> DEFINE I == {i \in 1..Len(seq) : seq[i] = e}
  <1>1. RemoveFirst(seq, e) = IF I # {} THEN RemoveAt(seq, Min(I)) ELSE seq
    BY DEF RemoveFirst, SelectInSeq
  <1>2. CASE I # {}
    <2>1. I \in SUBSET Nat
      OBVIOUS
    <2>2. Min(I) \in I
      BY <1>2, <2>1, MinExists
    <2>3. Min(I) \in 1..Len(seq) /\ seq[Min(I)] = e
      BY <2>2
    <2> QED
      BY <1>1, <1>2, <2>3
  <1>3. CASE I = {}
    BY <1>1, <1>3
  <1> QED
    BY <1>2, <1>3

\* RemoveAt closes the gap it makes.
LEMMA RemoveAtEffect ==
    ASSUME NEW S, NEW seq \in Seq(S), NEW m \in 1..Len(seq)
    PROVE  /\ RemoveAt(seq, m) \in Seq(S)
           /\ Len(RemoveAt(seq, m)) = Len(seq) - 1
           /\ \A i \in 1..Len(seq) - 1 :
                RemoveAt(seq, m)[i] = IF i < m THEN seq[i] ELSE seq[i + 1]
  <1> DEFINE before == SubSeq(seq, 1, m - 1)
             after == SubSeq(seq, m + 1, Len(seq))
  <1>1. before \in Seq(S) /\ Len(before) = m - 1 /\ \A i \in 1..m - 1 : before[i] = seq[i]
    BY SubSeqProperties
  <1>2. /\ after \in Seq(S) /\ Len(after) = Len(seq) - m
        /\ \A i \in 1..Len(seq) - m : after[i] = seq[m + i]
    BY SubSeqProperties
  <1>3. RemoveAt(seq, m) = before \o after
    BY DEF RemoveAt
  <1> HIDE DEF before, after
  <1>4. /\ before \o after \in Seq(S)
        /\ Len(before \o after) = Len(seq) - 1
        /\ \A i \in 1..Len(seq) - 1 :
                (before \o after)[i] = IF i <= m - 1 THEN before[i] ELSE after[i - (m - 1)]
    <2>1. /\ before \o after \in Seq(S)
          /\ Len(before \o after) = Len(before) + Len(after)
          /\ \A i \in 1..Len(before) + Len(after) :
                (before \o after)[i] = IF i <= Len(before) THEN before[i] ELSE after[i - Len(before)]
      BY <1>1, <1>2, ConcatProperties
    <2>2. Len(before) + Len(after) = Len(seq) - 1
      <3>1. Len(seq) \in Nat /\ m \in Nat
        OBVIOUS
      <3> QED
        BY <1>1, <1>2, <3>1
    <2> QED
      BY <1>1, <2>1, <2>2
  <1>5. ASSUME NEW i \in 1..Len(seq) - 1
        PROVE  (before \o after)[i] = IF i < m THEN seq[i] ELSE seq[i + 1]
    <2>1. CASE i < m
      BY <1>1, <1>4, <2>1
    <2>2. CASE ~ (i < m)
      <3>1. i - (m - 1) \in 1..Len(seq) - m /\ m + (i - (m - 1)) = i + 1
        BY <2>2
      <3> QED
        BY <1>2, <1>4, <2>2, <3>1
    <2> QED
      BY <2>1, <2>2
  <1> QED
    BY <1>3, <1>4, <1>5

\* Removing an element from a list leaves a list of the same elements.
LEMMA RemoveFirstType ==
    ASSUME NEW S, NEW seq \in Seq(S), NEW e
    PROVE  RemoveFirst(seq, e) \in Seq(S)
  BY RemoveFirstEffect, RemoveAtEffect

\* Taking out a place of a list moves the places after it down by one.
LEMMA RemoveAtMoves ==
    ASSUME NEW S, NEW seq \in Seq(S), NEW m \in 1..Len(seq)
    PROVE  \E old \in [1..Len(seq) - 1 -> (1..Len(seq)) \ {m}] :
                /\ \A i, j \in 1..Len(seq) - 1 : old[i] = old[j] => i = j
                /\ \A k \in (1..Len(seq)) \ {m} : \E i \in 1..Len(seq) - 1 : old[i] = k
                /\ \A i \in 1..Len(seq) - 1 : RemoveAt(seq, m)[i] = seq[old[i]]
  <1> DEFINE old == [i \in 1..Len(seq) - 1 |-> IF i < m THEN i ELSE i + 1]
  <1>1. Len(seq) \in Nat
    OBVIOUS
  <1>2. old \in [1..Len(seq) - 1 -> (1..Len(seq)) \ {m}]
    BY <1>1
  <1>3. \A i, j \in 1..Len(seq) - 1 : old[i] = old[j] => i = j
    BY <1>1
  <1>4. ASSUME NEW k \in (1..Len(seq)) \ {m}
        PROVE  \E i \in 1..Len(seq) - 1 : old[i] = k
    <2>1. CASE k < m
      BY <1>1, <2>1
    <2>2. CASE ~ (k < m)
      <3>1. k - 1 \in 1..Len(seq) - 1 /\ old[k - 1] = k
        BY <1>1, <2>2
      <3> QED
        BY <3>1
    <2> QED
      BY <2>1, <2>2
  <1>5. \A i \in 1..Len(seq) - 1 : RemoveAt(seq, m)[i] = seq[old[i]]
    BY RemoveAtEffect
  <1> QED
    BY <1>2, <1>3, <1>4, <1>5

------------------------------------------------------------------------------
\* The places of a list that hold an element of P.
Places(seq, P) == {i \in DOMAIN seq : seq[i] \in P}

\* There are finitely many of them.
LEMMA PlacesFinite ==
    ASSUME NEW S, NEW seq \in Seq(S), NEW P
    PROVE  IsFiniteSet(Places(seq, P)) /\ Cardinality(Places(seq, P)) \in Nat
  <1>1. IsFiniteSet(1..Len(seq))
    BY FS_Interval
  <1>2. Places(seq, P) \in SUBSET (1..Len(seq))
    BY DEF Places
  <1>3. IsFiniteSet(Places(seq, P))
    BY <1>1, <1>2, FS_Subset
  <1> QED
    BY <1>3, FS_CardinalityType

\* Appending an element adds one place.
LEMMA AppendPlaces ==
    ASSUME NEW S, NEW seq \in Seq(S), NEW e \in S, NEW P
    PROVE  Cardinality(Places(Append(seq, e), P)) =
             Cardinality(Places(seq, P)) + (IF e \in P THEN 1 ELSE 0)
  <1>1. Len(seq) \in Nat /\ DOMAIN seq = 1..Len(seq) /\ DOMAIN Append(seq, e) = 1..Len(seq) + 1
    OBVIOUS
  <1>2. \A i \in 1..Len(seq) : Append(seq, e)[i] = seq[i]
    OBVIOUS
  <1>3. Append(seq, e)[Len(seq) + 1] = e
    OBVIOUS
  <1>4. \A i \in 1..Len(seq) + 1 : i \in 1..Len(seq) \/ i = Len(seq) + 1
    BY <1>1
  <1>5. Len(seq) + 1 \notin 1..Len(seq) /\ 1..Len(seq) \subseteq 1..Len(seq) + 1
        /\ Len(seq) + 1 \in 1..Len(seq) + 1
    BY <1>1
  <1>6. CASE e \in P
    <2>1. Places(Append(seq, e), P) = Places(seq, P) \cup {Len(seq) + 1}
      BY <1>1, <1>2, <1>3, <1>4, <1>5, <1>6 DEF Places
    <2>2. Len(seq) + 1 \notin Places(seq, P)
      BY <1>1, <1>5 DEF Places
    <2> QED
      BY <1>6, <2>1, <2>2, PlacesFinite, FS_AddElement
  <1>7. CASE e \notin P
    <2>1. Places(Append(seq, e), P) = Places(seq, P)
      BY <1>1, <1>2, <1>3, <1>4, <1>5, <1>7 DEF Places
    <2> QED
      BY <1>7, <2>1, PlacesFinite
  <1> QED
    BY <1>6, <1>7

\* Taking out an element that is there takes away one place.
LEMMA RemoveFirstPlaces ==
    ASSUME NEW S, NEW seq \in Seq(S), NEW e, NEW P, Places(seq, {e}) # {}
    PROVE  Cardinality(Places(RemoveFirst(seq, e), P)) =
             Cardinality(Places(seq, P)) - (IF e \in P THEN 1 ELSE 0)
  <1>1. PICK m \in 1..Len(seq) : seq[m] = e /\ RemoveFirst(seq, e) = RemoveAt(seq, m)
    BY RemoveFirstEffect DEF Places
  <1> DEFINE rest == RemoveAt(seq, m)
             T == Places(seq, P) \ {m}
             R == Places(rest, P)
  <1>2. /\ rest \in Seq(S) /\ Len(rest) = Len(seq) - 1 /\ Len(seq) \in Nat
        /\ DOMAIN rest = 1..Len(seq) - 1 /\ DOMAIN seq = 1..Len(seq)
    BY RemoveAtEffect
  <1>3. PICK old \in [1..Len(seq) - 1 -> (1..Len(seq)) \ {m}] :
            /\ \A i, j \in 1..Len(seq) - 1 : old[i] = old[j] => i = j
            /\ \A k \in (1..Len(seq)) \ {m} : \E i \in 1..Len(seq) - 1 : old[i] = k
            /\ \A i \in 1..Len(seq) - 1 : rest[i] = seq[old[i]]
    BY ZenonT(40), RemoveAtMoves
  <1> HIDE DEF rest
  <1> DEFINE f == [i \in R |-> old[i]]
  <1>4. f \in Bijection(R, T)
    <2>1. f \in [R -> T]
      BY <1>2, <1>3 DEF Places
    <2>2. \A i, j \in R : f[i] = f[j] => i = j
      BY <1>2, <1>3 DEF Places
    <2>3. ASSUME NEW k \in T
          PROVE  \E i \in R : f[i] = k
      <3>1. k \in (1..Len(seq)) \ {m} /\ seq[k] \in P
        BY <1>2 DEF Places
      <3>2. PICK i \in 1..Len(seq) - 1 : old[i] = k
        BY <1>3, <3>1
      <3>3. i \in R
        BY <1>2, <1>3, <3>1, <3>2 DEF Places
      <3> QED
        BY <3>2, <3>3
    <2> HIDE DEF f, R, T
    <2> QED
      BY <2>1, <2>2, <2>3 DEF Bijection, Injection, Surjection, IsInjective
  <1>5. Cardinality(R) = Cardinality(T)
    <2>1. IsFiniteSet(R)
      BY <1>2, PlacesFinite
    <2>2. ExistsBijection(R, T)
      BY <1>4 DEF ExistsBijection
    <2> HIDE DEF R, T
    <2> QED
      BY <2>1, <2>2, FS_Bijection
  <1>6. Cardinality(T) = Cardinality(Places(seq, P)) - (IF e \in P THEN 1 ELSE 0)
    <2>1. m \in Places(seq, P) <=> e \in P
      BY <1>1, <1>2 DEF Places
    <2>2. IsFiniteSet(Places(seq, P)) /\ Cardinality(Places(seq, P)) \in Nat
      BY PlacesFinite
    <2>3. Cardinality(T) = IF m \in Places(seq, P) THEN Cardinality(Places(seq, P)) - 1
                           ELSE Cardinality(Places(seq, P))
      BY <2>2, FS_RemoveElement
    <2> QED
      BY <2>1, <2>2, <2>3
  <1> QED
    BY <1>1, <1>5, <1>6 DEF rest

------------------------------------------------------------------------------
\* An element that is in a list once is not in it after its removal; the others
\* are in it if they were before, once if they were in it once.
LEMMA RemoveFirstOfOnce ==
    ASSUME NEW S, NEW seq \in Seq(S), NEW e,
           \A i, j \in 1..Len(seq) : seq[i] = seq[j] => i = j
    PROVE  /\ \A i, j \in 1..Len(RemoveFirst(seq, e)) :
                RemoveFirst(seq, e)[i] = RemoveFirst(seq, e)[j] => i = j
           /\ ToSet(RemoveFirst(seq, e)) = ToSet(seq) \ {e}
  <1>1. CASE (\A i \in 1..Len(seq) : seq[i] # e) /\ RemoveFirst(seq, e) = seq
    BY <1>1 DEF ToSet
  <1>2. CASE \E m \in 1..Len(seq) : seq[m] = e /\ RemoveFirst(seq, e) = RemoveAt(seq, m)
    <2>1. PICK m \in 1..Len(seq) : seq[m] = e /\ RemoveFirst(seq, e) = RemoveAt(seq, m)
      BY <1>2
    <2> DEFINE rest == RemoveAt(seq, m)
               old(i) == IF i < m THEN i ELSE i + 1
    <2>2. /\ rest \in Seq(S) /\ Len(rest) = Len(seq) - 1
          /\ \A i \in 1..Len(rest) : old(i) \in 1..Len(seq) /\ old(i) # m /\ rest[i] = seq[old(i)]
      <3>1. /\ rest \in Seq(S) /\ Len(rest) = Len(seq) - 1
            /\ \A i \in 1..Len(seq) - 1 : rest[i] = IF i < m THEN seq[i] ELSE seq[i + 1]
        BY RemoveAtEffect
      <3> HIDE DEF rest
      <3>2. Len(seq) \in Nat
        OBVIOUS
      <3> QED
        BY <3>1, <3>2
    <2>3. \A i, j \in 1..Len(rest) : old(i) = old(j) => i = j
      BY <2>2
    <2>4. ASSUME NEW k \in 1..Len(seq), k # m
          PROVE  \E i \in 1..Len(rest) : old(i) = k
      <3>1. CASE k < m
        <4>1. k \in 1..Len(rest) /\ old(k) = k
          BY <2>2, <3>1
        <4> QED
          BY <4>1
      <3>2. CASE ~ (k < m)
        <4>1. k - 1 \in 1..Len(rest) /\ old(k - 1) = k
          BY <2>2, <2>4, <3>2
        <4> QED
          BY <4>1
      <3> QED
        BY <3>1, <3>2
    <2>5. /\ ToSet(rest) = {rest[i] : i \in 1..Len(rest)}
          /\ ToSet(seq) = {seq[i] : i \in 1..Len(seq)}
      BY <2>2 DEF ToSet
    <2> HIDE DEF rest, old
    <2>6. \A i, j \in 1..Len(rest) : rest[i] = rest[j] => i = j
      BY <2>2, <2>3
    <2>7. ASSUME NEW x \in ToSet(rest)
          PROVE  x \in ToSet(seq) \ {e}
      <3>1. PICK i \in 1..Len(rest) : rest[i] = x
        BY <2>5
      <3>2. old(i) \in 1..Len(seq) /\ old(i) # m /\ x = seq[old(i)]
        BY <2>2, <3>1
      <3> QED
        BY <2>1, <2>5, <3>2
    <2>8. ASSUME NEW x \in ToSet(seq) \ {e}
          PROVE  x \in ToSet(rest)
      <3>1. PICK k \in 1..Len(seq) : seq[k] = x
        BY <2>5
      <3>2. PICK i \in 1..Len(rest) : old(i) = k
        BY <2>1, <2>4, <3>1
      <3> QED
        BY <2>2, <2>5, <3>1, <3>2
    <2> QED
      BY <2>1, <2>6, <2>7, <2>8 DEF rest
  <1> QED
    BY <1>1, <1>2, RemoveFirstEffect

------------------------------------------------------------------------------
\* FlattenSeq appends one sequence after the other.
LEMMA FlattenUnfolds ==
    ASSUME NEW seqs, NEW n \in Nat \ {0}, Len(seqs) = n
    PROVE  \E f : /\ f = [i \in 1..n |-> IF i = 1 THEN seqs[i] ELSE f[i - 1] \o seqs[i]]
                  /\ FlattenSeq(seqs) = f[n]
  <1> DEFINE Fits(f, m) == f = [i \in 1..m |-> IF i = 1 THEN seqs[i] ELSE f[i - 1] \o seqs[i]]
             T == {m \in Nat : \E f : Fits(f, m)}
  <1>1. 0 \in T
    <2>1. Fits([i \in 1..0 |-> <<>>], 0)
      <3>1. 1..0 = {}
        OBVIOUS
      <3> QED
        BY <3>1
    <2> QED
      BY <2>1
  <1>2. ASSUME NEW m \in Nat, m \in T
        PROVE  m + 1 \in T
    <2>1. PICK f : Fits(f, m)
      BY <1>2
    <2>2. PICK g : g = [i \in 1..m + 1 |-> IF i = 1 THEN seqs[i] ELSE f[i - 1] \o seqs[i]]
      OBVIOUS
    <2>3. ASSUME NEW i \in 1..m
          PROVE  g[i] = f[i]
      <3>1. f[i] = IF i = 1 THEN seqs[i] ELSE f[i - 1] \o seqs[i]
        BY <2>1
      <3>2. i \in 1..m + 1
        OBVIOUS
      <3>3. g[i] = IF i = 1 THEN seqs[i] ELSE f[i - 1] \o seqs[i]
        BY <2>2, <3>2
      <3> QED
        BY <3>1, <3>3
    <2>4. \A i \in 1..m + 1 : i # 1 => g[i - 1] = f[i - 1]
      BY <2>3
    <2>5. Fits(g, m + 1)
      BY <2>2, <2>4
    <2> HIDE DEF Fits
    <2> QED
      BY <2>5
  <1>3. \E f : Fits(f, n)
    <2> HIDE DEF Fits
    <2>1. n \in T
      <3> HIDE DEF T
      <3> QED
        BY <1>1, <1>2, NaturalsAreReached
    <2> QED
      BY <2>1
  <1>4. FlattenSeq(seqs) = (CHOOSE f : Fits(f, n))[n]
    BY DEF FlattenSeq
  <1>5. Fits(CHOOSE f : Fits(f, n), n)
    <2> HIDE DEF Fits
    <2> QED
      BY <1>3
  <1> QED
    BY <1>4, <1>5

\* What one more sequence keeps true, step by step, is true of the flat sequence.
LEMMA FlattenInduction ==
    ASSUME NEW S, NEW seqs \in Seq(Seq(S)), NEW P, <<>> \in P[0],
           \A i \in 1..Len(seqs) : \A a \in P[i - 1] \cap Seq(S) : a \o seqs[i] \in P[i]
    PROVE  FlattenSeq(seqs) \in P[Len(seqs)] \cap Seq(S)
  <1> DEFINE n == Len(seqs)
  <1>1. n \in Nat /\ \A i \in 1..n : seqs[i] \in Seq(S)
    OBVIOUS
  <1>2. CASE n = 0
    <2>1. FlattenSeq(seqs) = seqs /\ seqs = <<>>
      BY <1>2 DEF FlattenSeq
    <2> QED
      BY <1>2, <2>1
  <1>3. CASE n # 0
    <2>1. PICK f : /\ f = [i \in 1..n |-> IF i = 1 THEN seqs[i] ELSE f[i - 1] \o seqs[i]]
                   /\ FlattenSeq(seqs) = f[n]
      BY <1>1, <1>3, FlattenUnfolds
    <2>2. ASSUME NEW m \in 1..n
          PROVE  f[m] = IF m = 1 THEN seqs[m] ELSE f[m - 1] \o seqs[m]
      BY <2>1
    <2> HIDE DEF n
    <2> DEFINE T == {m \in Nat : m \in 1..n => f[m] \in P[m] \cap Seq(S)}
    <2>3. 0 \in T
      OBVIOUS
    <2>4. ASSUME NEW m \in Nat, m \in T, m + 1 \in 1..n
          PROVE  f[m + 1] \in P[m + 1] \cap Seq(S)
      <3>1. CASE m = 0
        <4>1. f[1] = seqs[1] /\ seqs[1] \in Seq(S)
          BY <1>1, <2>2, <2>4, <3>1
        <4>2. <<>> \o seqs[1] = seqs[1] /\ <<>> \in Seq(S)
          BY <4>1, ConcatEmptySeq
        <4>a. 1 \in 1..Len(seqs) /\ 1 - 1 = 0 /\ <<>> \in P[1 - 1] \cap Seq(S)
          BY <2>4, <3>1, <4>2 DEF n
        <4>3. <<>> \o seqs[1] \in P[1]
          BY <4>a
        <4> QED
          BY <3>1, <4>1, <4>2, <4>3
      <3>2. CASE m # 0
        <4>1. m \in 1..n /\ m + 1 # 1 /\ (m + 1) - 1 = m
          BY <1>1, <2>4, <3>2
        <4>2. f[m] \in P[m] \cap Seq(S)
          BY <2>4, <4>1
        <4>3. f[m + 1] = f[m] \o seqs[m + 1] /\ seqs[m + 1] \in Seq(S)
          BY <1>1, <2>2, <2>4, <4>1
        <4>4. f[m] \o seqs[m + 1] \in P[m + 1]
          BY <2>4, <4>1, <4>2 DEF n
        <4>5. f[m] \o seqs[m + 1] \in Seq(S)
          BY <4>2, <4>3
        <4> QED
          BY <4>3, <4>4, <4>5
      <3> QED
        BY <3>1, <3>2
    <2>5. \A m \in Nat : m \in T => m + 1 \in T
      BY <2>4
    <2>6. n \in T
      <3> HIDE DEF T
      <3> QED
        BY <1>1, <2>3, <2>5, NaturalsAreReached
    <2>7. n \in 1..n
      BY <1>1, <1>3
    <2>8. f[n] \in P[n] \cap Seq(S)
      BY <2>6, <2>7
    <2> QED
      BY <2>1, <2>8 DEF n
  <1> QED
    BY <1>2, <1>3

\* A sequence after another holds the elements of both.
LEMMA ConcatPlaces ==
    ASSUME NEW S, NEW a \in Seq(S), NEW b \in Seq(S), NEW P
    PROVE  Cardinality(Places(a \o b, P)) = Cardinality(Places(a, P)) + Cardinality(Places(b, P))
  <1>1. PICK c : c = a \o b
    OBVIOUS
  <1>2. PICK n : n = Len(a)
    OBVIOUS
  <1>3. /\ c \in Seq(S) /\ n \in Nat /\ Len(b) \in Nat
        /\ DOMAIN a = 1..n /\ DOMAIN b = 1..Len(b) /\ DOMAIN c = 1..(n + Len(b))
        /\ \A i \in 1..n : c[i] = a[i]
        /\ \A i \in 1..Len(b) : c[n + i] = b[i]
    BY <1>1, <1>2
  <1> DEFINE B == Places(b, P)
             T == Places(c, P) \ Places(a, P)
             f == [i \in B |-> n + i]
  <1>4. B \subseteq 1..Len(b)
    BY <1>3 DEF Places
  <1>5. \A i \in Places(a, P) : i \in Places(c, P) /\ i \in 1..n
    BY <1>3 DEF Places
  <1>6. ASSUME NEW k \in T
        PROVE  k - n \in B /\ k = n + (k - n)
    <2>1. k \in 1..(n + Len(b)) /\ c[k] \in P
      BY <1>3 DEF Places
    <2>2. k \notin 1..n
      BY <1>3, <2>1 DEF Places
    <2>3. k - n \in 1..Len(b) /\ k = n + (k - n)
      BY <1>3, <2>1, <2>2
    <2>4. c[n + (k - n)] = b[k - n]
      BY <1>3, <2>3
    <2> QED
      BY <1>3, <2>1, <2>3, <2>4 DEF Places
  <1>7. ASSUME NEW i \in B
        PROVE  n + i \in T
    <2>1. i \in 1..Len(b) /\ b[i] \in P
      BY <1>3 DEF Places
    <2>2. n + i \in 1..(n + Len(b)) /\ n + i \notin 1..n
      BY <1>3, <2>1
    <2> QED
      BY <1>3, <2>1, <2>2 DEF Places
  <1>8. f \in Bijection(B, T)
    <2>1. f \in [B -> T]
      BY <1>7
    <2>2. \A i, j \in B : f[i] = f[j] => i = j
      BY <1>3, <1>4
    <2>3. \A k \in T : \E i \in B : f[i] = k
      BY <1>6
    <2> HIDE DEF f, B, T
    <2> QED
      BY <2>1, <2>2, <2>3 DEF Bijection, Injection, Surjection, IsInjective
  <1>9. IsFiniteSet(B) /\ IsFiniteSet(Places(a, P)) /\ IsFiniteSet(Places(c, P))
    BY <1>3, PlacesFinite
  <1>10. Cardinality(B) = Cardinality(T)
    <2>1. ExistsBijection(B, T)
      BY <1>8 DEF ExistsBijection
    <2> HIDE DEF f, B, T
    <2> QED
      BY <1>9, <2>1, FS_Bijection
  <1>11. Cardinality(Places(c, P)) = Cardinality(Places(a, P)) + Cardinality(T)
    <2>1. IsFiniteSet(T)
      BY <1>9, FS_Difference
    <2>2. Places(c, P) = Places(a, P) \cup T /\ Places(a, P) \cap T = {}
      BY <1>5
    <2>3. Cardinality(Places(a, P) \cap T) = 0
      BY <2>2, FS_EmptySet
    <2>4. /\ Cardinality(Places(a, P) \cup T) =
                Cardinality(Places(a, P)) + Cardinality(T) - Cardinality(Places(a, P) \cap T)
          /\ Cardinality(Places(a, P)) \in Nat /\ Cardinality(T) \in Nat
      <3> HIDE DEF T
      <3> QED
        BY <1>9, <2>1, FS_Union, FS_CardinalityType
    <2> HIDE DEF T
    <2> QED
      BY <2>2, <2>3, <2>4
  <1> QED
    BY <1>1, <1>10, <1>11

\* A sequence of elements of which all or none are in P.
LEMMA UniformPlaces ==
    ASSUME NEW n \in Nat, NEW s, s = [i \in 1..n |-> s[i]], NEW P
    PROVE  /\ (\A i \in 1..n : s[i] \in P) => Cardinality(Places(s, P)) = n
           /\ (\A i \in 1..n : s[i] \notin P) => Cardinality(Places(s, P)) = 0
  <1>1. DOMAIN s = 1..n
    OBVIOUS
  <1>2. (\A i \in 1..n : s[i] \in P) => Places(s, P) = 1..n
    BY <1>1 DEF Places
  <1>3. (\A i \in 1..n : s[i] \notin P) => Places(s, P) = {}
    BY <1>1 DEF Places
  <1>4. Cardinality(1..n) = n
    BY FS_Interval
  <1> QED
    BY <1>2, <1>3, <1>4, FS_EmptySet

\* The first element counts, and the others are in the tail.
LEMMA TailPlaces ==
    ASSUME NEW S, NEW s \in Seq(S), s # <<>>, NEW P
    PROVE  Cardinality(Places(s, P)) =
             (IF Head(s) \in P THEN 1 ELSE 0) + Cardinality(Places(Tail(s), P))
  <1>1. PICK a : a = <<Head(s)>>
    OBVIOUS
  <1>2. a \in Seq(S) /\ Tail(s) \in Seq(S) /\ a = [i \in 1..1 |-> a[i]] /\ a[1] = Head(s)
    BY <1>1
  <1>3. s = a \o Tail(s)
    BY <1>1
  <1>4. Cardinality(Places(a \o Tail(s), P)) = Cardinality(Places(a, P)) + Cardinality(Places(Tail(s), P))
    BY <1>2, ConcatPlaces
  <1>5. Cardinality(Places(a, P)) = IF Head(s) \in P THEN 1 ELSE 0
    <2>1. \A i \in 1..1 : i = 1
      OBVIOUS
    <2>2. PICK n \in Nat : n = 1
      OBVIOUS
    <2>3. a = [i \in 1..n |-> a[i]] /\ \A i \in 1..n : a[i] = Head(s)
      BY <1>2, <2>1, <2>2
    <2>4. Cardinality(Places(a, P)) = IF Head(s) \in P THEN n ELSE 0
      BY <2>3, UniformPlaces
    <2> QED
      BY <2>2, <2>4
  <1> QED
    BY <1>3, <1>4, <1>5

\* The sequences of a sequence hold no more than what is allowed to each adds up to.
LEMMA FlattenPlaces ==
    ASSUME NEW S, NEW n \in Nat, NEW seqs, seqs = [i \in 1..n |-> seqs[i]],
           \A i \in 1..n : seqs[i] \in Seq(S),
           NEW P, NEW B, B[0] = 0, \A i \in 0..n : B[i] \in Nat,
           \A i \in 1..n : Cardinality(Places(seqs[i], P)) + B[i - 1] <= B[i]
    PROVE  FlattenSeq(seqs) \in Seq(S) /\ Cardinality(Places(FlattenSeq(seqs), P)) <= B[n]
  <1> DEFINE Q == [m \in 0..n |-> {s \in Seq(S) : Cardinality(Places(s, P)) <= B[m]}]
  <1>1. seqs \in Seq(Seq(S)) /\ Len(seqs) = n
    <2>1. seqs \in [1..n -> Seq(S)]
      OBVIOUS
    <2> QED
      BY <2>1
  <1>2. <<>> \in Q[0]
    <2>1. <<>> \in Seq(S) /\ Places(<<>>, P) = {} /\ 0 \in 0..n
      BY DEF Places
    <2>2. Cardinality(Places(<<>>, P)) = 0
      BY <2>1, FS_EmptySet
    <2> QED
      BY <2>1, <2>2
  <1>3. ASSUME NEW i \in 1..Len(seqs), NEW a \in Q[i - 1] \cap Seq(S)
        PROVE  a \o seqs[i] \in Q[i]
    <2>1. i \in 1..n /\ i \in 0..n /\ i - 1 \in 0..n
      BY <1>1
    <2>2. Cardinality(Places(a, P)) <= B[i - 1] /\ seqs[i] \in Seq(S) /\ a \o seqs[i] \in Seq(S)
      BY <2>1
    <2>3. Cardinality(Places(a, P)) \in Nat /\ Cardinality(Places(seqs[i], P)) \in Nat
      BY <2>2, PlacesFinite
    <2>4. Cardinality(Places(a \o seqs[i], P)) =
              Cardinality(Places(a, P)) + Cardinality(Places(seqs[i], P))
      BY <2>2, ConcatPlaces
    <2>5. Cardinality(Places(a \o seqs[i], P)) <= B[i]
      BY <2>1, <2>2, <2>3, <2>4
    <2> QED
      BY <2>1, <2>2, <2>5
  <1>4. FlattenSeq(seqs) \in Q[Len(seqs)] \cap Seq(S)
    <2> HIDE DEF Q
    <2> QED
      BY <1>1, <1>2, <1>3, FlattenInduction
  <1>5. n \in 0..n
    OBVIOUS
  <1> QED
    BY <1>1, <1>4, <1>5

LEMMA FlattenType ==
    ASSUME NEW S, NEW n \in Nat, NEW seqs, seqs = [i \in 1..n |-> seqs[i]],
           \A i \in 1..n : seqs[i] \in Seq(S)
    PROVE  FlattenSeq(seqs) \in Seq(S)
  <1> DEFINE P == [i \in 0..n |-> Seq(S)]
  <1>1. seqs \in Seq(Seq(S)) /\ Len(seqs) = n
    OBVIOUS
  <1>2. \A i \in 0..n : P[i] = Seq(S)
    OBVIOUS
  <1>3. \A a, b \in Seq(S) : a \o b \in Seq(S)
    OBVIOUS
  <1>4. <<>> \in P[0]
    BY <1>2
  <1>5. \A i \in 1..Len(seqs) : \A a \in P[i - 1] \cap Seq(S) : a \o seqs[i] \in P[i]
    <2>1. ASSUME NEW i \in 1..n
          PROVE  P[i - 1] = Seq(S) /\ P[i] = Seq(S) /\ seqs[i] \in Seq(S)
      <3>1. i \in 0..n /\ i - 1 \in 0..n
        OBVIOUS
      <3> QED
        BY <1>2, <3>1
    <2> HIDE DEF P
    <2> QED
      BY <1>1, <1>3, <2>1
  <1> HIDE DEF P
  <1> QED
    BY <1>1, <1>4, <1>5, FlattenInduction
==============================================================================
