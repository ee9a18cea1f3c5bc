---------------------------- MODULE SelectionProofs ----------------------------
(***************************************************************************)
(* What Selected returns, for every sequence and every set.  The theorems  *)
(* on induction of the library take an operator, which no prover can be    *)
(* given; Induction and SequenceInduction take a set, of those values for  *)
(* which the goal holds.                                                   *)
(***************************************************************************)
EXTENDS Selection, SequenceTheorems, FiniteSetTheorems, WellFoundedInduction,
        TLAPS

\* Every set of numbers has a least one.
LEMMA Least ==
    ASSUME NEW T, T \subseteq Nat, T # {}
    PROVE  \E n \in T : \A m \in T : n <= m
<1> DEFINE R == OpToRel(<, Nat)
<1>1. IsWellFoundedOn(R, Nat)
  BY NatLessThanWellFounded
<1>2. \A m, n \in Nat : m < n => <<m, n>> \in R
  BY DEF OpToRel
<1> HIDE DEF R
<1>3. PICK n \in T : \A m \in T : ~(<<m, n>> \in R)
  BY <1>1, WFMin
<1>4. n \in Nat
  OBVIOUS
<1>5. ASSUME NEW m \in T PROVE n <= m
  <2>1. m \in Nat /\ ~(<<m, n>> \in R)
    BY <1>3
  <2>2. ~(m < n)
    BY <1>2, <1>4, <2>1
  <2> QED
    BY <1>4, <2>1, <2>2
<1> QED
  BY <1>5

\* Induction: a set of numbers with 0 and the successor of each is Nat.
LEMMA Induction ==
    ASSUME NEW T, 0 \in T, \A n \in Nat : n \in T => n + 1 \in T
    PROVE  \A n \in Nat : n \in T
<1> SUFFICES ASSUME Nat \ T # {} PROVE FALSE
  OBVIOUS
<1>1. PICK n \in Nat \ T : \A m \in Nat \ T : n <= m
  BY Least
<1>2. n - 1 \in Nat /\ n - 1 \in T
  BY <1>1
<1>3. (n - 1) + 1 \in T
  BY <1>2
<1> QED
  BY <1>1, <1>3

-----------------------------------------------------------------------------
(* The recursive function of Selected exists, and is determined by the     *)
(* elements it has seen.                                                    *)

IsSelection(f, s, S, n) ==
    f = [k \in 0 .. n |->
            IF k = 0 THEN <<>>
            ELSE IF s[k] \in S THEN Append(f[k - 1], s[k]) ELSE f[k - 1]]

LEMMA SelectionExists ==
    ASSUME NEW s, NEW S, NEW n \in Nat
    PROVE  \E f : IsSelection(f, s, S, n)
<1> DEFINE T == {k \in Nat : \E f : IsSelection(f, s, S, k)}
<1>1. 0 \in T
  <2>1. IsSelection([i \in 0 .. 0 |-> <<>>], s, S, 0)
    BY DEF IsSelection
  <2> QED
    BY <2>1
<1>2. ASSUME NEW k \in Nat, k \in T PROVE k + 1 \in T
  <2>1. PICK f : IsSelection(f, s, S, k)
    BY <1>2
  <2> DEFINE g == [i \in 0 .. k + 1 |->
                     IF i <= k THEN f[i]
                     ELSE IF s[k + 1] \in S THEN Append(f[k], s[k + 1]) ELSE f[k]]
  <2>2. k \in 0 .. k + 1 /\ g[k] = f[k]
    OBVIOUS
  <2>3. ASSUME NEW i \in 0 .. k + 1
        PROVE  g[i] = IF i = 0 THEN <<>>
                      ELSE IF s[i] \in S THEN Append(g[i - 1], s[i]) ELSE g[i - 1]
    <3>1. CASE i = k + 1
      BY <2>2, <3>1
    <3>2. CASE i # k + 1
      <4>1. /\ i \in 0 .. k /\ g[i] = f[i]
            /\ i # 0 => i - 1 \in 0 .. k + 1 /\ i - 1 <= k /\ g[i - 1] = f[i - 1]
        BY <3>2
      <4> HIDE DEF g
      <4> QED
        BY <2>1, <4>1 DEF IsSelection
    <3> QED
      BY <3>1, <3>2
  <2>4. g = [i \in 0 .. k + 1 |-> g[i]]
    OBVIOUS
  <2> HIDE DEF g
  <2>5. IsSelection(g, s, S, k + 1)
    BY <2>3, <2>4 DEF IsSelection
  <2> QED
    BY <2>5
<1> HIDE DEF T
<1>3. n \in T
  BY <1>1, <1>2, Induction
<1> QED
  BY <1>3 DEF T

\* What Selected is, step by step.
LEMMA SelectionOf ==
    ASSUME NEW s, NEW S, Len(s) \in Nat
    PROVE  \E f : IsSelection(f, s, S, Len(s)) /\ Selected(s, S) = f[Len(s)]
<1> DEFINE F == CHOOSE f : IsSelection(f, s, S, Len(s))
<1>1. IsSelection(F, s, S, Len(s))
  BY SelectionExists
<1>2. Selected(s, S) = F[Len(s)]
  BY DEF Selected, IsSelection
<1> QED
  BY <1>1, <1>2

\* Selections of sequences that begin alike begin alike.
LEMMA SelectionsAgree ==
    ASSUME NEW s, NEW t, NEW S, NEW m \in Nat, NEW n \in Nat, m <= n,
           \A i \in 1 .. m : s[i] = t[i],
           NEW f, IsSelection(f, s, S, m), NEW g, IsSelection(g, t, S, n)
    PROVE  f[m] = g[m]
<1> DEFINE T == {k \in Nat : k <= m => f[k] = g[k]}
<1>1. 0 \in T
  BY DEF IsSelection
<1>2. ASSUME NEW k \in Nat, k \in T PROVE k + 1 \in T
  <2> SUFFICES ASSUME k + 1 <= m PROVE f[k + 1] = g[k + 1]
    OBVIOUS
  <2>1. /\ k + 1 \in 0 .. m /\ k + 1 \in 0 .. n /\ k + 1 # 0 /\ (k + 1) - 1 = k
        /\ f[k] = g[k] /\ s[k + 1] = t[k + 1]
    BY <1>2
  <2>2. f[k + 1] = IF s[k + 1] \in S THEN Append(f[k], s[k + 1]) ELSE f[k]
    BY <2>1 DEF IsSelection
  <2>3. g[k + 1] = IF t[k + 1] \in S THEN Append(g[k], t[k + 1]) ELSE g[k]
    BY <2>1 DEF IsSelection
  <2> QED
    BY <2>1, <2>2, <2>3
<1> HIDE DEF T
<1>3. m \in T
  BY <1>1, <1>2, Induction
<1> QED
  BY <1>3 DEF T

-----------------------------------------------------------------------------
(* Facts to use.                                                           *)

LEMMA SelectedNone ==
    ASSUME NEW S PROVE Selected(<<>>, S) = <<>>
<1>1. Len(<<>>) = 0
  OBVIOUS
<1>2. PICK f : IsSelection(f, <<>>, S, 0) /\ Selected(<<>>, S) = f[0]
  BY <1>1, SelectionOf
<1> QED
  BY <1>2 DEF IsSelection

LEMMA SelectedAppend ==
    ASSUME NEW T, NEW s \in Seq(T), NEW e \in T, NEW S
    PROVE  Selected(Append(s, e), S) =
               IF e \in S THEN Append(Selected(s, S), e) ELSE Selected(s, S)
<1> DEFINE t == Append(s, e)
<1> DEFINE n == Len(s)
<1>1. /\ n \in Nat /\ Len(t) = n + 1 /\ t[n + 1] = e
      /\ \A i \in 1 .. n : s[i] = t[i]
  BY AppendProperties, LenProperties
<1> HIDE DEF t, n
<1>2. PICK f : IsSelection(f, s, S, n) /\ Selected(s, S) = f[n]
  BY <1>1, SelectionOf DEF n
<1>3. PICK g : IsSelection(g, t, S, n + 1) /\ Selected(t, S) = g[n + 1]
  BY <1>1, SelectionOf
<1>4. f[n] = g[n]
  BY <1>1, <1>2, <1>3, SelectionsAgree
<1>5. n + 1 \in 0 .. n + 1 /\ n + 1 # 0 /\ (n + 1) - 1 = n
  BY <1>1
<1>6. g[n + 1] = IF t[n + 1] \in S THEN Append(g[n], t[n + 1]) ELSE g[n]
  BY <1>3, <1>5 DEF IsSelection
<1> QED
  BY <1>1, <1>2, <1>3, <1>4, <1>6 DEF t

\* Induction over sequences: a set with the empty sequence and, with each
\* sequence, the longer ones by one element.
LEMMA SequenceInduction ==
    ASSUME NEW T, NEW Q, <<>> \in Q,
           \A s \in Seq(T), e \in T : s \in Q => Append(s, e) \in Q
    PROVE  \A s \in Seq(T) : s \in Q
<1> DEFINE N == {n \in Nat : \A s \in Seq(T) : Len(s) = n => s \in Q}
<1>1. 0 \in N
  BY EmptySeq
<1>2. ASSUME NEW n \in Nat, n \in N PROVE n + 1 \in N
  <2> SUFFICES ASSUME NEW s \in Seq(T), Len(s) = n + 1 PROVE s \in Q
    OBVIOUS
  <2>1. s # <<>>
    BY EmptySeq
  <2>2. PICK r \in Seq(T), e \in T : s = Append(r, e)
    BY <2>1, SequenceEmptyOrAppend
  <2>3. Len(r) = n
    BY <2>2, AppendProperties, LenProperties
  <2> QED
    BY <1>2, <2>2, <2>3
<1> HIDE DEF N
<1>3. \A n \in Nat : n \in N
  BY <1>1, <1>2, Induction
<1> QED
  BY <1>3, LenProperties DEF N

\* What is selected are elements of both.
LEMMA SelectedType ==
    ASSUME NEW T, NEW s \in Seq(T), NEW S
    PROVE  Selected(s, S) \in Seq(T \cap S) /\ Selected(s, S) \in Seq(T)
<1> DEFINE Q == {r \in Seq(T) : Selected(r, S) \in Seq(T \cap S)}
<1>1. <<>> \in Q
  BY SelectedNone, EmptySeq
<1>2. ASSUME NEW r \in Seq(T), NEW e \in T, r \in Q PROVE Append(r, e) \in Q
  <2>1. /\ Append(r, e) \in Seq(T)
        /\ Selected(r, S) \in Seq(T \cap S)
    BY <1>2, AppendProperties
  <2>2. CASE e \in S
    <3>1. Append(Selected(r, S), e) \in Seq(T \cap S)
      BY <2>1, <2>2, AppendProperties
    <3> QED
      BY <2>1, <2>2, <3>1, SelectedAppend
  <2>3. CASE e \notin S
    BY <2>1, <2>3, SelectedAppend
  <2> QED
    BY <2>2, <2>3
<1> HIDE DEF Q
<1>3. s \in Q
  BY <1>1, <1>2, SequenceInduction
<1>4. Selected(s, S) \in Seq(T \cap S)
  BY <1>3 DEF Q
<1>5. /\ Len(Selected(s, S)) \in Nat
      /\ Selected(s, S) \in [1 .. Len(Selected(s, S)) -> T \cap S]
  BY <1>4, LenProperties
<1>6. Selected(s, S) \in [1 .. Len(Selected(s, S)) -> T]
  BY <1>5
<1> QED
  BY <1>4, <1>5, <1>6

\* As many are selected as there are places that hold one.
LEMMA SelectedCounts ==
    ASSUME NEW T, NEW s \in Seq(T), NEW S
    PROVE  /\ IsFiniteSet({i \in 1 .. Len(s) : s[i] \in S})
           /\ Len(Selected(s, S)) = Cardinality({i \in 1 .. Len(s) : s[i] \in S})
<1> DEFINE At(r) == {i \in 1 .. Len(r) : r[i] \in S}
<1> DEFINE Q == {r \in Seq(T) : /\ IsFiniteSet(At(r))
                                /\ Len(Selected(r, S)) = Cardinality(At(r))}
<1>1. <<>> \in Q
  <2>1. At(<<>>) = {}
    BY EmptySeq
  <2> QED
    BY <2>1, SelectedNone, EmptySeq, FS_EmptySet
<1>2. ASSUME NEW r \in Seq(T), NEW e \in T, r \in Q PROVE Append(r, e) \in Q
  <2> DEFINE n == Len(r)
  <2> DEFINE longer == Append(r, e)
  <2>1. /\ n \in Nat /\ longer \in Seq(T) /\ Len(longer) = n + 1
        /\ longer[n + 1] = e /\ \A i \in 1 .. n : longer[i] = r[i]
    BY AppendProperties, LenProperties
  <2>2. /\ IsFiniteSet(At(r)) /\ Len(Selected(r, S)) = Cardinality(At(r))
    BY <1>2
  <2> HIDE DEF n, longer
  <2>3. CASE e \in S
    <3>1. At(longer) = At(r) \cup {n + 1} /\ n + 1 \notin At(r)
      BY <2>1, <2>3 DEF n
    <3>2. Selected(longer, S) = Append(Selected(r, S), e)
      BY <2>3, SelectedAppend DEF longer
    <3>3. Len(Selected(longer, S)) = Len(Selected(r, S)) + 1
      BY <3>2, <2>3, SelectedType, AppendProperties
    <3>4. /\ IsFiniteSet(At(r) \cup {n + 1})
          /\ Cardinality(At(r) \cup {n + 1}) = Cardinality(At(r)) + 1
      <4> HIDE DEF At
      <4> QED
        BY <2>2, <3>1, FS_AddElement
    <3> QED
      BY <2>1, <2>2, <3>1, <3>3, <3>4 DEF longer
  <2>4. CASE e \notin S
    <3>1. At(longer) = At(r)
      BY <2>1, <2>4 DEF n
    <3>2. Selected(longer, S) = Selected(r, S)
      BY <2>4, SelectedAppend DEF longer
    <3> QED
      BY <2>1, <2>2, <3>1, <3>2 DEF longer
  <2> QED
    BY <2>3, <2>4
<1> HIDE DEF Q
<1>3. s \in Q
  BY <1>1, <1>2, SequenceInduction
<1> QED
  BY <1>3 DEF Q

\* A function, and the image of a sequence under it.
Maps(g, A, B) == g \in [A -> B]
Image(g, s) == [i \in 1 .. Len(s) |-> g[s[i]]]

LEMMA ImageFacts ==
    ASSUME NEW A, NEW B, NEW g, Maps(g, A, B), NEW s \in Seq(A)
    PROVE  /\ Image(g, s) \in Seq(B) /\ Len(Image(g, s)) = Len(s)
           /\ \A e \in A : Image(g, Append(s, e)) = Append(Image(g, s), g[e])
<1>1. /\ Len(s) \in Nat /\ \A i \in 1 .. Len(s) : s[i] \in A
  BY LenProperties
<1>2. Image(g, s) \in Seq(B) /\ Len(Image(g, s)) = Len(s)
  BY <1>1 DEF Image, Maps
<1>3. ASSUME NEW e \in A
      PROVE  Image(g, Append(s, e)) = Append(Image(g, s), g[e])
  <2>1. /\ Append(s, e) \in Seq(A) /\ Len(Append(s, e)) = Len(s) + 1
        /\ Append(s, e)[Len(s) + 1] = e
        /\ \A i \in 1 .. Len(s) : Append(s, e)[i] = s[i]
    BY AppendProperties
  <2>2. /\ Append(Image(g, s), g[e]) \in Seq(B)
        /\ Len(Append(Image(g, s), g[e])) = Len(s) + 1
        /\ Append(Image(g, s), g[e])[Len(s) + 1] = g[e]
        /\ \A i \in 1 .. Len(s) : Append(Image(g, s), g[e])[i] = Image(g, s)[i]
    <3>1. g[e] \in B
      BY DEF Maps
    <3> QED
      BY <1>2, <3>1, AppendProperties
  <2>3. /\ Image(g, Append(s, e)) \in Seq(B)
        /\ Len(Image(g, Append(s, e))) = Len(s) + 1
    BY <1>1, <2>1 DEF Image, Maps
  <2>4. ASSUME NEW i \in 1 .. Len(s) + 1
        PROVE  Image(g, Append(s, e))[i] = Append(Image(g, s), g[e])[i]
    BY <1>1, <2>1, <2>2 DEF Image, Maps
  <2> QED
    BY <2>2, <2>3, <2>4, SeqEqual
<1> QED
  BY <1>2, <1>3

\* The elements of S among those of A are those that g takes into U.
TakenInto(g, A, S, U) == \A a \in A : g[a] \in U <=> a \in S

\* To select and then to map is to map and then to select.
LEMMA SelectedImage ==
    ASSUME NEW A, NEW B, NEW g, Maps(g, A, B), NEW s \in Seq(A),
           NEW S, NEW U, TakenInto(g, A, S, U)
    PROVE  Selected(Image(g, s), U) = Image(g, Selected(s, S))
<1> DEFINE Q == {r \in Seq(A) :
                    Selected(Image(g, r), U) = Image(g, Selected(r, S))}
<1>1. <<>> \in Q
  <2>1. Image(g, <<>>) = <<>>
    BY EmptySeq DEF Image
  <2> QED
    BY <2>1, SelectedNone, EmptySeq
<1>2. ASSUME NEW r \in Seq(A), NEW e \in A, r \in Q PROVE Append(r, e) \in Q
  <2>1. Append(r, e) \in Seq(A) /\ Selected(r, S) \in Seq(A)
    BY SelectedType, AppendProperties
  <2>2. /\ Image(g, r) \in Seq(B) /\ g[e] \in B
        /\ Image(g, Append(r, e)) = Append(Image(g, r), g[e])
        /\ Image(g, Append(Selected(r, S), e)) = Append(Image(g, Selected(r, S)), g[e])
    <3> DEFINE q == Selected(r, S)
    <3>1. q \in Seq(A)
      BY <2>1
    <3> HIDE DEF q, Q
    <3>2. \A t \in Seq(A) : /\ Image(g, t) \in Seq(B)
                            /\ \A d \in A : Image(g, Append(t, d)) = Append(Image(g, t), g[d])
      BY ImageFacts
    <3>3. g[e] \in B
      BY DEF Maps
    <3> QED
      BY <3>1, <3>2, <3>3 DEF q
  <2>3. Selected(Append(Image(g, r), g[e]), U) =
            IF g[e] \in U THEN Append(Selected(Image(g, r), U), g[e])
            ELSE Selected(Image(g, r), U)
    <3> DEFINE q == Image(g, r)
    <3> DEFINE d == g[e]
    <3>1. q \in Seq(B) /\ d \in B
      BY <2>2
    <3> HIDE DEF q, d, Q
    <3>2. Selected(Append(q, d), U) =
              IF d \in U THEN Append(Selected(q, U), d) ELSE Selected(q, U)
      BY <3>1, SelectedAppend
    <3> QED
      BY <3>2 DEF q, d
  <2>4. Selected(Append(r, e), S) =
            IF e \in S THEN Append(Selected(r, S), e) ELSE Selected(r, S)
    BY SelectedAppend
  <2> QED
    BY <1>2, <2>1, <2>2, <2>3, <2>4 DEF TakenInto
<1> HIDE DEF Q
<1>3. s \in Q
  BY <1>1, <1>2, SequenceInduction
<1> QED
  BY <1>3 DEF Q

\* What is selected from two sequences in a row.
LEMMA SelectedConcat ==
    ASSUME NEW T, NEW s \in Seq(T), NEW t \in Seq(T), NEW S
    PROVE  Selected(s \o t, S) = Selected(s, S) \o Selected(t, S)
<1> DEFINE Q == {r \in Seq(T) : Selected(s \o r, S) = Selected(s, S) \o Selected(r, S)}
<1>1. <<>> \in Q
  <2>1. s \o <<>> = s /\ Selected(s, S) \o <<>> = Selected(s, S)
    BY SelectedType, ConcatEmptySeq
  <2> QED
    BY <2>1, SelectedNone, EmptySeq
<1>2. ASSUME NEW r \in Seq(T), NEW e \in T, r \in Q PROVE Append(r, e) \in Q
  <2> DEFINE a == Selected(s, S)
  <2> DEFINE b == Selected(r, S)
  <2>1. s \o r \in Seq(T) /\ Append(r, e) \in Seq(T) /\ a \in Seq(T) /\ b \in Seq(T)
    BY SelectedType, ConcatProperties, AppendProperties
  <2>2. /\ s \o Append(r, e) = Append(s \o r, e)
        /\ a \o Append(b, e) = Append(a \o b, e)
    <3> HIDE DEF a, b
    <3>1. \A u, v \in Seq(T) : u \o Append(v, e) = Append(u \o v, e)
      OBVIOUS
    <3> QED
      BY <2>1, <3>1
  <2>3. Selected(s \o r, S) = a \o b
    BY <1>2
  <2>4. Selected(Append(s \o r, e), S) = IF e \in S THEN Append(a \o b, e) ELSE a \o b
    <3>1. Selected(Append(s \o r, e), S) =
              IF e \in S THEN Append(Selected(s \o r, S), e) ELSE Selected(s \o r, S)
      BY <2>1, SelectedAppend
    <3> HIDE DEF a, b
    <3> QED
      BY <2>3, <3>1
  <2>5. Selected(Append(r, e), S) = IF e \in S THEN Append(b, e) ELSE b
    BY SelectedAppend
  <2> HIDE DEF a, b
  <2>6. Selected(s \o Append(r, e), S) = a \o Selected(Append(r, e), S)
    <3>1. CASE e \in S
      BY <2>2, <2>4, <2>5, <3>1
    <3>2. CASE e \notin S
      BY <2>2, <2>4, <2>5, <3>2
    <3> QED
      BY <3>1, <3>2
  <2> QED
    BY <2>1, <2>6 DEF a
<1> HIDE DEF Q
<1>3. t \in Q
  BY <1>1, <1>2, SequenceInduction
<1> QED
  BY <1>3 DEF Q

\* Where all match, all are selected; where none does, none is.
LEMMA SelectedAll ==
    ASSUME NEW T, NEW s \in Seq(T), NEW S
    PROVE  /\ (\A i \in 1 .. Len(s) : s[i] \in S) => Selected(s, S) = s
           /\ (\A i \in 1 .. Len(s) : s[i] \notin S) => Selected(s, S) = <<>>
<1> DEFINE Q == {r \in Seq(T) :
        /\ (\A i \in 1 .. Len(r) : r[i] \in S) => Selected(r, S) = r
        /\ (\A i \in 1 .. Len(r) : r[i] \notin S) => Selected(r, S) = <<>>}
<1>1. <<>> \in Q
  BY SelectedNone, EmptySeq
<1>2. ASSUME NEW r \in Seq(T), NEW e \in T, r \in Q PROVE Append(r, e) \in Q
  <2> DEFINE longer == Append(r, e)
  <2>1. /\ longer \in Seq(T) /\ Len(r) \in Nat /\ Len(longer) = Len(r) + 1
        /\ longer[Len(r) + 1] = e /\ \A i \in 1 .. Len(r) : longer[i] = r[i]
    BY AppendProperties, LenProperties
  <2>2. Selected(longer, S) = IF e \in S THEN Append(Selected(r, S), e)
                              ELSE Selected(r, S)
    BY SelectedAppend
  <2> HIDE DEF longer
  <2>3. ASSUME \A i \in 1 .. Len(longer) : longer[i] \in S
        PROVE  Selected(longer, S) = longer
    <3>1. e \in S /\ \A i \in 1 .. Len(r) : r[i] \in S
      BY <2>1, <2>3
    <3> QED
      BY <1>2, <2>2, <3>1 DEF longer
  <2>4. ASSUME \A i \in 1 .. Len(longer) : longer[i] \notin S
        PROVE  Selected(longer, S) = <<>>
    <3>1. e \notin S /\ \A i \in 1 .. Len(r) : r[i] \notin S
      BY <2>1, <2>4
    <3> QED
      BY <1>2, <2>2, <3>1
  <2> QED
    BY <2>1, <2>3, <2>4 DEF longer
<1> HIDE DEF Q
<1>3. s \in Q
  BY <1>1, <1>2, SequenceInduction
<1> QED
  BY <1>3 DEF Q

-----------------------------------------------------------------------------
(* An answer that is read line by line: s has been read, t is on its way.  *)

LEMMA LineRead ==
    ASSUME NEW T, NEW s \in Seq(T), NEW t \in Seq(T), t # <<>>
    PROVE  /\ Head(t) \in T /\ Tail(t) \in Seq(T) /\ Append(s, Head(t)) \in Seq(T)
           /\ t = <<Head(t)>> \o Tail(t)
           /\ Append(s, Head(t)) \o Tail(t) = s \o t
<1> DEFINE h == Head(t)
<1>1. h \in T /\ Tail(t) \in Seq(T) /\ Len(Tail(t)) = Len(t) - 1 /\ Len(t) \in Nat \ {0}
      /\ \A i \in 1 .. Len(Tail(t)) : Tail(t)[i] = t[i + 1]
  BY HeadTailProperties, EmptySeq
<1>2. h = t[1]
  OBVIOUS
<1> HIDE DEF h
<1>3. /\ <<h>> \in Seq(T) /\ Len(<<h>>) = 1 /\ <<h>>[1] = h
  BY <1>1
<1>4. t = <<h>> \o Tail(t)
  <2> DEFINE u == <<h>> \o Tail(t)
  <2> DEFINE rest == Tail(t)
  <2>1. /\ u \in Seq(T) /\ Len(u) = 1 + Len(rest)
        /\ \A i \in 1 .. 1 + Len(rest) :
                u[i] = IF i <= 1 THEN <<h>>[i] ELSE rest[i - 1]
    BY <1>1, <1>3, ConcatProperties
  <2> HIDE DEF u, rest
  <2>2. Len(u) = Len(t)
    BY <1>1, <2>1 DEF rest
  <2>3. ASSUME NEW i \in 1 .. Len(u) PROVE u[i] = t[i]
    <3>1. CASE i = 1
      BY <1>1, <1>2, <1>3, <2>1, <3>1 DEF rest
    <3>2. CASE i # 1
      <4>1. i - 1 \in 1 .. Len(rest) /\ (i - 1) + 1 = i /\ ~(i <= 1)
        BY <1>1, <2>2, <3>2 DEF rest
      <4>2. rest[i - 1] = t[i]
        BY <1>1, <4>1 DEF rest
      <4>3. i \in 1 .. 1 + Len(rest)
        BY <1>1, <2>1 DEF rest
      <4> QED
        BY <2>1, <4>1, <4>2, <4>3
    <3> QED
      BY <3>1, <3>2
  <2>4. u = t
    BY <2>1, <2>2, <2>3, SeqEqual
  <2> QED
    BY <2>4 DEF u
<1>5. Append(s, h) = s \o <<h>> /\ Append(s, h) \in Seq(T)
  BY <1>1, AppendIsConcat, AppendProperties
<1>6. (s \o <<h>>) \o Tail(t) = s \o (<<h>> \o Tail(t))
  BY <1>1, <1>3, ConcatAssociative
<1> QED
  BY <1>1, <1>4, <1>5, <1>6 DEF h

\* The line that is on its way next and ends the answer is its last one.
LEMMA LastLineRead ==
    ASSUME NEW T, NEW s \in Seq(T), NEW t \in Seq(T), t # <<>>,
           NEW u \in Seq(T), NEW d \in T, s \o t = Append(u, d), Head(t) = d,
           \A i \in 1 .. Len(u) : u[i] # d
    PROVE  s = u /\ t = <<d>>
<1>1. /\ Len(s) \in Nat /\ Len(u) \in Nat /\ Len(t) \in Nat \ {0}
      /\ Head(t) = t[1]
  BY LenProperties, EmptySeq
<1>2. /\ Append(u, d) \in Seq(T) /\ Len(Append(u, d)) = Len(u) + 1
      /\ \A i \in 1 .. Len(u) : Append(u, d)[i] = u[i]
  BY AppendProperties
<1> DEFINE a == s \o t
<1>3. /\ Len(a) = Len(s) + Len(t)
      /\ \A i \in 1 .. Len(s) + Len(t) :
            a[i] = IF i <= Len(s) THEN s[i] ELSE t[i - Len(s)]
  BY ConcatProperties
<1>4. a = Append(u, d)
  OBVIOUS
<1> HIDE DEF a
<1>5. Len(s) + Len(t) = Len(u) + 1
  BY <1>2, <1>3, <1>4
<1>6. a[Len(s) + 1] = t[1]
  <2>1. /\ Len(s) + 1 \in 1 .. Len(s) + Len(t) /\ ~(Len(s) + 1 <= Len(s))
        /\ (Len(s) + 1) - Len(s) = 1
    BY <1>1
  <2> QED
    BY <1>3, <2>1
<1>7. Len(s) = Len(u)
  <2> SUFFICES ASSUME Len(s) + 1 \in 1 .. Len(u) PROVE FALSE
    BY <1>1, <1>5
  <2> QED
    BY <1>1, <1>2, <1>4, <1>6
<1>8. Len(t) = 1 /\ t = <<d>>
  <2>1. \A k, m, n \in Nat : k + m = n + 1 /\ k = n => m = 1
    OBVIOUS
  <2>2. Len(t) = 1
    BY <1>1, <1>5, <1>7, <2>1
  <2>3. <<d>> \in Seq(T) /\ Len(<<d>>) = 1 /\ <<d>>[1] = d
    OBVIOUS
  <2> QED
    BY <1>1, <2>2, <2>3, SeqEqual
<1>9. ASSUME NEW i \in 1 .. Len(s) PROVE s[i] = u[i]
  <2>1. i \in 1 .. Len(s) + Len(t) /\ i <= Len(s) /\ i \in 1 .. Len(u)
    BY <1>1, <1>7
  <2> QED
    BY <1>2, <1>3, <1>4, <2>1
<1> QED
  BY <1>7, <1>8, <1>9, SeqEqual

\* The part of a sequence behind its first m elements.
LEMMA PartOf ==
    ASSUME NEW T, NEW s, NEW m \in Nat, NEW n \in Nat, m <= n,
           \A i \in m + 1 .. n : s[i] \in T
    PROVE  /\ SubSeq(s, m + 1, n) \in Seq(T) /\ Len(SubSeq(s, m + 1, n)) = n - m
           /\ \A i \in 1 .. n - m : SubSeq(s, m + 1, n)[i] = s[m + i]
<1> DEFINE t == SubSeq(s, m + 1, n)
<1>1. /\ t \in Seq(T) /\ Len(t) = IF m + 1 <= n THEN n - (m + 1) + 1 ELSE 0
      /\ \A i \in 1 .. n - (m + 1) + 1 : t[i] = s[(m + 1) + i - 1]
  BY SubSeqProperties
<1> HIDE DEF t
<1>2. n - (m + 1) + 1 = n - m /\ \A i \in 1 .. n - m : (m + 1) + i - 1 = m + i
  OBVIOUS
<1>3. \A i \in 1 .. n - m : t[i] = s[m + i]
  BY <1>1, <1>2
<1>4. Len(t) = n - m
  BY <1>1
<1> QED
  BY <1>1, <1>3, <1>4 DEF t

\* Where a part of t is read behind s, they are as long together as before.
LEMMA SomeRead ==
    ASSUME NEW T, NEW s \in Seq(T), NEW t \in Seq(T), NEW k \in 1 .. Len(t)
    PROVE  /\ SubSeq(t, 1, k) \in Seq(T) /\ SubSeq(t, k + 1, Len(t)) \in Seq(T)
           /\ (s \o SubSeq(t, 1, k)) \o SubSeq(t, k + 1, Len(t)) = s \o t
<1> DEFINE a == SubSeq(t, 1, k)
<1> DEFINE b == SubSeq(t, k + 1, Len(t))
<1>1. /\ Len(t) \in Nat /\ \A i \in 1 .. Len(t) : t[i] \in T
      /\ 1 \in Int /\ k \in Int /\ k + 1 \in Int /\ Len(t) \in Int
  BY LenProperties
<1>2. (\A i \in 1 .. k : t[i] \in T) /\ \A i \in k + 1 .. Len(t) : t[i] \in T
  BY <1>1
<1>3. a \in Seq(T) /\ b \in Seq(T)
  BY <1>1, <1>2, SubSeqProperties
<1>4. a \o b = t
  <2>1. /\ 1 \in 1 .. Len(t) + 1 /\ k \in 1 - 1 .. Len(t) /\ Len(t) \in k .. Len(t)
    BY <1>1
  <2>2. a \o b = SubSeq(t, 1, Len(t))
    BY <2>1, ConcatAdjacentSubSeq
  <2> QED
    BY <2>2, SubSeqFull
<1> HIDE DEF a, b
<1>5. (s \o a) \o b = s \o (a \o b)
  BY <1>3
<1> QED
  BY <1>3, <1>4, <1>5 DEF a, b
=============================================================================
