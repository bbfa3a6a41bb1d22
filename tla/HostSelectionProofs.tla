------------------------ MODULE HostSelectionProofs -------------------------
(***************************************************************************)
(* Proofs about HostSelection, for any nodes, extenders, scores and        *)
(* numbers of nodes to report.                                             *)
(***************************************************************************)
EXTENDS HostSelection, FiniteSetTheorems, FunctionTheorems, WellFoundedInduction, TLAPS

-----------------------------------------------------------------------------
(* Induction, without a theorem that has an operator for a parameter: a    *)
(* set of counterexamples has a least one.                                 *)

\* A collection of subsets of a finite set has a least member.
LEMMA LeastSet ==
  ASSUME NEW S, IsFiniteSet(S), NEW C \in SUBSET (SUBSET S), C # {}
  PROVE  \E T \in C : \A U \in C : U \subseteq T => U = T
<1> DEFINE Less == StrictSubsetOrdering(S)
<1>1. IsWellFoundedOn(Less, FiniteSubsetsOf(S))
  BY FS_StrictSubsetOrderingWellFounded
<1>2. C \subseteq FiniteSubsetsOf(S)
  BY FS_Subset DEF FiniteSubsetsOf
<1>3. \E T \in C : \A U \in C : ~ (<<U, T>> \in Less)
  <2> HIDE DEF Less
  <2> QED
    BY <1>1, <1>2, WFMin
<1>4. PICK T \in C : \A U \in C : ~ (<<U, T>> \in Less)
  BY <1>3
<1>5. ASSUME NEW U \in C, U \subseteq T, U # T PROVE <<U, T>> \in Less
  BY <1>5 DEF StrictSubsetOrdering
<1> HIDE DEF Less
<1>6. \A U \in C : U \subseteq T => U = T
  BY <1>4, <1>5
<1> QED
  BY <1>6

\* Numbers have a least one, without the induction theorems.
LEMMA LeastNumber ==
  ASSUME NEW C \in SUBSET Nat, C # {}
  PROVE  \E n \in C : \A m \in C : n <= m
<1>1. PICK k \in C : TRUE
  OBVIOUS
<1> DEFINE I == {0..n : n \in {m \in C : m <= k}}
<1>2. I \in SUBSET (SUBSET (0..k)) /\ 0..k \in I
  BY <1>1
<1>3. IsFiniteSet(0..k)
  BY FS_Interval
<1>4. \E T \in I : \A U \in I : U \subseteq T => U = T
  <2>1. PICK S : S = 0..k
    OBVIOUS
  <2>2. IsFiniteSet(S) /\ I \in SUBSET (SUBSET S) /\ I # {}
    BY <1>2, <1>3, <2>1
  <2> HIDE DEF I
  <2> QED
    BY <2>2, LeastSet
<1>5. PICK n \in C : n <= k /\ \A U \in I : U \subseteq 0..n => U = 0..n
  BY <1>4
<1>6. ASSUME NEW m \in C, m < n PROVE FALSE
  <2>1. 0..m \in I /\ 0..m \subseteq 0..n
    BY <1>5, <1>6
  <2>2. 0..m = 0..n
    BY <1>5, <2>1
  <2>3. n \in 0..n /\ n \notin 0..m
    BY <1>6
  <2> QED
    BY <2>2, <2>3
<1>7. \A m \in C : n <= m
  BY <1>6
<1> QED
  BY <1>7

-----------------------------------------------------------------------------
(* Sums: what MapThenSumSet adds up.                                       *)

SumOver(a, n, S) == MapThenSumSet(LAMBDA e : a[e][n], S)

\* The element a sum begins with, and what a function from sets to sums must fit.
First(s) == CHOOSE x \in s : TRUE
Fits(g, a, n, T) ==
  \A s \in SUBSET T : g[s] = IF s = {} THEN 0 ELSE a[First(s)][n] + g[s \ {First(s)}]

\* Two such functions agree where both are defined.
LEMMA FitsAgree ==
  ASSUME NEW S, IsFiniteSet(S), NEW a, NEW n, NEW T \in SUBSET S, NEW U \in SUBSET S,
         NEW g, NEW f, Fits(g, a, n, T), Fits(f, a, n, U), NEW s \in SUBSET (T \cap U)
  PROVE  g[s] = f[s]
<1> DEFINE C == {r \in SUBSET (T \cap U) : g[r] # f[r]}
<1>1. SUFFICES ASSUME C # {} PROVE FALSE
  OBVIOUS
<1>2. C \in SUBSET (SUBSET S)
  OBVIOUS
<1>3. \E r \in C : \A q \in C : q \subseteq r => q = r
  <2> HIDE DEF C
  <2> QED
    BY <1>1, <1>2, LeastSet
<1>4. PICK r \in C : \A q \in C : q \subseteq r => q = r
  BY <1>3
<1>5. r # {}
  BY <1>4 DEF Fits
<1>6. First(r) \in r
  BY <1>5 DEF First
<1>7. r \ {First(r)} \notin C /\ r \ {First(r)} \in SUBSET (T \cap U)
  BY <1>4, <1>6
<1>8. g[r \ {First(r)}] = f[r \ {First(r)}]
  BY <1>7
<1> QED
  BY <1>4, <1>5, <1>8 DEF Fits

\* There is one, on any finite set.
LEMMA FitsExists ==
  ASSUME NEW S, IsFiniteSet(S), NEW a, NEW n
  PROVE  \E g : Fits(g, a, n, S)
<1> DEFINE C == {T \in SUBSET S : ~ \E g : Fits(g, a, n, T)}
<1>1. SUFFICES ASSUME C # {} PROVE FALSE
  OBVIOUS
<1>0. \E T \in C : \A U \in C : U \subseteq T => U = T
  <2>1. C \in SUBSET (SUBSET S)
    OBVIOUS
  <2> HIDE DEF C
  <2> QED
    BY <1>1, <2>1, LeastSet
<1>2. PICK T \in C : \A U \in C : U \subseteq T => U = T
  BY <1>0
<1>3. \A U \in SUBSET T : U # T => \E g : Fits(g, a, n, U)
  BY <1>2
<1> DEFINE G(U) == CHOOSE g : Fits(g, a, n, U)
<1>4. \A U \in SUBSET T : U # T => Fits(G(U), a, n, U)
  BY <1>3
<1>5. T # {}
  <2>1. Fits([s \in SUBSET {} |-> 0], a, n, {})
    BY DEF Fits
  <2> QED
    BY <1>2, <2>1
<1>6. First(T) \in T
  BY <1>5 DEF First
<1> DEFINE R == T \ {First(T)}
<1> DEFINE g == [s \in SUBSET T |-> IF s = T THEN a[First(T)][n] + G(R)[R] ELSE G(s)[s]]
<1>7. R \in SUBSET T /\ R # T
  BY <1>6
<1>8. ASSUME NEW s \in SUBSET T, s # T, s # {}
       PROVE  g[s] = a[First(s)][n] + g[s \ {First(s)}]
  <2>1. First(s) \in s
    BY <1>8 DEF First
  <2>2. PICK r \in SUBSET T : r = s \ {First(s)}
    BY <2>1
  <2>3. r # T /\ r \in SUBSET s
    BY <1>8, <2>1, <2>2
  <2>4. Fits(G(s), a, n, s) /\ Fits(G(r), a, n, r)
    BY <1>4, <1>8, <2>3
  <2>5. G(s)[s] = a[First(s)][n] + G(s)[r]
    BY <1>8, <2>2, <2>4 DEF Fits
  <2>6. G(s)[r] = G(r)[r]
    <3> HIDE DEF G
    <3>1. s \in SUBSET S /\ r \in SUBSET S /\ r \in SUBSET (s \cap r)
      BY <1>2, <2>3
    <3> QED
      BY <2>4, <3>1, FitsAgree
  <2> HIDE DEF G
  <2> QED
    BY <1>8, <2>2, <2>3, <2>5, <2>6
<1>9. g[{}] = 0
  <2>1. {} \in SUBSET T /\ Fits(G({}), a, n, {})
    BY <1>4, <1>5
  <2>2. G({})[{}] = 0
    BY <2>1 DEF Fits
  <2> HIDE DEF G
  <2> QED
    BY <1>5, <2>2
<1>10. g[T] = a[First(T)][n] + g[R]
  <2> HIDE DEF G
  <2> QED
    BY <1>7
<1>11. Fits(g, a, n, T)
  <2> HIDE DEF g
  <2> QED
    BY <1>5, <1>8, <1>9, <1>10 DEF Fits
<1> HIDE DEF g
<1> QED
  BY <1>2, <1>11

\* The sum is the value of such a function, and a number if it adds up numbers.
LEMMA SumFits ==
  ASSUME NEW S, IsFiniteSet(S), NEW a, NEW n
  PROVE  \E g : Fits(g, a, n, S) /\ SumOver(a, n, S) = g[S]
<1> DEFINE Adds(g) == g = [s \in SUBSET S |-> IF s = {} THEN 0 ELSE a[First(s)][n] + g[s \ {First(s)}]]
<1>1. PICK f : Fits(f, a, n, S)
  BY FitsExists
<1>2. \E g : Adds(g)
  <2> DEFINE g == [s \in SUBSET S |-> f[s]]
  <2>1. ASSUME NEW s \in SUBSET S, s # {} PROVE s \ {First(s)} \in SUBSET S
    OBVIOUS
  <2>2. Adds(g)
    BY <1>1, <2>1 DEF Fits
  <2> QED
    BY <2>2
<1> DEFINE g == CHOOSE g : Adds(g)
<1>3. Adds(g)
  BY <1>2
<1>4. SumOver(a, n, S) = g[S]
  BY DEF SumOver, MapThenSumSet, MapThenFoldSet, First
<1>5. Fits(g, a, n, S)
  BY <1>3 DEF Fits
<1> QED
  BY <1>4, <1>5

\* Sums of numbers are numbers.
LEMMA FitsNumbers ==
  ASSUME NEW S, IsFiniteSet(S), NEW a, NEW n, \A e \in S : a[e][n] \in Nat,
         NEW g, Fits(g, a, n, S), NEW s \in SUBSET S
  PROVE  g[s] \in Nat
<1> DEFINE C == {r \in SUBSET S : g[r] \notin Nat}
<1>1. SUFFICES ASSUME C # {} PROVE FALSE
  OBVIOUS
<1>2. C \in SUBSET (SUBSET S)
  OBVIOUS
<1>3. \E r \in C : \A q \in C : q \subseteq r => q = r
  <2> HIDE DEF C
  <2> QED
    BY <1>1, <1>2, LeastSet
<1>4. PICK r \in C : \A q \in C : q \subseteq r => q = r
  BY <1>3
<1>5. r # {}
  <2>1. g[{}] = 0
    BY DEF Fits
  <2>2. {} \notin C
    BY <2>1
  <2> HIDE DEF C
  <2> QED
    BY <1>4, <2>2
<1>6. First(r) \in r
  BY <1>5 DEF First
<1>7. g[r \ {First(r)}] \in Nat /\ a[First(r)][n] \in Nat
  BY <1>4, <1>6
<1> QED
  BY <1>4, <1>5, <1>7 DEF Fits

\* Zeros add up to zero.
LEMMA SumOfZeros ==
  ASSUME NEW S, IsFiniteSet(S), NEW a, NEW n, \A e \in S : a[e][n] = 0
  PROVE  SumOver(a, n, S) = 0
<1>1. PICK g : Fits(g, a, n, S) /\ SumOver(a, n, S) = g[S]
  BY SumFits
<1> DEFINE C == {r \in SUBSET S : g[r] # 0}
<1>2. SUFFICES ASSUME C # {} PROVE FALSE
  BY <1>1
<1>3. \E r \in C : \A q \in C : q \subseteq r => q = r
  <2>1. C \in SUBSET (SUBSET S)
    OBVIOUS
  <2> HIDE DEF C
  <2> QED
    BY <1>2, <2>1, LeastSet
<1>4. PICK r \in C : \A q \in C : q \subseteq r => q = r
  BY <1>3
<1>5. r # {}
  BY <1>1, <1>4 DEF Fits
<1>6. First(r) \in r
  BY <1>5 DEF First
<1>7. g[r \ {First(r)}] = 0 /\ a[First(r)][n] = 0
  BY <1>4, <1>6
<1> QED
  BY <1>1, <1>4, <1>5, <1>7 DEF Fits

\* When one term that was zero changes, the sum grows by it.
LEMMA SumGrows ==
  ASSUME NEW S, IsFiniteSet(S), NEW a, NEW b, NEW n, NEW e \in S,
         \A d \in S : a[d][n] \in Nat /\ b[d][n] \in Nat,
         \A d \in S \ {e} : b[d][n] = a[d][n], a[e][n] = 0
  PROVE  SumOver(b, n, S) = SumOver(a, n, S) + b[e][n] /\ SumOver(a, n, S) \in Nat
<1>1. PICK g : Fits(g, a, n, S) /\ SumOver(a, n, S) = g[S]
  BY SumFits
<1>2. PICK f : Fits(f, b, n, S) /\ SumOver(b, n, S) = f[S]
  BY SumFits
<1>3. \A s \in SUBSET S : g[s] \in Nat /\ f[s] \in Nat
  BY <1>1, <1>2, FitsNumbers
<1> DEFINE C == {r \in SUBSET S : f[r] # g[r] + (IF e \in r THEN b[e][n] ELSE 0)}
<1>4. SUFFICES ASSUME C # {} PROVE FALSE
  BY <1>1, <1>2, <1>3
<1>5. \E r \in C : \A q \in C : q \subseteq r => q = r
  <2>1. C \in SUBSET (SUBSET S)
    OBVIOUS
  <2> HIDE DEF C
  <2> QED
    BY <1>4, <2>1, LeastSet
<1>6. PICK r \in C : \A q \in C : q \subseteq r => q = r
  BY <1>5
<1>7. r # {}
  <2>1. {} \in SUBSET S /\ e \notin {}
    OBVIOUS
  <2>2. g[{}] = 0 /\ f[{}] = 0
    BY <1>1, <1>2, <2>1 DEF Fits
  <2>3. {} \notin C
    BY <2>1, <2>2
  <2> HIDE DEF C
  <2> QED
    BY <1>6, <2>3
<1>8. PICK x \in r : x = First(r)
  BY <1>7 DEF First
<1>9. PICK q \in SUBSET S : q = r \ {x}
  BY <1>6
<1>10. f[q] = g[q] + (IF e \in q THEN b[e][n] ELSE 0)
  BY <1>6, <1>8, <1>9
<1>11. g[r] = a[x][n] + g[q] /\ f[r] = b[x][n] + f[q]
  BY <1>1, <1>2, <1>6, <1>7, <1>8, <1>9 DEF Fits
<1>12. /\ a[x][n] \in Nat /\ b[x][n] \in Nat /\ b[e][n] \in Nat
       /\ g[q] \in Nat /\ f[q] \in Nat
  BY <1>3, <1>8
<1>13. CASE x = e
  <2>1. e \in r /\ e \notin q
    BY <1>8, <1>9, <1>13
  <2>2. f[r] = g[r] + b[e][n]
    BY <1>10, <1>11, <1>12, <1>13, <2>1
  <2> QED
    BY <1>6, <2>1, <2>2
<1>14. CASE x # e
  <2>1. (e \in r <=> e \in q) /\ b[x][n] = a[x][n]
    BY <1>8, <1>9, <1>14
  <2>2. f[r] = g[r] + (IF e \in r THEN b[e][n] ELSE 0)
    BY <1>10, <1>11, <1>12, <2>1
  <2> QED
    BY <1>6, <2>2
<1> QED
  BY <1>13, <1>14

-----------------------------------------------------------------------------
(* The draws.                                                              *)

\* The maximum of numbers is the one that no other exceeds.
LEMMA MaxIs ==
  ASSUME NEW S \in SUBSET Nat, NEW m \in S, \A x \in S : x <= m
  PROVE  Max(S) = m
<1>1. \E x \in S : \A y \in S : x >= y
  OBVIOUS
<1>2. Max(S) \in S /\ \A y \in S : Max(S) >= y
  BY <1>1 DEF Max
<1>3. Max(S) \in Nat /\ Max(S) >= m /\ Max(S) <= m
  BY <1>2
<1>4. m \in Nat
  OBVIOUS
<1> QED
  BY <1>3, <1>4

\* The places at which a draw is 0, and the first, which needs none.
Zeros(d, cnt) == {1} \cup {c \in 2..cnt : d[c] = 0}

\* The last equal whose draw was 0 is chosen, or the first when none was.
LEMMA ChosenIs ==
  ASSUME NEW cnt \in Nat \ {0}, NEW d
  PROVE  Chosen(d, cnt) = Max(Zeros(d, cnt)) /\ Chosen(d, cnt) \in 1..cnt
<1>1. {c \in 2..cnt : Replaces(d[c], c)} = {c \in 2..cnt : d[c] = 0}
  BY DEF Replaces
<1>2. Chosen(d, cnt) = Max(Zeros(d, cnt))
  BY <1>1 DEF Chosen, Zeros
<1> DEFINE C == {n \in Nat : \A c \in Zeros(d, cnt) : c <= n}
<1>3. cnt \in C /\ Zeros(d, cnt) \subseteq 1..cnt /\ 1 \in Zeros(d, cnt)
  BY DEF Zeros
<1>4. \E n \in C : \A m \in C : n <= m
  <2>1. C \in SUBSET Nat /\ C # {}
    BY <1>3
  <2> HIDE DEF C
  <2> QED
    BY <2>1, LeastNumber
<1>5. PICK n \in C : \A m \in C : n <= m
  BY <1>4
<1>6. n \in Zeros(d, cnt)
  <2>1. SUFFICES ASSUME n \notin Zeros(d, cnt) PROVE FALSE
    OBVIOUS
  <2>2. n >= 1 /\ n - 1 \in Nat
    BY <1>3
  <2>3. \A c \in Zeros(d, cnt) : c <= n - 1
    BY <1>3, <2>1
  <2> QED
    BY <1>5, <2>2, <2>3
<1>7. Max(Zeros(d, cnt)) = n
  BY <1>3, <1>6, MaxIs
<1> QED
  BY <1>2, <1>3, <1>6, <1>7

\* One more draw.
Then(d, x, cnt) == [c \in 2..(cnt + 1) |-> IF c = cnt + 1 THEN x ELSE d[c]]
Extended(D, X, cnt) == {Then(p[1], p[2], cnt) : p \in D \X X}

\* One more equal takes the place of the chosen one if it draws 0.
LEMMA ThenChosen ==
  ASSUME NEW cnt \in Nat \ {0}, NEW d \in Draws(cnt), NEW x \in 0..cnt
  PROVE  Chosen(Then(d, x, cnt), cnt + 1) = IF x = 0 THEN cnt + 1 ELSE Chosen(d, cnt)
<1> DEFINE e == Then(d, x, cnt)
<1>1. e[cnt + 1] = x /\ \A c \in 2..cnt : e[c] = d[c]
  BY DEF Then
<1>2. 2..(cnt + 1) = (2..cnt) \cup {cnt + 1} /\ cnt + 1 \in Nat \ {0}
  OBVIOUS
<1> HIDE DEF e
<1>3. CASE x = 0
  <2>1. cnt + 1 \in Zeros(e, cnt + 1) /\ \A c \in Zeros(e, cnt + 1) : c <= cnt + 1
    BY <1>1, <1>2, <1>3 DEF Zeros
  <2>2. Zeros(e, cnt + 1) \in SUBSET Nat
    BY DEF Zeros
  <2>3. Max(Zeros(e, cnt + 1)) = cnt + 1
    BY <2>1, <2>2, MaxIs
  <2> QED
    BY <1>2, <1>3, <2>3, ChosenIs DEF e
<1>4. CASE x # 0
  <2>1. Zeros(e, cnt + 1) = Zeros(d, cnt)
    BY <1>1, <1>2, <1>4 DEF Zeros
  <2> QED
    BY <1>2, <1>4, <2>1, ChosenIs DEF e
<1> QED
  BY <1>3, <1>4

\* The draws of cnt + 1 equals are those of cnt with one more number.
LEMMA ThenDraws ==
  ASSUME NEW cnt \in Nat \ {0}
  PROVE  Draws(cnt + 1) = Extended(Draws(cnt), 0..cnt, cnt)
<1>1. 2..(cnt + 1) = (2..cnt) \cup {cnt + 1} /\ cnt + 1 - 1 = cnt
  OBVIOUS
<1>2. ASSUME NEW d \in Draws(cnt), NEW x \in 0..cnt PROVE Then(d, x, cnt) \in Draws(cnt + 1)
  BY <1>1 DEF Draws, Then
<1>3. ASSUME NEW e \in Draws(cnt + 1) PROVE e \in Extended(Draws(cnt), 0..cnt, cnt)
  <2> DEFINE d == [c \in 2..cnt |-> e[c]]
  <2>1. /\ e \in [2..(cnt + 1) -> 0..cnt]
        /\ \A c \in 2..(cnt + 1) : e[c] < c
    BY <1>1 DEF Draws
  <2>2. cnt + 1 \in 2..(cnt + 1) /\ e[cnt + 1] \in 0..cnt
    BY <2>1
  <2>3. d \in Draws(cnt)
    <3>1. ASSUME NEW c \in 2..cnt PROVE e[c] \in 0..(cnt - 1) /\ e[c] < c
      <4>1. c \in 2..(cnt + 1)
        OBVIOUS
      <4> QED
        BY <2>1, <4>1
    <3> QED
      BY <3>1 DEF Draws
  <2>4. e = Then(d, e[cnt + 1], cnt)
    BY <1>1, <2>1 DEF Then
  <2>5. <<d, e[cnt + 1]>> \in Draws(cnt) \X (0..cnt)
    BY <2>2, <2>3
  <2> HIDE DEF d
  <2> QED
    BY <2>4, <2>5 DEF Extended
<1> QED
  BY <1>2, <1>3 DEF Extended

\* Each of some sequences of draws, each followed by one of some numbers.
LEMMA ExtendedCount ==
  ASSUME NEW cnt \in Nat \ {0}, IsFiniteSet(Draws(cnt)),
         NEW D \in SUBSET Draws(cnt), NEW X \in SUBSET (0..cnt)
  PROVE  /\ IsFiniteSet(Extended(D, X, cnt))
         /\ Cardinality(Extended(D, X, cnt)) = Cardinality(D) * Cardinality(X)
<1> DEFINE f == [p \in D \X X |-> Then(p[1], p[2], cnt)]
<1>1. IsFiniteSet(D) /\ IsFiniteSet(X)
  <2>1. IsFiniteSet(0..cnt)
    BY FS_Interval
  <2>2. IsFiniteSet(D)
    BY FS_Subset
  <2>3. IsFiniteSet(X)
    BY <2>1, FS_Subset
  <2> QED
    BY <2>2, <2>3
<1>2. IsFiniteSet(D \X X) /\ Cardinality(D \X X) = Cardinality(D) * Cardinality(X)
  BY <1>1, FS_Product
<1>3. f \in [D \X X -> Extended(D, X, cnt)]
  BY DEF Extended
<1>4. ASSUME NEW p \in D \X X, NEW q \in D \X X, f[p] = f[q] PROVE p = q
  <2>1. Then(p[1], p[2], cnt) = Then(q[1], q[2], cnt)
    BY <1>4
  <2>2. \A c \in 2..(cnt + 1) : Then(p[1], p[2], cnt)[c] = Then(q[1], q[2], cnt)[c]
    BY <2>1
  <2>3. p[2] = q[2] /\ \A c \in 2..cnt : p[1][c] = q[1][c]
    <3>1. cnt + 1 \in 2..(cnt + 1) /\ \A c \in 2..cnt : c \in 2..(cnt + 1) /\ c # cnt + 1
      OBVIOUS
    <3> QED
      BY <2>2, <3>1 DEF Then
  <2>4. p[1] \in [2..cnt -> 0..(cnt - 1)] /\ q[1] \in [2..cnt -> 0..(cnt - 1)]
    BY DEF Draws
  <2>5. p[1] = q[1]
    BY <2>3, <2>4
  <2> QED
    BY <2>3, <2>5
<1>5. ASSUME NEW e \in Extended(D, X, cnt) PROVE \E p \in D \X X : f[p] = e
  BY DEF Extended
<1> HIDE DEF f
<1>6. f \in Bijection(D \X X, Extended(D, X, cnt))
  BY <1>3, <1>4, <1>5, Fun_IsBij
<1>7. ExistsBijection(D \X X, Extended(D, X, cnt))
  BY <1>6 DEF ExistsBijection
<1> QED
  BY <1>2, <1>7, FS_Bijection

ChosenBy(j, cnt) == {d \in Draws(cnt) : Chosen(d, cnt) = j}

\* The draws that choose the last equal.
LEMMA ChosenByLast ==
  ASSUME NEW cnt \in Nat \ {0}
  PROVE  ChosenBy(cnt + 1, cnt + 1) = Extended(Draws(cnt), {0}, cnt)
<1>1. \A d \in Draws(cnt) : Chosen(d, cnt) # cnt + 1
  BY ChosenIs
<1>2. \A p \in Draws(cnt) \X (0..cnt) :
        Chosen(Then(p[1], p[2], cnt), cnt + 1) = cnt + 1 <=> p[2] = 0
  BY <1>1, ThenChosen
<1> QED
  BY <1>2, ThenDraws DEF ChosenBy, Extended

\* The draws that choose an earlier equal: it was chosen, and the last drew no 0.
LEMMA ChosenByEarlier ==
  ASSUME NEW cnt \in Nat \ {0}, NEW j \in 1..cnt
  PROVE  ChosenBy(j, cnt + 1) = Extended(ChosenBy(j, cnt), 1..cnt, cnt)
<1>1. \A p \in Draws(cnt) \X (0..cnt) :
        Chosen(Then(p[1], p[2], cnt), cnt + 1) = j <=> p[2] # 0 /\ Chosen(p[1], cnt) = j
  BY ThenChosen
<1> QED
  BY <1>1, ThenDraws DEF ChosenBy, Extended

\* Every place is chosen by as many draws as any other: reservoir sampling is fair.
Fair(cnt) ==
  /\ IsFiniteSet(Draws(cnt))
  /\ \A j \in 1..cnt : cnt * Cardinality(ChosenBy(j, cnt)) = Cardinality(Draws(cnt))

\* A single node is drawn for certain.
LEMMA FairOne == Fair(1)
<1> DEFINE e == [c \in 2..1 |-> 0]
<1>1. 2..1 = {}
  OBVIOUS
<1>2. \A d \in Draws(1) : d = e
  BY <1>1 DEF Draws
<1>3. Draws(1) \subseteq {e}
  BY <1>2
<1>4. IsFiniteSet(Draws(1))
  <2>1. IsFiniteSet({e})
    BY FS_Singleton
  <2> HIDE DEF e
  <2> QED
    BY <1>3, <2>1, FS_Subset
<1>5. Cardinality(Draws(1)) \in Nat
  BY <1>4, FS_CardinalityType
<1>6. \A d \in Draws(1) : Chosen(d, 1) = 1
  BY ChosenIs
<1>7. ChosenBy(1, 1) = Draws(1)
  BY <1>6 DEF ChosenBy
<1> QED
  BY <1>4, <1>5, <1>7 DEF Fair

\* If the draw among cnt equals is fair, so is the one among cnt + 1.
LEMMA FairNext ==
  ASSUME NEW cnt \in Nat \ {0}, Fair(cnt)
  PROVE  Fair(cnt + 1)
<1>1. IsFiniteSet(Draws(cnt))
  BY DEF Fair
<1>2. PICK D \in Nat : D = Cardinality(Draws(cnt))
  BY <1>1, FS_CardinalityType
<1>3. /\ Cardinality(0..cnt) = cnt + 1
      /\ Cardinality(1..cnt) = cnt
      /\ Cardinality({0}) = 1
  <2>1. Cardinality(0..cnt) = cnt - 0 + 1
    BY FS_Interval
  <2>2. Cardinality(1..cnt) = cnt - 1 + 1
    BY FS_Interval
  <2>3. Cardinality({0}) = 1
    BY FS_Singleton
  <2> QED
    BY <2>1, <2>2, <2>3
<1>4. IsFiniteSet(Draws(cnt + 1)) /\ Cardinality(Draws(cnt + 1)) = D * (cnt + 1)
  BY <1>1, <1>2, <1>3, ThenDraws, ExtendedCount, SMTT(40)
<1>5. (cnt + 1) * Cardinality(ChosenBy(cnt + 1, cnt + 1)) = D * (cnt + 1)
  <2>1. Cardinality(ChosenBy(cnt + 1, cnt + 1)) = D * 1
    BY <1>1, <1>2, <1>3, ChosenByLast, ExtendedCount
  <2> QED
    BY <2>1
<1>6. ASSUME NEW j \in 1..cnt
      PROVE  (cnt + 1) * Cardinality(ChosenBy(j, cnt + 1)) = D * (cnt + 1)
  <2>1. ChosenBy(j, cnt) \in SUBSET Draws(cnt)
    BY DEF ChosenBy
  <2>2. PICK k \in Nat : k = Cardinality(ChosenBy(j, cnt))
    BY <1>1, <2>1, FS_Subset, FS_CardinalityType
  <2>3. Cardinality(ChosenBy(j, cnt + 1)) = k * cnt
    <3>1. ChosenBy(j, cnt + 1) = Extended(ChosenBy(j, cnt), 1..cnt, cnt)
      BY ChosenByEarlier
    <3>2. 1..cnt \in SUBSET (0..cnt)
      OBVIOUS
    <3>3. Cardinality(Extended(ChosenBy(j, cnt), 1..cnt, cnt)) = k * Cardinality(1..cnt)
      BY <1>1, <2>1, <2>2, <3>2, ExtendedCount
    <3> QED
      BY <1>3, <3>1, <3>3
  <2>4. cnt * k = D
    BY <1>2, <2>2 DEF Fair
  <2>5. k * cnt = D
    BY <2>4
  <2> QED
    BY <2>3, <2>5
<1>7. \A j \in 1..(cnt + 1) : j = cnt + 1 \/ j \in 1..cnt
  OBVIOUS
<1> QED
  BY <1>4, <1>5, <1>6, <1>7 DEF Fair

\* The draw among any number of equals is fair: a least unfair one contradicts FairNext.
LEMMA DrawsAreFair ==
  ASSUME NEW cnt \in Nat \ {0}
  PROVE  Fair(cnt)
<1> DEFINE C == {n \in Nat \ {0} : ~ Fair(n)}
<1>1. SUFFICES ASSUME C # {} PROVE FALSE
  OBVIOUS
<1>2. \E n \in C : \A m \in C : n <= m
  <2>1. C \in SUBSET Nat
    OBVIOUS
  <2> HIDE DEF C
  <2> QED
    BY <1>1, <2>1, LeastNumber
<1>3. PICK n \in C : \A m \in C : n <= m
  BY <1>2
<1>4. n # 1
  BY <1>3, FairOne
<1>5. PICK k \in Nat \ {0} : n = k + 1
  <2>1. n - 1 \in Nat \ {0} /\ n = (n - 1) + 1
    BY <1>4
  <2> QED
    BY <2>1
<1>6. Fair(k)
  BY <1>3, <1>5
<1> QED
  BY <1>3, <1>5, <1>6, FairNext

-----------------------------------------------------------------------------
(* The invariant.                                                          *)

\* The extenders are those of the configuration, as BuildExtenders lists them.
Listed == configured \in Configurations /\ extenders \in BuildExtenders(configured)
Typed == answered \in [Extender -> [Node -> Nat]] /\ selectedIndex \in Nat

\* The scores of the extenders are the sum of the answers, and who has still to answer
\* has no part in it.
AnswersSummed ==
  /\ \A e \in Extender : pc[e] = "asking" => phase = "prioritize" /\ e \in Elements(extenders)
  /\ \A e \in Extender : phase = "filter" \/ pc[e] = "asking" => answered[e] = Zero
  /\ \A n \in Node : allNodeExtendersScores[n] = SumOver(answered, n, Elements(extenders))

NothingPopped ==
  phase \in {"filter", "prioritize"} =>
    h = {} /\ sortedNodeScoreList = <<>> /\ cntOfMaxScore = 0 /\ host = NoNode

\* What is popped is what is not in the heap, the best first.
Score(i) == nodesScores[sortedNodeScoreList[i]]
PoppedInOrder ==
  phase = "select" =>
    /\ h = feasibleNodes \ Elements(sortedNodeScoreList)
    /\ \A i, j \in DOMAIN sortedNodeScoreList : i < j =>
         sortedNodeScoreList[i] # sortedNodeScoreList[j] /\ Score(j) <= Score(i)
    /\ \A i \in DOMAIN sortedNodeScoreList, n \in h : nodesScores[n] <= Score(i)

\* The first cntOfMaxScore of them have the highest score, and no other; more than Count
\* are popped only if more than Count have it.
BestCounted ==
  phase = "select" =>
    /\ cntOfMaxScore <= Len(sortedNodeScoreList)
    /\ \A i \in DOMAIN sortedNodeScoreList : i <= cntOfMaxScore <=> Score(i) = TopScore
    /\ Len(sortedNodeScoreList) <= Count \/ cntOfMaxScore > Count

\* What is said of the result, with the scores as they have been added up.
ResultIsBest ==
  phase = "done" /\ sortedNodeScoreList # <<>> =>
    LET reported == Elements(sortedNodeScoreList)
    IN /\ host = sortedNodeScoreList[1] /\ host \in feasibleNodes
       /\ \A n \in feasibleNodes : nodesScores[n] <= nodesScores[host]
       /\ Cardinality(reported) = Len(sortedNodeScoreList)
       /\ Len(sortedNodeScoreList) = Min({Count, Cardinality(feasibleNodes)})
       /\ \A n \in reported, m \in feasibleNodes \ reported : nodesScores[m] <= nodesScores[n]
       /\ cntOfMaxScore = Cardinality({n \in feasibleNodes : nodesScores[n] = nodesScores[host]})

HostInv ==
  /\ TypeOK /\ Listed /\ Typed /\ AnswersSummed /\ NothingPopped
  /\ PoppedInOrder /\ BestCounted /\ ResultIsBest

-----------------------------------------------------------------------------
(* Lists of extenders and of nodes.                                        *)

\* The list of extenders that is built has those configured, ignorable ones last.
LEMMA BuiltList ==
  ASSUME NEW listed \in Configurations, NEW s \in BuildExtenders(listed)
  PROVE  /\ s \in Seq(Elements(listed)) /\ Len(s) \in Nat /\ DOMAIN s = 1..Len(s)
         /\ Elements(s) = Elements(listed) /\ Elements(s) \subseteq Extender
         /\ IsFiniteSet(Elements(s))
         /\ \A i, j \in 1..Len(s) : i < j /\ s[i] \in Ignorable => s[j] \in Ignorable
<1>1. listed \in Seq(Extender)
  BY ExtendersAssumption
<1>2. PICK n \in Nat : DOMAIN listed = 1..n
  BY <1>1
<1>3. s \in [1..n -> Elements(listed)] /\ Elements(s) = Elements(listed)
  BY <1>2 DEF BuildExtenders
<1>4. s \in Seq(Elements(listed)) /\ Len(s) = n
  BY <1>3
<1>5. Elements(listed) \subseteq Extender
  BY DEF Extender
<1>6. \A i, j \in 1..n : i < j /\ s[i] \in Ignorable => s[j] \in Ignorable
  BY <1>2, <1>3 DEF BuildExtenders
<1>7. IsFiniteSet(Elements(s))
  <2>1. IsFiniteSet(1..n)
    BY FS_Interval
  <2>2. s \in Surjection(1..n, Elements(s))
    BY <1>3 DEF Elements, Surjection
  <2> QED
    BY <2>1, <2>2, FS_Surjection
<1> QED
  BY <1>3, <1>4, <1>5, <1>6, <1>7

\* A list without duplicates is as long as the set of what is in it.
LEMMA DistinctLength ==
  ASSUME NEW S, IsFiniteSet(S), NEW s \in Seq(S),
         \A i, j \in DOMAIN s : i < j => s[i] # s[j]
  PROVE  /\ Elements(s) \subseteq S
         /\ IsFiniteSet(Elements(s)) /\ Cardinality(Elements(s)) = Len(s)
         /\ Len(s) <= Cardinality(S) /\ Cardinality(S) \in Nat /\ Len(s) \in Nat
<1>1. PICK n \in Nat : n = Len(s) /\ DOMAIN s = 1..n /\ s \in [1..n -> S]
  OBVIOUS
<1>2. Elements(s) \subseteq S
  BY <1>1 DEF Elements
<1>3. IsFiniteSet(Elements(s)) /\ Cardinality(Elements(s)) <= Cardinality(S)
  BY <1>2, FS_Subset
<1>4. IsFiniteSet(1..n) /\ Cardinality(1..n) = n
  <2>1. Cardinality(1..n) = IF 1 > n THEN 0 ELSE n - 1 + 1
    BY FS_Interval
  <2> QED
    BY <2>1, FS_Interval
<1>5. s \in Bijection(1..n, Elements(s))
  <2>1. s \in [1..n -> Elements(s)] /\ \A e \in Elements(s) : \E i \in 1..n : s[i] = e
    BY <1>1 DEF Elements
  <2>2. \A i, j \in 1..n : s[i] = s[j] => i = j
    BY <1>1
  <2> QED
    BY <2>1, <2>2, Fun_IsBij
<1>6. ExistsBijection(1..n, Elements(s))
  BY <1>5 DEF ExistsBijection
<1>7. Cardinality(Elements(s)) = n
  BY <1>4, <1>6, FS_Bijection
<1> QED
  BY <1>1, <1>2, <1>3, <1>7, FS_CardinalityType

-----------------------------------------------------------------------------
(* The steps keep the invariant.                                           *)

\* An extender's answer to Filter keeps the invariant.
LEMMA FilterKeeps ==
  ASSUME HostInv, PassExtenders
  PROVE  HostInv'
<1> USE DEF HostInv
<1>1. phase = "filter" /\ UNCHANGED <<configured, extenders, hasScorePlugins, interested, scoring, selecting>>
  BY DEF PassExtenders, Filter, PassOver, FilterFails, NoNodeLeft, OneNodeLeft, MoreExtenders, filtering
<1>2. h = {} /\ sortedNodeScoreList = <<>> /\ host = NoNode
  BY <1>1 DEF NothingPopped
<1>3. Len(extenders) \in Nat
  BY BuiltList DEF Listed
<1>4. /\ phase' \in {"filter", "unfit", "error", "done"}
      /\ feasibleNodes' \subseteq feasibleNodes
      /\ called' \in 0..Len(extenders)
      /\ statuses' \in [Node -> {"none", "unschedulable", "unresolvable"}]
      /\ host' \in feasibleNodes' \cup {NoNode}
      /\ phase' = "filter" => host' = host
  BY <1>1, <1>2, <1>3 DEF PassExtenders, Filter, PassOver, FilterFails, NoNodeLeft, OneNodeLeft, MoreExtenders, filtering, TypeOK, Verdict
<1>5. TypeOK'
  <2>1. sortedNodeScoreList' \in Seq(feasibleNodes')
    BY <1>1, <1>2 DEF selecting
  <2> QED
    BY <1>1, <1>2, <1>4, <2>1 DEF TypeOK, scoring, selecting
<1>6. Listed' /\ Typed' /\ NothingPopped' /\ PoppedInOrder' /\ BestCounted' /\ ResultIsBest'
  BY <1>1, <1>2, <1>4 DEF Listed, Typed, NothingPopped, PoppedInOrder, BestCounted, ResultIsBest, scoring, selecting
<1>7. AnswersSummed'
  BY <1>1, <1>4 DEF AnswersSummed, scoring
<1> QED
  BY <1>5, <1>6, <1>7

\* Scores are added, first the plugins', then the extenders' under the mutex.
LEMMA ScoringKeeps ==
  ASSUME HostInv, PrioritizeNodes \/ \E e \in Extender : Prioritize(e) \/ PrioritizeFails(e)
  PROVE  HostInv'
<1> USE DEF HostInv
<1> DEFINE Who == Elements(extenders)
<1>1. /\ UNCHANGED <<configured, extenders, hasScorePlugins, interested, called, feasibleNodes, statuses>>
      /\ UNCHANGED <<cntOfMaxScore, selectedIndex, sortedNodeScoreList, host>>
  BY DEF PrioritizeNodes, ScoreOne, RunScorePlugins, ScorePluginsFail, AddExtendersScores, Prioritize, PrioritizeFails, filtering, selecting
<1>2. /\ IsFiniteSet(Who) /\ Who \subseteq Extender /\ interested \subseteq Who
  BY BuiltList DEF Listed, TypeOK
<1>3. phase \in {"filter", "prioritize"}
  BY DEF PrioritizeNodes, ScoreOne, RunScorePlugins, ScorePluginsFail, AddExtendersScores, Prioritize, PrioritizeFails, ToScore, AnswersSummed
<1>4. h = {} /\ sortedNodeScoreList = <<>> /\ cntOfMaxScore = 0 /\ host = NoNode
  BY <1>3 DEF NothingPopped
<1>5. Listed' /\ ResultIsBest'
  BY <1>1, <1>4 DEF Listed, ResultIsBest
<1>6. CASE ScoreOne \/ ScorePluginsFail \/ AddExtendersScores
  <2>1. /\ UNCHANGED <<pc, answered, allNodeExtendersScores>>
        /\ (phase' = "select" /\ h' = feasibleNodes) \/ (phase' = "error" /\ h' = h)
        /\ \A e \in Extender : pc[e] # "asking"
    BY <1>6 DEF ScoreOne, ScorePluginsFail, AddExtendersScores, scoring, selecting, ToScore, AnswersSummed
  <2>2. nodesScores' \in [Node -> Nat]
    <3>1. CASE ScoreOne
      BY <3>1 DEF ScoreOne
    <3>2. CASE ScorePluginsFail
      BY <3>2 DEF ScorePluginsFail, scoring, TypeOK
    <3>3. CASE AddExtendersScores
      BY <3>3 DEF AddExtendersScores, Sum, TypeOK
    <3> QED
      BY <1>6, <3>1, <3>2, <3>3
  <2>3. TypeOK'
    BY <1>1, <1>4, <2>1, <2>2 DEF TypeOK
  <2>4. AnswersSummed'
    BY <1>1, <2>1 DEF AnswersSummed
  <2>5. PoppedInOrder' /\ BestCounted'
    <3>1. /\ sortedNodeScoreList' = <<>> /\ cntOfMaxScore' = 0
          /\ phase' = "select" => h' = feasibleNodes'
      BY <1>1, <1>4, <2>1
    <3>2. DOMAIN <<>> = {} /\ Len(<<>>) = 0 /\ Elements(<<>>) = {}
      BY DEF Elements
    <3> QED
      BY <3>1, <3>2, ExtendersAssumption DEF PoppedInOrder, BestCounted
  <2> QED
    BY <1>1, <1>5, <2>1, <2>3, <2>4, <2>5 DEF Typed, NothingPopped
<1>7. CASE RunScorePlugins
  <2>1. /\ phase = "filter" /\ phase' = "prioritize"
        /\ UNCHANGED <<answered, allNodeExtendersScores, h>>
        /\ pc' = [e \in Extender |-> IF e \in interested THEN "asking" ELSE "idle"]
    BY <1>7 DEF RunScorePlugins, ToScore, selecting
  <2>2. nodesScores' \in [Node -> Nat]
    <3>1. PICK s \in [feasibleNodes -> IF hasScorePlugins THEN Scores ELSE {0}] :
            nodesScores' = [n \in Node |-> IF n \in feasibleNodes THEN s[n] ELSE 0]
      BY <1>7 DEF RunScorePlugins
    <3>2. \A n \in feasibleNodes : s[n] \in Nat
      <4>1. CASE hasScorePlugins
        BY <4>1, ExtendersAssumption
      <4>2. CASE ~hasScorePlugins
        BY <4>2
      <4> QED
        BY <4>1, <4>2
    <3> QED
      BY <3>1, <3>2
  <2>3. TypeOK'
    BY <1>1, <1>4, <2>1, <2>2 DEF TypeOK
  <2>4. AnswersSummed'
    BY <1>1, <1>2, <2>1 DEF AnswersSummed
  <2> QED
    BY <1>1, <1>4, <1>5, <2>1, <2>3, <2>4 DEF Typed, NothingPopped, PoppedInOrder, BestCounted
<1>8. ASSUME NEW e \in Extender, Prioritize(e) PROVE HostInv'
  <2>1. PICK s \in [feasibleNodes -> Scores] :
          answered' = [answered EXCEPT ![e] =
                         [n \in Node |-> IF n \in feasibleNodes THEN s[n] * Weight[e] * Scale ELSE 0]]
    BY <1>8 DEF Prioritize
  <2>2. /\ pc[e] = "asking" /\ pc' = [pc EXCEPT ![e] = "idle"]
        /\ allNodeExtendersScores' = Sum(allNodeExtendersScores, answered'[e])
        /\ UNCHANGED <<phase, nodesScores, h>>
    BY <1>8 DEF Prioritize, Done, selecting
  <2>3. phase = "prioritize" /\ e \in Who /\ answered[e] = Zero
    BY <2>2 DEF AnswersSummed
  <2>4. answered' \in [Extender -> [Node -> Nat]]
    <3>1. \A n \in feasibleNodes : s[n] * Weight[e] * Scale \in Nat
      <4>1. Weight[e] \in Nat /\ Scale \in Nat /\ \A n \in feasibleNodes : s[n] \in Nat
        BY ExtendersAssumption
      <4>2. \A i, j, k \in Nat : i * j * k \in Nat
        OBVIOUS
      <4> QED
        BY <4>1, <4>2
    <3> QED
      BY <2>1, <3>1 DEF Typed
  <2>5. \A d \in Extender \ {e} : answered'[d] = answered[d]
    BY <2>1 DEF Typed
  <2>6. ASSUME NEW n \in Node
        PROVE  /\ allNodeExtendersScores'[n] = SumOver(answered', n, Who)
               /\ allNodeExtendersScores'[n] \in Nat
    <3>1. \A d \in Who : answered[d][n] \in Nat /\ answered'[d][n] \in Nat
      BY <1>2, <2>4 DEF Typed
    <3>2. answered[e][n] = 0 /\ \A d \in Who \ {e} : answered'[d][n] = answered[d][n]
      BY <1>2, <2>3, <2>5 DEF Zero
    <3>3. PICK a : a = answered
      OBVIOUS
    <3>4. PICK b : b = answered'
      OBVIOUS
    <3>5. SumOver(b, n, Who) = SumOver(a, n, Who) + b[e][n] /\ SumOver(a, n, Who) \in Nat
      BY <1>2, <2>3, <3>1, <3>2, <3>3, <3>4, SumGrows
    <3>6. allNodeExtendersScores[n] = SumOver(a, n, Who)
      BY <3>3 DEF AnswersSummed
    <3>7. allNodeExtendersScores'[n] = allNodeExtendersScores[n] + b[e][n]
      BY <2>2, <3>4 DEF Sum
    <3>8. b[e][n] \in Nat
      BY <2>4, <3>4
    <3> QED
      BY <3>4, <3>5, <3>6, <3>7, <3>8
  <2>7. AnswersSummed'
    BY <1>1, <2>2, <2>3, <2>5, <2>6 DEF AnswersSummed, TypeOK
  <2>8. TypeOK'
    <3>1. allNodeExtendersScores' \in [Node -> Nat]
      BY <2>2, <2>6 DEF Sum
    <3> QED
      BY <1>1, <1>4, <2>2, <3>1 DEF TypeOK
  <2> QED
    BY <1>1, <1>4, <1>5, <2>2, <2>3, <2>4, <2>7, <2>8 DEF Typed, NothingPopped, PoppedInOrder, BestCounted
<1>9. ASSUME NEW e \in Extender, PrioritizeFails(e) PROVE HostInv'
  <2>1. /\ pc[e] = "asking" /\ pc' = [pc EXCEPT ![e] = "idle"]
        /\ UNCHANGED <<phase, nodesScores, answered, allNodeExtendersScores, h>>
    BY <1>9 DEF PrioritizeFails, Done, selecting
  <2>2. phase = "prioritize"
    BY <2>1 DEF AnswersSummed
  <2>3. TypeOK' /\ AnswersSummed'
    BY <1>1, <1>4, <2>1, <2>2 DEF TypeOK, AnswersSummed
  <2> QED
    BY <1>1, <1>4, <1>5, <2>1, <2>2, <2>3 DEF Typed, NothingPopped, PoppedInOrder, BestCounted
<1> QED
  BY <1>6, <1>7, <1>8, <1>9 DEF PrioritizeNodes

\* A node that is popped is in order, and the nodes still in the heap are no better.
LEMMA PopOrdered ==
  ASSUME HostInv, phase = "select", NEW n \in Top,
         NEW L \in Nat, L = Len(sortedNodeScoreList),
         sortedNodeScoreList' = Append(sortedNodeScoreList, n),
         h' = h \ {n}, UNCHANGED <<feasibleNodes, nodesScores>>
  PROVE  /\ PoppedInOrder'
         /\ n \in feasibleNodes /\ nodesScores[n] \in Nat
         /\ sortedNodeScoreList' \in Seq(feasibleNodes')
         /\ Len(sortedNodeScoreList') = L + 1 /\ L + 1 <= Cardinality(Node)
         /\ Score(L + 1)' = nodesScores[n]
         /\ \A i \in 1..L : Score(i)' = Score(i)
<1> USE DEF HostInv
<1>1. PICK l \in Seq(feasibleNodes) : l = sortedNodeScoreList
  BY DEF TypeOK
<1>2. L = Len(l)
  BY <1>1
<1>3. PICK m \in Seq(feasibleNodes) : m = sortedNodeScoreList' /\ m = Append(l, n)
  <2>1. n \in feasibleNodes
    BY DEF Top, TypeOK
  <2>2. Append(l, n) \in Seq(feasibleNodes)
    BY <1>1, <2>1
  <2> QED
    BY <1>1, <2>2
<1>4. /\ Len(m) = L + 1 /\ DOMAIN l = 1..L /\ DOMAIN m = 1..(L + 1)
      /\ m[L + 1] = n /\ \A i \in 1..L : m[i] = l[i]
  BY <1>1, <1>2, <1>3
<1>5. /\ n \in h /\ h \subseteq feasibleNodes /\ feasibleNodes \subseteq Node
      /\ h = feasibleNodes \ Elements(l)
      /\ nodesScores \in [Node -> Nat]
      /\ \A k \in h : nodesScores[k] <= nodesScores[n]
  BY <1>1 DEF Top, TypeOK, PoppedInOrder
<1>6. Elements(m) = Elements(l) \cup {n}
  <2>1. 1..(L + 1) = (1..L) \cup {L + 1}
    BY <1>2
  <2> QED
    BY <1>4, <2>1 DEF Elements
<1>7. /\ \A i, j \in 1..L : i < j => l[i] # l[j] /\ nodesScores[l[j]] <= nodesScores[l[i]]
      /\ \A i \in 1..L, k \in h : nodesScores[k] <= nodesScores[l[i]]
  BY <1>1, <1>4, SMTT(40) DEF PoppedInOrder, Score
<1>8. ASSUME NEW i \in 1..(L + 1), NEW j \in 1..(L + 1), i < j
      PROVE  m[i] # m[j] /\ nodesScores[m[j]] <= nodesScores[m[i]]
  <2>1. i \in 1..L /\ l[i] \in Elements(l)
    BY <1>2, <1>4, <1>8 DEF Elements
  <2>2. CASE j \in 1..L
    BY <1>4, <1>7, <1>8, <2>1, <2>2
  <2>3. CASE j = L + 1
    BY <1>4, <1>5, <1>7, <2>1, <2>3
  <2> QED
    BY <2>2, <2>3
<1>9. ASSUME NEW i \in 1..(L + 1), NEW k \in h \ {n}
      PROVE  nodesScores[k] <= nodesScores[m[i]]
  <2>1. CASE i \in 1..L
    BY <1>4, <1>7, <2>1
  <2>2. CASE i = L + 1
    BY <1>4, <1>5, <2>2
  <2> QED
    BY <2>1, <2>2
<1>10. PoppedInOrder'
  <2>1. h' = feasibleNodes' \ Elements(m)
    BY <1>5, <1>6
  <2>2. \A i, j \in DOMAIN m : i < j => m[i] # m[j] /\ nodesScores'[m[j]] <= nodesScores'[m[i]]
    BY <1>4, <1>8
  <2>3. \A i \in DOMAIN m, k \in h' : nodesScores'[k] <= nodesScores'[m[i]]
    BY <1>4, <1>9
  <2> QED
    BY <1>3, <2>1, <2>2, <2>3 DEF PoppedInOrder, Score
<1>11. Len(m) <= Cardinality(Node)
  <2>1. IsFiniteSet(Node) /\ m \in Seq(Node)
    BY <1>3, <1>5, ExtendersAssumption
  <2> QED
    BY <1>4, <1>8, <2>1, DistinctLength
<1>12. n \in feasibleNodes /\ nodesScores[n] \in Nat
  BY <1>5
<1>13. Score(L + 1)' = nodesScores[n] /\ \A i \in 1..L : Score(i)' = Score(i)
  BY <1>1, <1>3, <1>4 DEF Score
<1> QED
  BY <1>1, <1>2, <1>3, <1>4, <1>10, <1>11, <1>12, <1>13

\* Popping the heap keeps the invariant.
LEMMA PopsKeep ==
  ASSUME HostInv, PopFirst \/ PopNext
  PROVE  HostInv'
<1> USE DEF HostInv
<1>1. PICK n \in Top :
        /\ phase = "select"
        /\ sortedNodeScoreList' = Append(sortedNodeScoreList, n)
        /\ h' = h \ {n}
        /\ UNCHANGED <<phase, filtering, scoring, host>>
        /\ \/ sortedNodeScoreList = <<>> /\ cntOfMaxScore' = 1 /\ selectedIndex' = 0
           \/ /\ sortedNodeScoreList # <<>> /\ ~Enough(n)
              /\ IF nodesScores[n] = TopScore
                   THEN /\ cntOfMaxScore' = cntOfMaxScore + 1
                        /\ selectedIndex' \in {selectedIndex, cntOfMaxScore}
                   ELSE UNCHANGED <<cntOfMaxScore, selectedIndex>>
  <2>1. CASE PopFirst
    <3>1. \A n : Append(<<>>, n) = <<n>>
      OBVIOUS
    <3> QED
      BY <2>1, <3>1 DEF PopFirst
  <2>2. CASE PopNext
    BY <2>2 DEF PopNext
  <2> QED
    BY <2>1, <2>2
<1>2. UNCHANGED <<configured, extenders, hasScorePlugins, interested, called, feasibleNodes, statuses, nodesScores, pc, answered, allNodeExtendersScores>>
  BY <1>1 DEF filtering, scoring
<1>3. PICK L \in Nat :
        /\ L = Len(sortedNodeScoreList) /\ DOMAIN sortedNodeScoreList = 1..L
        /\ L # 0 <=> sortedNodeScoreList # <<>>
        /\ \A i \in 1..L : sortedNodeScoreList[i] \in Node
  <2>1. PICK l \in Seq(Node) : l = sortedNodeScoreList
    BY DEF TypeOK
  <2>2. Len(l) \in Nat /\ DOMAIN l = 1..Len(l) /\ \A i \in 1..Len(l) : l[i] \in Node
    BY <2>1
  <2>3. Len(l) # 0 <=> l # <<>>
    BY <2>1
  <2> QED
    BY <2>1, <2>2, <2>3
<1>4. /\ PoppedInOrder'
      /\ n \in feasibleNodes /\ nodesScores[n] \in Nat
      /\ sortedNodeScoreList' \in Seq(feasibleNodes')
      /\ Len(sortedNodeScoreList') = L + 1
      /\ L + 1 <= Cardinality(Node)
      /\ Score(L + 1)' = nodesScores[n]
      /\ \A i \in 1..L : Score(i)' = Score(i)
  BY <1>1, <1>2, <1>3, PopOrdered
<1>5. DOMAIN sortedNodeScoreList' = 1..(L + 1)
  BY <1>3, <1>4
<1>6. PICK x \in Nat : x = nodesScores[n] /\ x = Score(L + 1)'
  BY <1>4
<1>7. PICK c \in Nat : c = cntOfMaxScore
  BY DEF TypeOK
<1>8. PICK s \in [1..L -> Nat] : \A i \in 1..L : s[i] = Score(i) /\ s[i] = Score(i)'
  <2>1. \A i \in 1..L : Score(i) \in Nat
    BY <1>3 DEF TypeOK, Score
  <2> DEFINE f == [i \in 1..L |-> Score(i)]
  <2>2. f \in [1..L -> Nat] /\ \A i \in 1..L : f[i] = Score(i)
    BY <2>1
  <2> HIDE DEF f
  <2> QED
    BY <1>4, <2>2
<1>9. /\ c <= L
      /\ \A i \in 1..L : i <= c <=> s[i] = s[1]
      /\ L <= Count \/ c > Count
      /\ \A i \in 1..L : x <= s[i] /\ s[i] <= s[1]
  <2>1. \A i \in 1..L : 1 \in 1..L
    BY <1>3
  <2>2. TopScore = Score(1)
    BY DEF TopScore, Score
  <2>3. c <= L /\ (L <= Count \/ c > Count)
    BY <1>1, <1>3, <1>7 DEF BestCounted
  <2>4. \A i \in 1..L : i <= c <=> s[i] = s[1]
    BY <1>1, <1>3, <1>7, <1>8, <2>1, <2>2 DEF BestCounted
  <2>5. \A i \in 1..L : x <= s[i]
    BY <1>1, <1>3, <1>6, <1>8 DEF PoppedInOrder, Top
  <2>6. \A i \in 1..L : 1 < i => s[i] <= s[1]
    BY <1>1, <1>3, <1>8, <2>1 DEF PoppedInOrder
  <2> QED
    BY <1>8, <2>1, <2>3, <2>4, <2>5, <2>6
<1>10. /\ L # 0 => TopScore = s[1] /\ TopScore' = s[1]
       /\ L = 0 => TopScore' = x
  <2>1. TopScore = Score(1) /\ TopScore' = Score(1)'
    BY DEF TopScore, Score
  <2> QED
    BY <1>6, <1>8, <2>1
<1>11. Count \in Nat \ {0} /\ Cardinality(Node) \in Nat
  BY FS_CardinalityType, ExtendersAssumption
<1>12. PICK d \in Nat :
         /\ d = cntOfMaxScore'
         /\ d <= L + 1 /\ selectedIndex' \in Nat /\ selectedIndex' < d
         /\ IF L = 0 \/ x = s[1] THEN d = L + 1 ELSE d = c
         /\ L + 1 <= Count \/ d > Count
  <2>1. CASE L = 0
    BY <1>1, <1>3, <1>11, <2>1
  <2>2. CASE L # 0 /\ x = s[1]
    <3>1. c = L
      <4>1. SUFFICES ASSUME c < L PROVE FALSE
        BY <1>9
      <4>2. L \in 1..L /\ 1 \in 1..L
        BY <2>2
      <4>3. s[L] # s[1] /\ x <= s[L] /\ s[L] <= s[1]
        BY <1>9, <4>1, <4>2
      <4> QED
        BY <1>8, <2>2, <4>2, <4>3
    <3>2. cntOfMaxScore' = c + 1 /\ selectedIndex' \in {selectedIndex, c}
      BY <1>1, <1>3, <1>6, <1>7, <1>10, <2>2
    <3>3. selectedIndex \in Nat /\ selectedIndex < c
      BY <1>3, <1>7, <2>2 DEF TypeOK, Typed
    <3>4. L + 1 <= Count \/ c + 1 > Count
      BY <1>11, <3>1
    <3> QED
      BY <2>2, <3>1, <3>2, <3>3, <3>4
  <2>3. CASE L # 0 /\ x # s[1]
    <3>1. L # Count /\ cntOfMaxScore' = c /\ selectedIndex' = selectedIndex
      BY <1>1, <1>3, <1>6, <1>7, <1>10, <2>3 DEF Enough
    <3>2. selectedIndex \in Nat /\ selectedIndex < c
      BY <1>3, <1>7, <2>3 DEF TypeOK, Typed
    <3> QED
      BY <1>9, <1>11, <2>3, <3>1, <3>2
  <2> QED
    BY <2>1, <2>2, <2>3
<1>13. BestCounted'
  <2>1. ASSUME NEW i \in 1..(L + 1) PROVE i <= d <=> Score(i)' = TopScore'
    <3>1. CASE i \in 1..L
      BY <1>8, <1>9, <1>10, <1>12, <3>1
    <3>2. CASE i = L + 1
      BY <1>6, <1>9, <1>10, <1>12, <3>2
    <3> QED
      BY <3>1, <3>2
  <2> QED
    BY <1>4, <1>5, <1>12, <2>1 DEF BestCounted
<1>14. TypeOK'
  <2>1. /\ cntOfMaxScore' \in 0..Cardinality(Node)
        /\ selectedIndex' < cntOfMaxScore'
        /\ h' \subseteq feasibleNodes'
    BY <1>1, <1>2, <1>4, <1>11, <1>12, SMTT(40) DEF TypeOK
  <2> QED
    BY <1>1, <1>2, <1>4, <2>1 DEF TypeOK
<1> QED
  BY <1>1, <1>2, <1>4, <1>12, <1>13, <1>14 DEF Listed, Typed, AnswersSummed, NothingPopped, ResultIsBest

\* The place in the list from which Selected takes its i-th node.
Place(i, k) == IF i = 1 THEN k ELSE IF i = k THEN 1 ELSE i

\* The end of selectHost keeps the invariant.
LEMMA SelectKeeps ==
  ASSUME HostInv, SelectHost
  PROVE  HostInv'
<1> USE DEF HostInv
<1>1. /\ phase = "select" /\ phase' = "done" /\ sortedNodeScoreList # <<>>
      /\ (h = {} /\ Len(sortedNodeScoreList) > 1) \/ \E n \in Top : Enough(n)
      /\ sortedNodeScoreList' = Selected(sortedNodeScoreList)
      /\ host' = sortedNodeScoreList'[1]
      /\ UNCHANGED <<filtering, scoring, h, cntOfMaxScore, selectedIndex>>
  BY DEF SelectHost
<1>2. UNCHANGED <<configured, extenders, hasScorePlugins, interested, called, feasibleNodes, statuses, nodesScores, pc, answered, allNodeExtendersScores>>
  BY <1>1 DEF filtering, scoring
<1>3. PICK F \in SUBSET Node : F = feasibleNodes
  BY DEF TypeOK
<1>4. PICK l \in Seq(F) : l = sortedNodeScoreList
  BY <1>3 DEF TypeOK
<1>5. PICK L \in Nat \ {0} : L = Len(l) /\ DOMAIN l = 1..L /\ l \in [1..L -> F]
  <2>1. Len(l) \in Nat /\ DOMAIN l = 1..Len(l) /\ l \in [1..Len(l) -> F]
    OBVIOUS
  <2>2. Len(l) # 0
    BY <1>1, <1>4
  <2> QED
    BY <2>1, <2>2
<1>6. PICK N \in [Node -> Nat] : N = nodesScores
  BY DEF TypeOK
<1>7. PICK c \in Nat : c = cntOfMaxScore /\ c \in 1..L
  BY <1>1, <1>4, <1>5 DEF TypeOK, Typed, BestCounted
<1>8. PICK k \in 1..c : k = selectedIndex + 1
  BY <1>1, <1>7 DEF TypeOK, Typed
<1>9. /\ h = F \ Elements(l)
      /\ \A i, j \in 1..L : i < j => l[i] # l[j] /\ N[l[j]] <= N[l[i]]
      /\ \A i \in 1..L, n \in h : N[n] <= N[l[i]]
      /\ \A i \in 1..L : i <= c <=> N[l[i]] = N[l[1]]
      /\ L <= Count \/ c > Count
  BY <1>1, <1>3, <1>4, <1>5, <1>6, <1>7 DEF PoppedInOrder, BestCounted, Score, TopScore
<1>10. Count \in Nat \ {0} /\ IsFiniteSet(F)
  BY FS_Subset, ExtendersAssumption
<1>11. PICK M \in Nat \ {0} : M = IF L > Count THEN Count ELSE L
  BY <1>10
<1>12. PICK r \in [1..M -> F] : r = sortedNodeScoreList' /\ \A i \in 1..M : r[i] = l[Place(i, k)]
  <2>1. sortedNodeScoreList' = [i \in 1..M |-> l[Place(i, k)]]
    BY <1>1, <1>4, <1>5, <1>8, <1>11 DEF Selected, Place
  <2>2. \A i \in 1..M : Place(i, k) \in 1..L
    BY <1>7, <1>8, <1>10, <1>11 DEF Place
  <2>3. [i \in 1..M |-> l[Place(i, k)]] \in [1..M -> F]
    BY <1>5, <2>2
  <2> QED
    BY <2>1, <2>3
<1>13. r \in Seq(F) /\ Len(r) = M /\ DOMAIN r = 1..M
  OBVIOUS
<1>14. \A i, j \in 1..M : i < j => r[i] # r[j]
  <2>1. ASSUME NEW i \in 1..M, NEW j \in 1..M, i < j PROVE l[Place(i, k)] # l[Place(j, k)]
    <3>1. /\ Place(i, k) \in 1..L /\ Place(j, k) \in 1..L
          /\ Place(i, k) < Place(j, k) \/ Place(j, k) < Place(i, k)
      BY <1>7, <1>8, <1>10, <1>11, <2>1 DEF Place
    <3> QED
      BY <1>9, <3>1
  <2> QED
    BY <1>12, <2>1
<1>15. PICK C \in Nat : /\ C = Cardinality(F)
                        /\ Cardinality(Elements(l)) = L /\ L <= C
                        /\ Cardinality(Elements(r)) = M
  BY <1>5, <1>9, <1>10, <1>13, <1>14, DistinctLength
<1>16. host' = l[k] /\ host' \in F /\ N[host'] = N[l[1]]
  BY <1>1, <1>5, <1>7, <1>8, <1>9, <1>12 DEF Place
<1>17. \A n \in F : n \in h \/ \E i \in 1..L : n = l[i]
  BY <1>5, <1>9 DEF Elements
<1>18. \A n \in F : N[n] <= N[l[1]]
  <2>1. \A i \in 1..L : N[l[i]] <= N[l[1]] /\ 1 \in 1..L
    BY <1>5, <1>6, <1>9
  <2> QED
    BY <1>9, <1>17, <2>1
<1>19. M = Min({Count, C})
  <2>1. M \in {Count, C} /\ M <= Count /\ M <= C
    <3>1. CASE h = {}
      <4>1. Elements(l) = F
        BY <1>5, <1>9, <3>1 DEF Elements
      <4> QED
        BY <1>10, <1>11, <1>15, <4>1
    <3>2. CASE L = Count
      BY <1>11, <1>15, <3>2
    <3> QED
      BY <1>1, <1>4, <1>5, <3>1, <3>2 DEF Enough
  <2>2. \E m \in {Count, C} : \A y \in {Count, C} : m <= y
    BY <2>1
  <2>3. Min({Count, C}) \in {Count, C} /\ \A y \in {Count, C} : Min({Count, C}) <= y
    BY <2>2 DEF Min
  <2> QED
    BY <1>10, <1>15, <2>1, <2>3
<1>20. ASSUME NEW n \in Elements(r), NEW m \in F \ Elements(r) PROVE N[m] <= N[n]
  <2>1. PICK i \in 1..M : n = l[Place(i, k)]
    BY <1>12 DEF Elements
  <2>2. CASE L <= Count
    <3>1. \A j \in 1..L : l[j] \in Elements(r)
      <4> SUFFICES ASSUME NEW j \in 1..L PROVE l[j] \in Elements(r)
        OBVIOUS
      <4>1. Place(j, k) \in 1..M /\ Place(Place(j, k), k) = j
        BY <1>7, <1>8, <1>11, <2>2 DEF Place
      <4>2. r[Place(j, k)] = l[j]
        BY <1>12, <4>1
      <4> QED
        BY <1>12, <4>1, <4>2 DEF Elements
    <3>2. m \in h
      BY <1>17, <3>1
    <3>3. Place(i, k) \in 1..L
      BY <1>7, <1>8, <1>11, <2>2 DEF Place
    <3> QED
      BY <1>9, <2>1, <3>2, <3>3
  <2>3. CASE c > Count
    <3>1. Place(i, k) \in 1..L /\ Place(i, k) <= c
      BY <1>7, <1>8, <1>10, <1>11, <2>3 DEF Place
    <3> QED
      BY <1>9, <1>18, <2>1, <3>1
  <2> QED
    BY <1>9, <2>2, <2>3
<1>21. c = Cardinality({n \in F : N[n] = N[host']})
  <2> DEFINE b == [i \in 1..c |-> l[i]]
  <2>1. b \in Seq(F) /\ Len(b) = c /\ DOMAIN b = 1..c
    BY <1>5, <1>7
  <2>2. \A i, j \in DOMAIN b : i < j => b[i] # b[j]
    BY <1>7, <1>9, <2>1
  <2>3. Cardinality(Elements(b)) = c
    <3> HIDE DEF b
    <3> QED
      BY <1>10, <2>1, <2>2, DistinctLength
  <2>4. \A n \in h : N[n] # N[l[1]]
    <3>1. CASE h = {}
      BY <3>1
    <3>2. ASSUME NEW t \in Top, Enough(t) PROVE \A n \in h : N[n] # N[l[1]]
      <4>1. N[t] # N[l[1]] /\ t \in F /\ \A n \in h : N[n] <= N[t]
        BY <1>3, <1>4, <1>6, <1>9, <3>2 DEF Enough, TopScore, Top
      <4> QED
        BY <1>5, <1>6, <1>9, <1>18, <4>1
    <3> QED
      BY <1>1, <3>1, <3>2
  <2>5. {n \in F : N[n] = N[l[1]]} = Elements(b)
    <3>1. \A i \in 1..c : b[i] = l[i] /\ i \in 1..L /\ l[i] \in F
      BY <1>5, <1>7
    <3>2. Elements(b) = {l[i] : i \in 1..c}
      BY <2>1, <3>1 DEF Elements
    <3>3. ASSUME NEW n \in F, N[n] = N[l[1]] PROVE \E i \in 1..c : n = l[i]
      <4>1. PICK i \in 1..L : n = l[i]
        BY <1>17, <2>4, <3>3
      <4>2. i <= c
        BY <1>9, <3>3, <4>1
      <4>3. i \in 1..c
        BY <1>7, <4>2
      <4> QED
        BY <4>1, <4>3
    <3> QED
      BY <1>9, <3>1, <3>2, <3>3, SMTT(40)
  <2> QED
    BY <1>16, <2>3, <2>5
<1>22. ResultIsBest'
  <2>1. Elements(sortedNodeScoreList') = Elements(r)
    BY <1>12
  <2> QED
    BY <1>1, <1>2, <1>3, <1>6, <1>7, <1>12, <1>13, <1>15, <1>16, <1>18, <1>19, <1>20, <1>21 DEF ResultIsBest
<1>23. TypeOK'
  BY <1>1, <1>2, <1>3, <1>12, <1>13, <1>16 DEF TypeOK
<1> QED
  BY <1>1, <1>2, <1>22, <1>23 DEF Listed, Typed, AnswersSummed, NothingPopped, PoppedInOrder, BestCounted

\* The invariant holds of every reachable state.
LEMMA HostInvariance == Spec => []HostInv
<1>1. Init => HostInv
  <2> SUFFICES ASSUME Init PROVE HostInv
    OBVIOUS
  <2>1. Listed /\ Elements(extenders) = Elements(configured) /\ Elements(extenders) \subseteq Extender
        /\ IsFiniteSet(Elements(extenders)) /\ extenders \in Seq(Elements(configured))
        /\ Len(extenders) \in Nat
    BY BuiltList DEF Init, Listed
  <2>2. TypeOK
    <3>1. Cardinality(Node) \in Nat
      BY FS_CardinalityType, ExtendersAssumption
    <3> QED
      BY <2>1, <3>1 DEF Init, TypeOK, Zero
  <2>3. AnswersSummed
    <3>1. ASSUME NEW n \in Node PROVE SumOver(answered, n, Elements(extenders)) = 0
      <4>1. PICK a : a = answered
        OBVIOUS
      <4>2. PICK S : S = Elements(extenders)
        OBVIOUS
      <4>3. IsFiniteSet(S) /\ \A e \in S : a[e][n] = 0
        BY <2>1, <4>1, <4>2 DEF Init, Zero
      <4>4. SumOver(a, n, S) = 0
        BY <4>3, SumOfZeros
      <4> QED
        BY <4>1, <4>2, <4>4
    <3> QED
      BY <3>1 DEF Init, AnswersSummed, Zero
  <2> QED
    BY <2>1, <2>2, <2>3 DEF Init, HostInv, Typed, NothingPopped, PoppedInOrder, BestCounted, ResultIsBest, Zero
<1>2. HostInv /\ [Next]_vars => HostInv'
  <2> SUFFICES ASSUME HostInv, [Next]_vars PROVE HostInv'
    OBVIOUS
  <2>1. CASE UNCHANGED vars
    BY <2>1, SMTT(40) DEF vars, filtering, scoring, selecting, HostInv, TypeOK, Listed, Typed, AnswersSummed, NothingPopped, PoppedInOrder, BestCounted, ResultIsBest, Score, TopScore
  <2>2. CASE Select
    BY <2>2, PopsKeep, SelectKeeps DEF Select
  <2> QED
    BY <2>1, <2>2, FilterKeeps, ScoringKeeps DEF Next
<1> QED
  BY <1>1, <1>2, PTL DEF Spec

-----------------------------------------------------------------------------
(* What follows.                                                           *)

\* Every variable keeps its type: the heap and the list hold feasible nodes only, and
\* the candidate of selectHost is one of the best.
THEOREM HostTypes == Spec => []TypeOK
<1>1. HostInv => TypeOK
  BY DEF HostInv
<1> QED
  BY <1>1, HostInvariance, PTL

\* The host and the nodes reported with it are the best by the sum of what the plugins
\* and the extenders gave them (prioritizeNodes, selectHost), in whatever order the
\* extenders answer, whichever fail, and whatever order the heap gives equal nodes.
THEOREM BestReported == Spec => []BestAreReported
<1>1. HostInv => BestAreReported
  <2> SUFFICES ASSUME HostInv PROVE BestAreReported
    OBVIOUS
  <2>1. ASSUME NEW n \in Node PROVE Total(n) = nodesScores[n]
    <3>1. allNodeExtendersScores[n] = MapThenSumSet(LAMBDA e : answered[e][n], Elements(extenders))
      BY DEF HostInv, AnswersSummed, SumOver
    <3>2. allNodeExtendersScores[n] \in Nat /\ nodesScores[n] \in Nat
      BY DEF HostInv, TypeOK
    <3> QED
      BY <3>1, <3>2 DEF Total
  <2>2. /\ feasibleNodes \subseteq Node
        /\ Elements(sortedNodeScoreList) \subseteq feasibleNodes
    BY DEF HostInv, TypeOK, Elements
  <2> QED
    BY <2>1, <2>2 DEF HostInv, ResultIsBest, BestAreReported
<1> QED
  BY <1>1, HostInvariance, PTL

\* The draws of selectHost choose each of the best nodes equally often, however many
\* there are, and every one of them has its draw.
THEOREM FairDraw == Spec => []DrawIsFair
<1>1. HostInv => DrawIsFair
  <2> SUFFICES ASSUME HostInv, phase = "done", sortedNodeScoreList # <<>>
               PROVE  /\ cntOfMaxScore = Cardinality({n \in feasibleNodes : nodesScores[n] = nodesScores[host]})
                      /\ \A j \in 1..cntOfMaxScore :
                           cntOfMaxScore * Cardinality({d \in Draws(cntOfMaxScore) : Chosen(d, cntOfMaxScore) = j})
                             = Cardinality(Draws(cntOfMaxScore))
    BY DEF DrawIsFair
  <2>1. cntOfMaxScore = Cardinality({n \in feasibleNodes : nodesScores[n] = nodesScores[host]})
    BY DEF HostInv, ResultIsBest
  <2>2. PICK c \in Nat \ {0} : c = cntOfMaxScore
    BY DEF HostInv, TypeOK, Typed
  <2>3. Fair(c)
    BY DrawsAreFair
  <2> QED
    BY <2>1, <2>2, <2>3 DEF Fair, ChosenBy
<1> QED
  BY <1>1, HostInvariance, PTL

\* A node that an extender calls unresolvable stays so, whatever another extender says
\* of it afterwards (findNodesThatPassExtenders): preemption will not be tried on it.
THEOREM UnresolvableStays == Spec => UnresolvableStands
<1>1. HostInv /\ [Next]_vars =>
        [\A n \in Node : statuses[n] = "unresolvable" => statuses'[n] = "unresolvable"]_vars
  <2> SUFFICES ASSUME HostInv, [Next]_vars, NEW n \in Node, statuses[n] = "unresolvable"
               PROVE  statuses'[n] = "unresolvable"
    OBVIOUS
  <2>1. CASE Filter
    BY <2>1 DEF Filter, Verdict
  <2>2. CASE ~Filter
    <3>1. statuses' = statuses
      BY <2>2 DEF Next, PassExtenders, PassOver, FilterFails, NoNodeLeft, OneNodeLeft, PrioritizeNodes, ScoreOne, RunScorePlugins, ScorePluginsFail, AddExtendersScores, Prioritize, PrioritizeFails, Select, PopFirst, PopNext, SelectHost, filtering, vars
    <3> QED
      BY <3>1
  <2> QED
    BY <2>1, <2>2
<1> QED
  BY <1>1, HostInvariance, PTL DEF Spec, UnresolvableStands

\* Required extenders decide before ignorable ones are asked, wherever the configuration
\* lists them (buildExtenders): the search ends with an error of a required one while no
\* ignorable one has been asked, and scoring begins when all had their turn.
THEOREM RequiredFirst == Spec => RequiredDecideFirst
<1>1. HostInv /\ [Next]_vars =>
        [phase = "filter" /\ phase' # "filter" =>
           IF MoreExtenders THEN Asked \cap Ignorable = {}
           ELSE feasibleNodes # {} => Elements(configured) \subseteq Asked]_vars
  <2> SUFFICES ASSUME HostInv, [Next]_vars, phase = "filter", phase' # "filter"
               PROVE  IF MoreExtenders THEN Asked \cap Ignorable = {}
                      ELSE feasibleNodes # {} => Elements(configured) \subseteq Asked
    OBVIOUS
  <2>1. PICK s \in BuildExtenders(configured), L \in Nat :
          /\ s = extenders /\ L = Len(s) /\ DOMAIN s = 1..L
          /\ Elements(s) = Elements(configured)
          /\ \A i, j \in 1..L : i < j /\ s[i] \in Ignorable => s[j] \in Ignorable
    BY BuiltList DEF HostInv, Listed
  <2>2. PICK k \in 0..L : k = called
    BY <2>1 DEF HostInv, TypeOK
  <2>3. CASE MoreExtenders
    <3>1. s[k + 1] \notin Ignorable /\ k < L
      BY <2>1, <2>2, <2>3 DEF MoreExtenders, Current, Next, PassExtenders, Filter, PassOver, FilterFails, NoNodeLeft, OneNodeLeft, PrioritizeNodes, ScoreOne, RunScorePlugins, ScorePluginsFail, AddExtendersScores, ToScore, Prioritize, PrioritizeFails, Select, PopFirst, PopNext, SelectHost, vars
    <3>2. \A i \in 1..k : s[i] \notin Ignorable
      BY <2>1, <3>1
    <3> QED
      BY <2>1, <2>2, <2>3, <3>2 DEF Asked
  <2>4. CASE ~MoreExtenders /\ feasibleNodes # {}
    <3>1. k = L
      BY <2>1, <2>2, <2>4 DEF MoreExtenders
    <3> QED
      BY <2>1, <2>2, <2>4, <3>1 DEF Asked, Elements
  <2> QED
    BY <2>3, <2>4
<1> QED
  BY <1>1, HostInvariance, PTL DEF Spec, RequiredDecideFirst

=============================================================================
