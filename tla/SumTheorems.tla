----------------------------- MODULE SumTheorems -----------------------------
(***************************************************************************)
(* Facts about SumFunction of the community module Functions: what a sum   *)
(* over a finite set is, whichever element the fold takes first.  The      *)
(* induction is over the subsets of the set, as a set of subsets that      *)
(* satisfy a claim.                                                        *)
(***************************************************************************)
EXTENDS Integers, FiniteSets, Functions, FiniteSetTheorems, WellFoundedInduction, TLAPS

\* A claim that holds of a subset when it holds of the subset without any one of
\* its elements holds of all.  P is the set of the subsets it holds of.
LEMMA SubsetInduction ==
  ASSUME NEW S, IsFiniteSet(S), NEW P,
         \A s \in SUBSET S : (\A x \in s : s \ {x} \in P) => s \in P
  PROVE  \A s \in SUBSET S : s \in P
<1> DEFINE Bad == {s \in SUBSET S : s \notin P}
<1>1. SUFFICES ASSUME Bad # {} PROVE FALSE
  OBVIOUS
<1>2. IsWellFoundedOn(StrictSubsetOrdering(S), SUBSET S)
  BY FS_StrictSubsetOrderingWellFounded, FS_FiniteSubsetsOfFinite
<1>3. PICK s \in Bad : \A t \in Bad : <<t, s>> \notin StrictSubsetOrdering(S)
  <2>1. Bad \subseteq SUBSET S
    OBVIOUS
  <2> HIDE DEF Bad
  <2>. QED
    BY <1>1, <1>2, <2>1, WFMin
<1>4. ASSUME NEW x \in s PROVE s \ {x} \in P
  <2>1. <<s \ {x}, s>> \in StrictSubsetOrdering(S)
    BY <1>4 DEF StrictSubsetOrdering
  <2>. QED
    BY <1>3, <2>1
<1>. QED
  BY <1>4

\* Induction over the natural numbers, for a claim given as a set.
LEMMA SetInduction ==
  ASSUME NEW P, 0 \in P, \A n \in Nat : n \in P => n + 1 \in P
  PROVE  \A n \in Nat : n \in P
<1> DEFINE Bad == {n \in Nat : n \notin P}
<1>1. SUFFICES ASSUME Bad # {} PROVE FALSE
  OBVIOUS
<1>2. PICK n \in Bad : \A m \in Bad : <<m, n>> \notin OpToRel(<, Nat)
  <2>1. Bad \subseteq Nat
    OBVIOUS
  <2> HIDE DEF Bad
  <2>. QED
    BY <1>1, <2>1, NatLessThanWellFounded, WFMin
<1>3. n \in Nat /\ n # 0 /\ n - 1 \in Nat
  OBVIOUS
<1>4. <<n - 1, n>> \in OpToRel(<, Nat)
  BY <1>3 DEF OpToRel
<1>5. n - 1 \in P
  BY <1>2, <1>3, <1>4
<1>. QED
  BY <1>3, <1>5

-----------------------------------------------------------------------------
(* The fold behind SumFunction.                                            *)

Chosen(s) == CHOOSE x \in s : TRUE

\* f gives every subset of S its sum.
IsSum(f, g, S) ==
  f = [s \in SUBSET S |-> IF s = {} THEN 0 ELSE g[Chosen(s)] + f[s \ {Chosen(s)}]]

LEMMA ChosenIn == \A s : s # {} => Chosen(s) \in s
BY DEF Chosen

LEMMA SumsExist ==
  ASSUME NEW S, IsFiniteSet(S), NEW g
  PROVE  \E f : IsSum(f, g, S)
<1> DEFINE Small(n) == {s \in SUBSET S : Cardinality(s) <= n}
           Good(f, n) == \A s \in Small(n) :
                           f[s] = IF s = {} THEN 0 ELSE g[Chosen(s)] + f[s \ {Chosen(s)}]
           P == {n \in Nat : \E f : Good(f, n)}
<1>1. \A s \in SUBSET S : /\ IsFiniteSet(s) /\ Cardinality(s) \in Nat
                          /\ Cardinality(s) <= Cardinality(S)
  BY FS_Subset, FS_CardinalityType
<1>2. 0 \in P
  <2> DEFINE f == [s \in SUBSET S |-> 0]
  <2>1. \A s \in Small(0) : s = {}
    BY <1>1, FS_EmptySet
  <2>2. Good(f, 0)
    BY <2>1
  <2>. QED
    BY <2>2
<1>3. ASSUME NEW n \in Nat, n \in P PROVE n + 1 \in P
  <2>1. PICK f : Good(f, n)
    BY <1>3
  <2> DEFINE h == [s \in SUBSET S |->
                     IF s \in Small(n) THEN f[s] ELSE g[Chosen(s)] + f[s \ {Chosen(s)}]]
  <2>2. ASSUME NEW s \in Small(n + 1), s # {} PROVE s \ {Chosen(s)} \in Small(n)
    <3>1. Chosen(s) \in s
      BY <2>2, ChosenIn
    <3>2. Cardinality(s \ {Chosen(s)}) = Cardinality(s) - 1
      BY <1>1, <3>1, FS_RemoveElement
    <3>. QED
      BY <1>1, <3>2
  <2>3. {} \in Small(n)
    BY FS_EmptySet
  <2>4. ASSUME NEW s \in Small(n + 1)
        PROVE  h[s] = IF s = {} THEN 0 ELSE g[Chosen(s)] + h[s \ {Chosen(s)}]
    <3>1. CASE s = {}
      BY <2>1, <2>3, <3>1
    <3>2. CASE s # {}
      <4>1. s \ {Chosen(s)} \in Small(n)
        BY <2>2, <3>2
      <4>2. h[s \ {Chosen(s)}] = f[s \ {Chosen(s)}]
        BY <4>1
      <4>3. CASE s \in Small(n)
        <5>1. h[s] = g[Chosen(s)] + f[s \ {Chosen(s)}]
          BY <2>1, <3>2, <4>3
        <5>. QED
          BY <3>2, <4>2, <5>1
      <4>4. CASE s \notin Small(n)
        <5>1. h[s] = g[Chosen(s)] + f[s \ {Chosen(s)}]
          BY <4>4
        <5>. QED
          BY <3>2, <4>2, <5>1
      <4>. QED
        BY <4>3, <4>4
    <3>. QED
      BY <3>1, <3>2
  <2>5. Good(h, n + 1)
    BY <2>4
  <2>6. \E f2 : Good(f2, n + 1)
    <3> HIDE DEF h, Good
    <3>. QED
      BY <2>5
  <2>7. n + 1 \in Nat
    OBVIOUS
  <2> HIDE DEF h, Good
  <2>. QED
    BY <2>6, <2>7
<1>4. Cardinality(S) \in P
  <2>1. \A n \in Nat : n \in P
    <3> HIDE DEF P
    <3>. QED
      BY <1>2, <1>3, SetInduction
  <2>. QED
    BY <2>1, FS_CardinalityType
<1>5. PICK f : Good(f, Cardinality(S))
  BY <1>4
<1> DEFINE h == [s \in SUBSET S |-> f[s]]
<1>6. ASSUME NEW s \in SUBSET S
      PROVE  h[s] = IF s = {} THEN 0 ELSE g[Chosen(s)] + h[s \ {Chosen(s)}]
  BY <1>1, <1>5, <1>6
<1>7. IsSum(h, g, S)
  BY <1>6 DEF IsSum
<1>. QED
  BY <1>7

\* The sums of a part are those of the whole.
LEMMA SumsAgree ==
  ASSUME NEW S, NEW R \in SUBSET S, IsFiniteSet(R), NEW f, NEW g, NEW p, NEW q,
         IsSum(p, f, S), IsSum(q, g, R), \A x \in R : f[x] = g[x]
  PROVE  \A s \in SUBSET R : p[s] = q[s]
<1> DEFINE P == {s \in SUBSET R : p[s] = q[s]}
<1>1. ASSUME NEW s \in SUBSET R, \A x \in s : s \ {x} \in P PROVE s \in P
  <2>1. /\ p[s] = IF s = {} THEN 0 ELSE f[Chosen(s)] + p[s \ {Chosen(s)}]
        /\ q[s] = IF s = {} THEN 0 ELSE g[Chosen(s)] + q[s \ {Chosen(s)}]
    BY DEF IsSum
  <2>2. CASE s = {}
    BY <2>1, <2>2
  <2>3. CASE s # {}
    <3>1. Chosen(s) \in s
      BY <2>3, ChosenIn
    <3>2. f[Chosen(s)] = g[Chosen(s)] /\ p[s \ {Chosen(s)}] = q[s \ {Chosen(s)}]
      BY <1>1, <3>1
    <3>. QED
      BY <2>1, <2>3, <3>2
  <2>. QED
    BY <2>2, <2>3
<1>2. \A s \in SUBSET R : s \in P
  <2> HIDE DEF P
  <2>. QED
    BY <1>1, SubsetInduction
<1>. QED
  BY <1>2

LEMMA SumIs ==
  ASSUME NEW g, IsFiniteSet(DOMAIN g)
  PROVE  \E f : IsSum(f, g, DOMAIN g) /\ SumFunction(g) = f[DOMAIN g]
<1> DEFINE f == CHOOSE f : IsSum(f, g, DOMAIN g)
<1>1. IsSum(f, g, DOMAIN g)
  BY SumsExist, Zenon
<1>2. SumFunction(g) = f[DOMAIN g]
  BY Zenon DEF SumFunction, SumFunctionOnSet, FoldFunctionOnSet, MapThenFoldSet, Chosen, IsSum
<1>. QED
  BY <1>1, <1>2

LEMMA SumOfEmpty == \A g : DOMAIN g = {} => SumFunction(g) = 0
<1> SUFFICES ASSUME NEW g, DOMAIN g = {} PROVE SumFunction(g) = 0
  OBVIOUS
<1>1. PICK f : IsSum(f, g, DOMAIN g) /\ SumFunction(g) = f[DOMAIN g]
  BY SumIs, FS_EmptySet
<1>. QED
  BY <1>1 DEF IsSum

\* All at once: the fold, its values, the sums of the parts, and that any element
\* may be taken first.
SumsOf(f, g, S) ==
  /\ f \in [SUBSET S -> Int] /\ IsSum(f, g, S)
  /\ \A s \in SUBSET S : SumFunction(Restrict(g, s)) = f[s]
  /\ \A s \in SUBSET S : \A x \in s : f[s] = g[x] + f[s \ {x}]

LEMMA SumParts ==
  ASSUME NEW S, IsFiniteSet(S), NEW g \in [S -> Int]
  PROVE  \E f : SumsOf(f, g, S)
<1>1. PICK f : IsSum(f, g, S)
  BY SumsExist
<1>2. \A s \in SUBSET S : f[s] \in Int
  <2> DEFINE P == {s \in SUBSET S : f[s] \in Int}
  <2>1. ASSUME NEW s \in SUBSET S, \A x \in s : s \ {x} \in P PROVE s \in P
    <3>1. f[s] = IF s = {} THEN 0 ELSE g[Chosen(s)] + f[s \ {Chosen(s)}]
      BY <1>1 DEF IsSum
    <3>2. CASE s = {}
      BY <3>1, <3>2
    <3>3. CASE s # {}
      <4>1. Chosen(s) \in s
        BY <3>3, ChosenIn
      <4>2. g[Chosen(s)] \in Int /\ f[s \ {Chosen(s)}] \in Int
        BY <2>1, <4>1
      <4>. QED
        BY <3>1, <3>3, <4>2
    <3>. QED
      BY <3>2, <3>3
  <2>2. \A s \in SUBSET S : s \in P
    <3> HIDE DEF P
    <3>. QED
      BY <2>1, SubsetInduction
  <2>. QED
    BY <2>2
<1>3. f \in [SUBSET S -> Int]
  <2>1. f = [s \in SUBSET S |-> f[s]]
    BY <1>1 DEF IsSum
  <2>. QED
    BY <1>2, <2>1
<1>4. ASSUME NEW s \in SUBSET S PROVE SumFunction(Restrict(g, s)) = f[s]
  <2> DEFINE r == Restrict(g, s)
  <2>1. DOMAIN r = s /\ \A x \in s : g[x] = r[x]
    BY DEF Restrict
  <2>2. IsFiniteSet(s)
    BY FS_Subset
  <2> HIDE DEF r
  <2>3. PICK q : IsSum(q, r, s) /\ SumFunction(r) = q[s]
    BY <2>1, <2>2, SumIs
  <2>4. f[s] = q[s]
    BY <1>1, <2>1, <2>2, <2>3, SumsAgree
  <2>. QED
    BY <2>3, <2>4 DEF r
<1>5. \A s \in SUBSET S : \A x \in s : f[s] = g[x] + f[s \ {x}]
  <2> DEFINE P == {s \in SUBSET S : \A y \in s : f[s] = g[y] + f[s \ {y}]}
  <2>2. ASSUME NEW s \in SUBSET S, \A y \in s : s \ {y} \in P PROVE s \in P
    <3> SUFFICES ASSUME NEW y \in s PROVE f[s] = g[y] + f[s \ {y}]
      OBVIOUS
    <3>1. PICK a : a = Chosen(s)
      OBVIOUS
    <3>2. a \in s /\ f[s] = g[a] + f[s \ {a}]
      BY <1>1, <3>1, ChosenIn DEF IsSum
    <3>3. CASE y = a
      BY <3>2, <3>3
    <3>4. CASE y # a
      <4>1. f[s \ {a}] = g[y] + f[(s \ {a}) \ {y}] /\ f[s \ {y}] = g[a] + f[(s \ {y}) \ {a}]
        BY <2>2, <3>2, <3>4
      <4>2. (s \ {a}) \ {y} = (s \ {y}) \ {a}
        OBVIOUS
      <4>3. PICK rest \in Int : rest = f[(s \ {a}) \ {y}]
        BY <1>3
      <4>4. f[s \ {a}] = g[y] + rest /\ f[s \ {y}] = g[a] + rest
        BY <4>1, <4>2, <4>3
      <4>5. g[a] \in Int /\ g[y] \in Int
        BY <3>2
      <4>. QED
        BY <3>2, <4>4, <4>5
    <3>. QED
      BY <3>3, <3>4
  <2>3. \A s \in SUBSET S : s \in P
    <3> HIDE DEF P
    <3>. QED
      BY <2>2, SubsetInduction
  <2>. QED
    BY <2>3
<1>. QED
  BY <1>1, <1>3, <1>4, <1>5 DEF SumsOf

LEMMA SumType ==
  ASSUME NEW S, IsFiniteSet(S), NEW g \in [S -> Int]
  PROVE  SumFunction(g) \in Int
<1>1. PICK f : SumsOf(f, g, S)
  BY SumParts
<1>2. g = Restrict(g, S)
  BY DEF Restrict
<1>. QED
  BY <1>1, <1>2 DEF SumsOf

LEMMA SumRemove ==
  ASSUME NEW S, IsFiniteSet(S), NEW g \in [S -> Int], NEW x \in S
  PROVE  SumFunction(g) = g[x] + SumFunction(Restrict(g, S \ {x}))
<1>1. PICK f : SumsOf(f, g, S)
  BY SumParts
<1>2. f[S] = g[x] + f[S \ {x}]
  BY <1>1 DEF SumsOf
<1>3. g = Restrict(g, S) /\ S \ {x} \in SUBSET S /\ S \in SUBSET S
  BY DEF Restrict
<1>. QED
  BY <1>1, <1>2, <1>3 DEF SumsOf

\* Equal summands, in whatever places, have equal sums.
LEMMA SumBijection ==
  ASSUME NEW S, IsFiniteSet(S), NEW R, IsFiniteSet(R),
         NEW g \in [S -> Int], NEW h \in [R -> Int], NEW m \in [S -> R],
         \A i \in S : h[m[i]] = g[i],
         \A i, j \in S : m[i] = m[j] => i = j,
         \A k \in R : \E i \in S : m[i] = k
  PROVE  SumFunction(g) = SumFunction(h)
<1> DEFINE Image(s) == {m[i] : i \in s}
<1>1. PICK p : SumsOf(p, g, S)
  BY SumParts
<1>2. PICK q : SumsOf(q, h, R)
  BY SumParts
<1>3. /\ \A s \in SUBSET S : \A x \in s : p[s] = g[x] + p[s \ {x}]
      /\ \A s \in SUBSET R : \A x \in s : q[s] = h[x] + q[s \ {x}]
  <2>1. \A s \in SUBSET S : \A x \in s : p[s] = g[x] + p[s \ {x}]
    BY <1>1 DEF SumsOf
  <2>2. \A s \in SUBSET R : \A x \in s : q[s] = h[x] + q[s \ {x}]
    BY <1>2 DEF SumsOf
  <2>. QED
    BY <2>1, <2>2
<1> DEFINE P == {s \in SUBSET S : p[s] = q[Image(s)]}
<1>4. ASSUME NEW s \in SUBSET S, \A x \in s : s \ {x} \in P PROVE s \in P
  <2>1. CASE s = {}
    <3>1. Image(s) = {} /\ p[{}] = 0 /\ q[{}] = 0
      BY <1>1, <1>2, <2>1 DEF SumsOf, IsSum
    <3>. QED
      BY <2>1, <3>1
  <2>2. CASE s # {}
    <3>1. PICK x \in s : TRUE
      BY <2>2
    <3>2. Image(s) \in SUBSET R /\ m[x] \in Image(s) /\ g[x] = h[m[x]]
      BY <3>1
    <3>3. Image(s) \ {m[x]} = Image(s \ {x})
      BY <3>1
    <3>4. p[s] = g[x] + p[s \ {x}]
      BY <1>3, <3>1
    <3>5. q[Image(s)] = h[m[x]] + q[Image(s) \ {m[x]}]
      <4> HIDE DEF Image
      <4>. QED
        BY <1>3, <3>2
    <3>6. p[s \ {x}] = q[Image(s \ {x})]
      BY <1>4, <3>1
    <3>7. p[s] = q[Image(s)]
      <4> HIDE DEF Image
      <4>. QED
        BY <3>2, <3>3, <3>4, <3>5, <3>6
    <3>. QED
      BY <3>7
  <2>. QED
    BY <2>1, <2>2
<1>5. \A s \in SUBSET S : s \in P
  <2> HIDE DEF P
  <2>. QED
    BY <1>4, SubsetInduction
<1>6. p[S] = q[Image(S)] /\ Image(S) = R
  BY <1>5
<1>7. Restrict(g, S) = g /\ Restrict(h, R) = h
  BY DEF Restrict
<1>8. SumFunction(g) = p[S]
  BY <1>1, <1>7 DEF SumsOf
<1>9. SumFunction(h) = q[R]
  BY <1>2, <1>7 DEF SumsOf
<1>. QED
  BY <1>6, <1>8, <1>9

LEMMA SumNat ==
  ASSUME NEW S, IsFiniteSet(S), NEW g \in [S -> Nat]
  PROVE  SumFunction(g) \in Nat
<1>1. g \in [S -> Int]
  OBVIOUS
<1>2. PICK p : SumsOf(p, g, S)
  BY <1>1, SumParts
<1> DEFINE P == {s \in SUBSET S : p[s] \in Nat}
<1>3. ASSUME NEW s \in SUBSET S, \A x \in s : s \ {x} \in P PROVE s \in P
  <2>1. p[s] = IF s = {} THEN 0 ELSE g[Chosen(s)] + p[s \ {Chosen(s)}]
    BY <1>2 DEF SumsOf, IsSum
  <2>2. CASE s = {}
    BY <2>1, <2>2
  <2>3. CASE s # {}
    <3>1. Chosen(s) \in s
      BY <2>3, ChosenIn
    <3>2. g[Chosen(s)] \in Nat /\ p[s \ {Chosen(s)}] \in Nat
      BY <1>3, <3>1
    <3>. QED
      BY <2>1, <2>3, <3>2
  <2>. QED
    BY <2>2, <2>3
<1>4. \A s \in SUBSET S : s \in P
  <2> HIDE DEF P
  <2>. QED
    BY <1>3, SubsetInduction
<1>5. g = Restrict(g, S)
  BY DEF Restrict
<1>. QED
  BY <1>2, <1>4, <1>5 DEF SumsOf

LEMMA SumMonotone ==
  ASSUME NEW S, IsFiniteSet(S), NEW g \in [S -> Int], NEW h \in [S -> Int],
         \A i \in S : g[i] <= h[i]
  PROVE  SumFunction(g) <= SumFunction(h)
<1>1. PICK p : SumsOf(p, g, S)
  BY SumParts
<1>2. PICK q : SumsOf(q, h, S)
  BY SumParts
<1> DEFINE P == {s \in SUBSET S : p[s] <= q[s]}
<1>3. ASSUME NEW s \in SUBSET S, \A x \in s : s \ {x} \in P PROVE s \in P
  <2>1. /\ p[s] = IF s = {} THEN 0 ELSE g[Chosen(s)] + p[s \ {Chosen(s)}]
        /\ q[s] = IF s = {} THEN 0 ELSE h[Chosen(s)] + q[s \ {Chosen(s)}]
    BY <1>1, <1>2 DEF SumsOf, IsSum
  <2>2. CASE s = {}
    BY <2>1, <2>2
  <2>3. CASE s # {}
    <3>1. Chosen(s) \in s
      BY <2>3, ChosenIn
    <3>2. /\ g[Chosen(s)] \in Int /\ h[Chosen(s)] \in Int /\ g[Chosen(s)] <= h[Chosen(s)]
          /\ p[s \ {Chosen(s)}] \in Int /\ q[s \ {Chosen(s)}] \in Int
          /\ p[s \ {Chosen(s)}] <= q[s \ {Chosen(s)}]
      BY <1>1, <1>2, <1>3, <3>1 DEF SumsOf
    <3>. QED
      BY <2>1, <2>3, <3>2
  <2>. QED
    BY <2>2, <2>3
<1>4. \A s \in SUBSET S : s \in P
  <2> HIDE DEF P
  <2>. QED
    BY <1>3, SubsetInduction
<1>5. g = Restrict(g, S) /\ h = Restrict(h, S)
  BY DEF Restrict
<1>. QED
  BY <1>1, <1>2, <1>4, <1>5 DEF SumsOf

\* The sum over a set is that of a part and that of the rest.
LEMMA SumSplit ==
  ASSUME NEW S, IsFiniteSet(S), NEW g \in [S -> Int], NEW T \in SUBSET S
  PROVE  SumFunction(g) = SumFunction(Restrict(g, T)) + SumFunction(Restrict(g, S \ T))
<1>1. PICK p : SumsOf(p, g, S)
  BY SumParts
<1> DEFINE R == S \ T
           P == {s \in SUBSET T : p[s \cup R] = p[s] + p[R]}
<1>2. IsFiniteSet(T) /\ R \in SUBSET S /\ T \cup R = S
  BY FS_Subset
<1>3. \A s \in SUBSET S : p[s] \in Int
  BY <1>1 DEF SumsOf
<1>4. ASSUME NEW s \in SUBSET T, \A x \in s : s \ {x} \in P PROVE s \in P
  <2>1. CASE s = {}
    <3>1. p[s] = 0 /\ s \cup R = R
      BY <1>1, <2>1 DEF SumsOf, IsSum
    <3>. QED
      BY <1>2, <1>3, <2>1, <3>1
  <2>2. CASE s # {}
    <3>1. PICK x \in s : TRUE
      BY <2>2
    <3>2. s \in SUBSET S /\ s \cup R \in SUBSET S /\ s \ {x} \in SUBSET S /\ x \in S
      BY <1>2
    <3>3. p[s] = g[x] + p[s \ {x}]
      BY <1>1, <3>1, <3>2 DEF SumsOf
    <3>4. p[s \cup R] = g[x] + p[(s \cup R) \ {x}]
      BY <1>1, <3>1, <3>2 DEF SumsOf
    <3>5. (s \cup R) \ {x} = (s \ {x}) \cup R
      BY <3>1
    <3>6. p[(s \ {x}) \cup R] = p[s \ {x}] + p[R]
      BY <1>4, <3>1
    <3>7. g[x] \in Int /\ p[s \ {x}] \in Int /\ p[R] \in Int
      BY <1>2, <1>3, <3>2
    <3>8. p[s \cup R] = p[s] + p[R]
      <4> DEFINE y == g[x]
                 q == p[s \ {x}]
                 r == p[R]
      <4>1. p[s] = y + q /\ p[s \cup R] = y + (q + r) /\ y \in Int /\ q \in Int /\ r \in Int
        BY <3>3, <3>4, <3>5, <3>6, <3>7
      <4> HIDE DEF y, q
      <4>2. p[s \cup R] = p[s] + r
        <5> HIDE DEF r
        <5>. QED
          BY <4>1
      <4>. QED
        BY <4>2
    <3>. QED
      BY <3>8
  <2>. QED
    BY <2>1, <2>2
<1>5. T \in P
  <2> HIDE DEF P
  <2>. QED
    BY <1>2, <1>4, SubsetInduction
<1>6. p[S] = p[T] + p[R]
  BY <1>2, <1>5
<1>7. g = Restrict(g, S) /\ S \in SUBSET S
  BY DEF Restrict
<1>. QED
  BY <1>1, <1>2, <1>6, <1>7 DEF SumsOf
=============================================================================
