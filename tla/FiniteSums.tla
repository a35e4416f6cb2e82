----------------------------- MODULE FiniteSums ----------------------------
(***************************************************************************)
(* Sums over finite sets, of integer weights: what a sum is, how it        *)
(* changes with one of its weights, what parts and shares of it come to.   *)
(*                                                                         *)
(* The theorems that the library has for induction take an operator as a   *)
(* parameter, so each fact is shown by the least set on which it would     *)
(* fail: LeastSet.  The books of the contracts and the pools that the      *)
(* pages show are such sums.                                               *)
(***************************************************************************)
EXTENDS Integers, FiniteSets, TLAPS, FiniteSetTheorems, WellFoundedInduction
-----------------------------------------------------------------------------
(* Sums *)

\* What adds f up over every part of S, whichever element is taken first.
Adds(g, f, S) ==
  /\ g \in [SUBSET S -> Int] /\ g[{}] = 0
  /\ \A s \in SUBSET S : \A x \in s : g[s] = f[x] + g[s \ {x}]

SumOf(f, S) == (CHOOSE g : Adds(g, f, S))[S]

Weights(f, S) == IsFiniteSet(S) /\ \A x \in S : f[x] \in Int

\* Every inhabited set of natural numbers has a least one.
LEMMA LeastNat ==
  ASSUME NEW T \in SUBSET Nat, T # {}
  PROVE  \E x \in T : \A y \in T : x <= y
<1>1. PICK x \in T : \A y \in T : ~(<<y, x>> \in OpToRel(<, Nat))
  BY WFMin, NatLessThanWellFounded
<1>2. \A y \in T : ~(y < x)
  BY <1>1 DEF OpToRel
<1> QED BY <1>2

\* Of finite sets with a bad one among them, one is bad and no smaller one is.
LEMMA LeastSet ==
  ASSUME NEW Bad, Bad # {}, \A s \in Bad : IsFiniteSet(s)
  PROVE  \E s \in Bad : \A x \in s : s \ {x} \notin Bad
<1> DEFINE Sizes == {Cardinality(s) : s \in Bad}
<1>1. Sizes \in SUBSET Nat /\ Sizes # {}
  BY FS_CardinalityType
<1>2. PICK n \in Sizes : \A k \in Sizes : n <= k
  BY <1>1, LeastNat
<1>3. PICK s \in Bad : Cardinality(s) = n
  OBVIOUS
<1>4. ASSUME NEW x \in s, s \ {x} \in Bad
      PROVE  FALSE
  <2>1. Cardinality(s \ {x}) = n - 1 /\ n \in Nat
    BY <1>1, <1>3, <1>4, FS_RemoveElement, FS_CardinalityType
  <2>2. n <= n - 1
    BY <1>2, <1>4, <2>1
  <2> QED BY <2>1, <2>2
<1> QED BY <1>4

\* Every sum of finitely many weights exists.
LEMMA SumsExist ==
  ASSUME NEW f, NEW S, Weights(f, S)
  PROVE  \E g : Adds(g, f, S)
<1> DEFINE Bad == {s \in SUBSET S : ~\E g : Adds(g, f, s)}
<1>1. SUFFICES ASSUME Bad # {}
               PROVE  FALSE
  OBVIOUS
<1>2. \A s \in Bad : IsFiniteSet(s)
  BY FS_Subset DEF Weights
<1>3. PICK s \in Bad : \A x \in s : s \ {x} \notin Bad
  BY <1>1, <1>2, LeastSet
<1>4. s # {}
  <2>1. SUFFICES ASSUME s = {} PROVE FALSE
    OBVIOUS
  <2>2. Adds([t \in {{}} |-> 0], f, s)
    BY <2>1 DEF Adds
  <2> QED BY <2>2
<1>5. PICK a \in s : TRUE
  BY <1>4
<1>6. PICK g : Adds(g, f, s \ {a})
  BY <1>3, <1>5
<1> DEFINE h == [t \in SUBSET s |-> IF a \in t THEN f[a] + g[t \ {a}] ELSE g[t]]
<1>7. f[a] \in Int /\ s \in SUBSET S /\ \A x \in s : f[x] \in Int
  BY DEF Weights
<1>8. \A t \in SUBSET s : t \ {a} \in SUBSET (s \ {a}) /\ g[t \ {a}] \in Int
  BY <1>6 DEF Adds
<1>9. h \in [SUBSET s -> Int]
  <2>1. \A t \in SUBSET s : a \notin t => t \ {a} = t
    OBVIOUS
  <2>2. \A t \in SUBSET s : (IF a \in t THEN f[a] + g[t \ {a}] ELSE g[t]) \in Int
    BY <1>7, <1>8, <2>1
  <2> QED BY <2>2
<1>10. h[{}] = 0
  BY <1>6 DEF Adds
<1>11. ASSUME NEW t \in SUBSET s, NEW x \in t
       PROVE  h[t] = f[x] + h[t \ {x}]
  <2>0. t \ {x} \in SUBSET s /\ f[x] \in Int
    BY <1>7
  <2>1. CASE x = a
    <3>1. h[t] = f[a] + g[t \ {a}] /\ h[t \ {x}] = g[t \ {a}]
      BY <2>0, <2>1, <1>11
    <3> QED BY <2>1, <3>1
  <2>2. CASE x # a /\ a \in t
    <3>1. (t \ {x}) \ {a} = (t \ {a}) \ {x}
      OBVIOUS
    <3>2. h[t] = f[a] + g[t \ {a}] /\ h[t \ {x}] = f[a] + g[(t \ {a}) \ {x}]
      BY <2>0, <2>2, <3>1
    <3>3. PICK n \in Int : n = g[(t \ {a}) \ {x}]
      BY <1>8, <2>0, <3>1
    <3>4. g[t \ {a}] = f[x] + n
      BY <1>6, <1>8, <2>2, <3>3 DEF Adds
    <3> HIDE DEF h
    <3> QED BY <1>7, <2>0, <3>2, <3>3, <3>4
  <2>3. CASE a \notin t
    <3>1. h[t] = g[t] /\ h[t \ {x}] = g[t \ {x}] /\ t \in SUBSET (s \ {a})
      BY <2>0, <2>3
    <3> QED BY <1>6, <3>1 DEF Adds
  <2> QED BY <2>1, <2>2, <2>3
<1>12. Adds(h, f, s)
  BY <1>9, <1>10, <1>11 DEF Adds
<1> QED BY <1>12

\* What adds f up taking each part's elements in some order.
AddsSomehow(h, f, S) ==
  /\ h[{}] = 0
  /\ \A s \in SUBSET S : s # {} => \E x \in s : h[s] = f[x] + h[s \ {x}]

\* In whichever order the elements are taken, the sum is the same.
LEMMA SumsAgree ==
  ASSUME NEW f, NEW S, Weights(f, S), NEW g, Adds(g, f, S), NEW h, AddsSomehow(h, f, S)
  PROVE  \A s \in SUBSET S : h[s] = g[s]
<1> DEFINE Bad == {s \in SUBSET S : h[s] # g[s]}
<1>1. SUFFICES ASSUME Bad # {}
               PROVE  FALSE
  OBVIOUS
<1>2. \A s \in Bad : IsFiniteSet(s)
  BY FS_Subset DEF Weights
<1>3. PICK s \in Bad : \A x \in s : s \ {x} \notin Bad
  BY <1>1, <1>2, LeastSet
<1>4. s # {}
  BY DEF Adds, AddsSomehow
<1>5. PICK x \in s : h[s] = f[x] + h[s \ {x}]
  BY <1>4 DEF AddsSomehow
<1>6. h[s \ {x}] = g[s \ {x}]
  BY <1>3
<1>7. g[s] = f[x] + g[s \ {x}]
  BY DEF Adds
<1> QED BY <1>5, <1>6, <1>7

\* What adds the weights up gives their sum.
LEMMA SumIs ==
  ASSUME NEW f, NEW S, Weights(f, S), NEW g, Adds(g, f, S)
  PROVE  SumOf(f, S) = g[S]
<1>1. Adds(CHOOSE k : Adds(k, f, S), f, S)
  OBVIOUS
<1>2. PICK k : k = (CHOOSE j : Adds(j, f, S)) /\ Adds(k, f, S)
  BY <1>1
<1>3. AddsSomehow(k, f, S)
  BY <1>2 DEF Adds, AddsSomehow
<1>4. k[S] = g[S]
  BY <1>3, SumsAgree
<1> QED BY <1>2, <1>4 DEF SumOf

\* A sum of integers is one.
LEMMA SumTypes ==
  ASSUME NEW f, NEW S, Weights(f, S)
  PROVE  SumOf(f, S) \in Int
<1>1. PICK g : Adds(g, f, S)
  BY SumsExist
<1>2. SumOf(f, S) = g[S]
  BY <1>1, SumIs
<1> QED BY <1>1, <1>2 DEF Adds

\* Nothing adds up to zero.
LEMMA SumEmpty ==
  ASSUME NEW f
  PROVE  SumOf(f, {}) = 0
<1>1. Weights(f, {})
  BY FS_EmptySet DEF Weights
<1>2. PICK g : Adds(g, f, {})
  BY <1>1, SumsExist
<1>3. SumOf(f, {}) = g[{}]
  BY <1>1, <1>2, SumIs
<1> QED BY <1>2, <1>3 DEF Adds

\* Any element may be taken first.
LEMMA SumTakes ==
  ASSUME NEW f, NEW S, Weights(f, S), NEW x \in S
  PROVE  /\ Weights(f, S \ {x}) /\ SumOf(f, S \ {x}) \in Int
         /\ SumOf(f, S) = f[x] + SumOf(f, S \ {x})
<1>1. PICK g : Adds(g, f, S)
  BY SumsExist
<1>2. Weights(f, S \ {x})
  BY FS_RemoveElement DEF Weights
<1> DEFINE h == [s \in SUBSET (S \ {x}) |-> g[s]]
<1>3. Adds(h, f, S \ {x})
  <2>1. h \in [SUBSET (S \ {x}) -> Int] /\ h[{}] = 0
    BY <1>1 DEF Adds
  <2>2. ASSUME NEW s \in SUBSET (S \ {x}), NEW y \in s
        PROVE  h[s] = f[y] + h[s \ {y}]
    BY <1>1 DEF Adds
  <2> QED BY <2>1, <2>2 DEF Adds
<1>4. SumOf(f, S \ {x}) = g[S \ {x}]
  BY <1>2, <1>3, SumIs
<1>5. SumOf(f, S) = g[S]
  BY <1>1, SumIs
<1>6. g[S] = f[x] + g[S \ {x}] /\ g[S \ {x}] \in Int
  BY <1>1 DEF Adds
<1> QED BY <1>2, <1>4, <1>5, <1>6

\* What holds of every two weights holds of the sums.
LEMMA SumBounds ==
  ASSUME NEW f, NEW h, NEW S, Weights(f, S), Weights(h, S), NEW a \in Int, NEW b \in Int,
         NEW c \in Int, \A x \in S : a * f[x] <= b * h[x] + c
  PROVE  a * SumOf(f, S) <= b * SumOf(h, S) + c * Cardinality(S)
<1> DEFINE Bad == {s \in SUBSET S : ~(a * SumOf(f, s) <= b * SumOf(h, s) + c * Cardinality(s))}
<1>1. SUFFICES ASSUME Bad # {}
               PROVE  FALSE
  OBVIOUS
<1>2. \A s \in SUBSET S : Weights(f, s) /\ Weights(h, s)
  BY FS_Subset DEF Weights
<1>3. PICK s \in Bad : \A x \in s : s \ {x} \notin Bad
  BY <1>1, <1>2, LeastSet DEF Weights
<1>4. s # {}
  BY SumEmpty, FS_EmptySet
<1>5. PICK x \in s : TRUE
  BY <1>4
<1>6. PICK i \in Int, j \in Int, n \in Nat :
        i = SumOf(f, s \ {x}) /\ j = SumOf(h, s \ {x}) /\ n = Cardinality(s \ {x})
  BY <1>2, SumTypes, FS_CardinalityType DEF Weights
<1>7. /\ SumOf(f, s) = f[x] + i /\ SumOf(h, s) = h[x] + j /\ Cardinality(s) = n + 1
      /\ f[x] \in Int /\ h[x] \in Int
  <2>1. Weights(f, s) /\ Weights(h, s) /\ IsFiniteSet(s)
    BY <1>2 DEF Weights
  <2>2. SumOf(f, s) = f[x] + i /\ SumOf(h, s) = h[x] + j
    BY <1>6, <2>1, SumTakes
  <2>3. Cardinality(s) \in Nat /\ n = Cardinality(s) - 1
    BY <1>6, <2>1, FS_RemoveElement, FS_CardinalityType
  <2>4. f[x] \in Int /\ h[x] \in Int
    BY <2>1 DEF Weights
  <2> QED BY <2>2, <2>3, <2>4
<1>8. a * i <= b * j + c * n
  BY <1>3, <1>6
<1>9. a * f[x] <= b * h[x] + c
  OBVIOUS
<1>10. PICK u \in Int, v \in Int : u = f[x] /\ v = h[x]
  BY <1>7
<1>11. a * (u + i) <= b * (v + j) + c * (n + 1)
  <2>1. /\ a * (u + i) = a * u + a * i /\ b * (v + j) = b * v + b * j
        /\ c * (n + 1) = c * n + c
    OBVIOUS
  <2>2. PICK p \in Int, q \in Int, r \in Int, k \in Int, l \in Int :
          p = a * u /\ q = a * i /\ r = b * v /\ k = b * j /\ l = c * n
    OBVIOUS
  <2>3. q <= k + l /\ p <= r + c
    BY <1>8, <1>9, <1>10, <2>2
  <2>4. p + q <= (r + k) + (l + c)
    BY <2>3
  <2> QED BY <2>1, <2>2, <2>4
<1> QED BY <1>7, <1>10, <1>11

\* Weights of nothing change no sum.
LEMMA SumOfPart ==
  ASSUME NEW f, NEW S, Weights(f, S), NEW T \in SUBSET S, \A x \in S \ T : f[x] = 0
  PROVE  SumOf(f, S) = SumOf(f, T)
<1> DEFINE Bad == {s \in SUBSET S : T \subseteq s /\ SumOf(f, s) # SumOf(f, T)}
<1>1. SUFFICES ASSUME Bad # {}
               PROVE  FALSE
  OBVIOUS
<1>2. \A s \in SUBSET S : Weights(f, s)
  BY FS_Subset DEF Weights
<1>3. PICK s \in Bad : \A x \in s : s \ {x} \notin Bad
  BY <1>1, <1>2, LeastSet DEF Weights
<1>4. PICK x \in s : x \notin T
  OBVIOUS
<1>5. f[x] = 0 /\ SumOf(f, s \ {x}) = SumOf(f, T)
  BY <1>3, <1>4
<1>6. SumOf(f, s) = f[x] + SumOf(f, s \ {x}) /\ SumOf(f, s \ {x}) \in Int
  BY <1>2, SumTakes
<1> QED BY <1>5, <1>6

\* The sum looks at the weights of its own elements only.
LEMMA SumSame ==
  ASSUME NEW f, NEW h, NEW S, Weights(f, S), \A x \in S : h[x] = f[x]
  PROVE  SumOf(h, S) = SumOf(f, S)
<1>1. Weights(h, S)
  BY DEF Weights
<1>2. \A x \in S : 1 * f[x] <= 1 * h[x] + 0 /\ 1 * h[x] <= 1 * f[x] + 0
  BY DEF Weights
<1>3. /\ 1 * SumOf(f, S) <= 1 * SumOf(h, S) + 0 * Cardinality(S)
      /\ 1 * SumOf(h, S) <= 1 * SumOf(f, S) + 0 * Cardinality(S)
  BY <1>1, <1>2, SumBounds
<1> QED BY <1>1, <1>3, SumTypes, FS_CardinalityType DEF Weights

\* h is f with another weight at x.
ChangesAt(f, h, S, x) ==
  x \in S /\ h[x] \in Int /\ \A y \in S \ {x} : h[y] = f[y]

\* When one weight changes the sum changes by as much.
LEMMA SumChanges ==
  ASSUME NEW f, NEW h, NEW S, NEW x, Weights(f, S), ChangesAt(f, h, S, x)
  PROVE  /\ Weights(h, S) /\ SumOf(f, S) \in Int
         /\ SumOf(h, S) = SumOf(f, S) + h[x] - f[x]
<1>1. Weights(h, S) /\ x \in S
  BY DEF Weights, ChangesAt
<1>2. SumOf(h, S \ {x}) = SumOf(f, S \ {x})
  BY <1>1, SumTakes, SumSame DEF ChangesAt
<1>3. /\ SumOf(h, S) = h[x] + SumOf(h, S \ {x}) /\ SumOf(f, S) = f[x] + SumOf(f, S \ {x})
      /\ SumOf(f, S \ {x}) \in Int /\ f[x] \in Int
  BY SMTT(30), <1>1, SumTakes DEF Weights
<1>4. h[x] \in Int
  BY DEF ChangesAt
<1>5. SumOf(f, S) \in Int
  BY SumTypes
<1> QED BY <1>1, <1>2, <1>3, <1>4, <1>5

\* A sum of zeros is zero.
LEMMA SumOfZeros ==
  ASSUME NEW f, NEW S, Weights(f, S), \A x \in S : f[x] = 0
  PROVE  SumOf(f, S) = 0
BY SumOfPart, SumEmpty

\* A weight is within the sum when no weight is negative.
LEMMA SumCovers ==
  ASSUME NEW f, NEW S, Weights(f, S), \A y \in S : f[y] >= 0, NEW x \in S
  PROVE  f[x] <= SumOf(f, S)
<1>1. /\ Weights(f, S \ {x}) /\ SumOf(f, S \ {x}) \in Int
      /\ SumOf(f, S) = f[x] + SumOf(f, S \ {x})
  BY ONLY Weights(f, S), x \in S, SumTakes
<1>2. SumOf(f, S \ {x}) >= 0
  <2> DEFINE zero == [y \in S \ {x} |-> 0]
  <2>1. Weights(zero, S \ {x}) /\ \A y \in S \ {x} : zero[y] = 0
    BY <1>1 DEF Weights
  <2> HIDE DEF zero
  <2>2. SumOf(zero, S \ {x}) = 0
    BY <2>1, SumOfZeros
  <2>3. \A y \in S \ {x} : 1 * zero[y] <= 1 * f[y] + 0
    BY <1>1, <2>1 DEF Weights
  <2>4. 1 * SumOf(zero, S \ {x}) <= 1 * SumOf(f, S \ {x}) + 0 * Cardinality(S \ {x})
    BY ONLY <1>1, <2>1, <2>3, 0 \in Int, 1 \in Int, SumBounds
  <2>5. Cardinality(S \ {x}) \in Nat
    BY <1>1, FS_CardinalityType DEF Weights
  <2> QED BY <1>1, <2>2, <2>4, <2>5
<1>3. f[x] \in Int
  BY DEF Weights
<1> QED BY <1>1, <1>2, <1>3

\* Weights that are not negative have a sum that is not.
LEMMA SumNotNegative ==
  ASSUME NEW f, NEW S, Weights(f, S), \A y \in S : f[y] >= 0
  PROVE  SumOf(f, S) >= 0
<1>1. CASE S = {}
  BY <1>1, SumEmpty
<1>2. CASE S # {}
  <2>1. PICK x \in S : TRUE
    BY <1>2
  <2>2. f[x] <= SumOf(f, S) /\ f[x] >= 0 /\ f[x] \in Int
    BY SumCovers DEF Weights
  <2> QED BY <2>2, SumTypes
<1> QED BY <1>1, <1>2

\* A part of the set adds up to no more, when no weight is negative.
LEMMA SumWithin ==
  ASSUME NEW f, NEW S, Weights(f, S), \A y \in S : f[y] >= 0, NEW T \in SUBSET S
  PROVE  Weights(f, T) /\ SumOf(f, T) <= SumOf(f, S)
<1> DEFINE h == [x \in S |-> IF x \in T THEN f[x] ELSE 0]
<1>1. Weights(h, S) /\ Weights(f, T)
  BY FS_Subset DEF Weights
<1>2. /\ \A x \in S \ T : h[x] = 0
      /\ \A x \in T : h[x] = f[x]
      /\ \A x \in S : 1 * h[x] <= 1 * f[x] + 0
  BY DEF Weights
<1> HIDE DEF h
<1>3. SumOf(h, S) = SumOf(h, T)
  BY <1>1, <1>2, SumOfPart
<1>4. SumOf(h, T) = SumOf(f, T)
  BY <1>1, <1>2, SumSame
<1>5. 1 * SumOf(h, S) <= 1 * SumOf(f, S) + 0 * Cardinality(S)
  BY ONLY Weights(f, S), <1>1, <1>2, 0 \in Int, 1 \in Int, SumBounds
<1>6. /\ SumOf(f, S) \in Int /\ SumOf(h, S) \in Int
      /\ Cardinality(S) \in Nat
  BY <1>1, SumTypes, FS_CardinalityType DEF Weights
<1> QED BY <1>1, <1>3, <1>4, <1>5, <1>6

\* So do the weights of different elements, each taken once.
LEMMA SumInjects ==
  ASSUME NEW f, NEW S, Weights(f, S), \A y \in S : f[y] >= 0,
         NEW T, IsFiniteSet(T), NEW p \in [T -> S], \A x, y \in T : p[x] = p[y] => x = y,
         NEW h, \A x \in T : h[x] = f[p[x]]
  PROVE  Weights(h, T) /\ SumOf(h, T) <= SumOf(f, S)
<1> DEFINE Image(t) == {p[x] : x \in t}
           Bad == {t \in SUBSET T : SumOf(h, t) # SumOf(f, Image(t))}
<1>1. /\ \A t \in SUBSET T : Image(t) \in SUBSET S /\ Weights(h, t) /\ Weights(f, Image(t))
  <2>1. ASSUME NEW t \in SUBSET T
        PROVE  Image(t) \in SUBSET S /\ IsFiniteSet(Image(t)) /\ IsFiniteSet(t)
    BY FS_Subset DEF Weights
  <2> QED BY <2>1 DEF Weights
<1>2. Bad = {}
  <2>1. SUFFICES ASSUME Bad # {}
                 PROVE  FALSE
    OBVIOUS
  <2>2. \A t \in Bad : IsFiniteSet(t)
    BY <1>1 DEF Weights
  <2>3. PICK t \in Bad : \A x \in t : t \ {x} \notin Bad
    BY ONLY <2>1, <2>2, LeastSet
  <2>4. t # {}
    <3>1. SUFFICES ASSUME t = {} PROVE FALSE
      OBVIOUS
    <3>2. Image(t) = {}
      BY <3>1
    <3> QED BY <3>1, <3>2, SumEmpty
  <2>5. PICK x \in t : TRUE
    BY <2>4
  <2>6. Image(t \ {x}) = Image(t) \ {p[x]} /\ p[x] \in Image(t)
    OBVIOUS
  <2>7. SumOf(h, t \ {x}) = SumOf(f, Image(t) \ {p[x]})
    BY <2>3, <2>5, <2>6
  <2> HIDE DEF Image
  <2>8. SumOf(h, t) = h[x] + SumOf(h, t \ {x})
    BY <1>1, SumTakes
  <2>9. SumOf(f, Image(t)) = f[p[x]] + SumOf(f, Image(t) \ {p[x]})
    BY <1>1, <2>6, SumTakes
  <2> QED BY <2>7, <2>8, <2>9
<1>3. SumOf(h, T) = SumOf(f, Image(T))
  BY <1>2
<1> HIDE DEF Image
<1> QED BY <1>1, <1>3, SumWithin
-----------------------------------------------------------------------------
(* What the community modules add up *)

\* How the community module adds up: it takes the elements at its choice.
Takes(h, f, S) ==
  h = [s \in SUBSET S |->
         IF s = {} THEN 0 ELSE f[CHOOSE x \in s : TRUE] + h[s \ {CHOOSE x \in s : TRUE}]]

\* However it chooses, it gets the same sum.
LEMMA TakesSum ==
  ASSUME NEW f, NEW S, Weights(f, S)
  PROVE  /\ \E h : Takes(h, f, S)
         /\ \A h : Takes(h, f, S) => h[S] = SumOf(f, S)
<1>1. PICK g : Adds(g, f, S)
  BY SumsExist
<1>2. \A s \in SUBSET S : s # {} => (CHOOSE x \in s : TRUE) \in s
  OBVIOUS
<1>3. Takes(g, f, S)
  BY <1>1, <1>2 DEF Takes, Adds
<1>4. ASSUME NEW h, Takes(h, f, S)
      PROVE  h[S] = SumOf(f, S)
  <2>1. AddsSomehow(h, f, S)
    BY <1>2, <1>4 DEF Takes, AddsSomehow
  <2>2. h[S] = g[S]
    BY <1>1, <2>1, SumsAgree
  <2> QED BY <1>1, <2>2, SumIs
<1> QED BY <1>3, <1>4
-----------------------------------------------------------------------------
(* Shares of a pot *)

\* Division rounds down, by less than one.
LEMMA DivBounds ==
  ASSUME NEW x \in Nat, NEW w \in Nat, w > 0
  PROVE  /\ x \div w \in Nat
         /\ w * (x \div w) <= x
         /\ x < w * (x \div w) + w
  OBVIOUS

\* Both sides of a comparison may be multiplied.
LEMMA Scale ==
  ASSUME NEW x \in Int, NEW y \in Int, NEW w \in Nat, x <= y
  PROVE  w * x <= w * y
<1>1. PICK d \in Nat : y = x + d
  OBVIOUS
<1>2. w * y = w * x + w * d /\ w * d >= 0
  BY <1>1
<1> QED BY <1>2

\* Both sides of a comparison may be divided.
LEMMA Cancel ==
  ASSUME NEW x \in Int, NEW y \in Int, NEW w \in Nat, w > 0, w * x <= w * y
  PROVE  x <= y
<1>1. SUFFICES ASSUME x >= y + 1 PROVE FALSE
  OBVIOUS
<1>2. PICK d \in Nat : x = y + 1 + d
  BY <1>1
<1>3. w * x = w * y + w + w * d
  BY <1>2
<1>4. w * d >= 0 /\ w * y \in Int
  OBVIOUS
<1> QED BY <1>3, <1>4

\* The shares of a pot n among stakes p, each rounded down.
Shares(p, n, S) ==
  [x \in S |-> IF p[x] > 0 THEN (p[x] * n) \div SumOf(p, S) ELSE 0]

\* Together they never exceed the pot, and fall short of it by less than one
\* for each stake.
LEMMA SharesCover ==
  ASSUME NEW S, IsFiniteSet(S), NEW p, \A x \in S : p[x] \in Nat, NEW n \in Nat,
         SumOf(p, S) > 0
  PROVE  /\ Weights(Shares(p, n, S), S)
         /\ SumOf(Shares(p, n, S), S) <= n
         /\ n <= SumOf(Shares(p, n, S), S) + Cardinality(S)
<1>1. Weights(p, S)
  BY DEF Weights
<1>2. PICK w \in Nat : w = SumOf(p, S) /\ w > 0
  BY <1>1, SumTypes
<1>3. PICK c : c = Shares(p, n, S)
  OBVIOUS
<1>4. ASSUME NEW x \in S
      PROVE  c[x] \in Nat /\ w * c[x] <= n * p[x] + 0 /\ n * p[x] <= w * c[x] + w
  <2>1. PICK q \in Nat : q = p[x]
    OBVIOUS
  <2>2. c[x] = IF q > 0 THEN (q * n) \div w ELSE 0
    BY <1>2, <1>3, <2>1 DEF Shares
  <2>3. CASE q > 0
    <3>1. q * n \in Nat /\ q * n = n * q
      BY <2>1
    <3> QED BY <1>2, <2>1, <2>2, <2>3, <3>1, DivBounds
  <2>4. CASE q = 0
    BY <1>2, <2>1, <2>2, <2>4
  <2> QED BY <2>1, <2>3, <2>4
<1>5. Weights(c, S)
  BY <1>4 DEF Weights
<1>6. PICK s \in Int, k \in Nat : s = SumOf(c, S) /\ k = Cardinality(S)
  BY <1>5, SumTypes, FS_CardinalityType
<1>7. w * s <= n * w + 0 * k
  <2>1. \A x \in S : w * c[x] <= n * p[x] + 0
    BY <1>4
  <2>2. w * SumOf(c, S) <= n * SumOf(p, S) + 0 * Cardinality(S)
    BY ONLY <1>1, <1>5, <2>1, w \in Int, n \in Int, 0 \in Int, SumBounds
  <2> QED BY <1>2, <1>6, <2>2
<1>8. n * w <= w * s + w * k
  <2>1. \A x \in S : n * p[x] <= w * c[x] + w
    BY <1>4
  <2>2. n * SumOf(p, S) <= w * SumOf(c, S) + w * Cardinality(S)
    BY ONLY <1>1, <1>5, <2>1, w \in Int, n \in Int, SumBounds
  <2> QED BY <1>2, <1>6, <2>2
<1>9. s <= n
  <2>1. w * s <= w * n
    BY <1>7
  <2> QED BY <1>2, <2>1, Cancel
<1>10. n <= s + k
  <2>1. w * n <= w * (s + k)
    BY <1>8
  <2> QED BY <1>2, <2>1, Cancel
<1> QED BY <1>3, <1>5, <1>6, <1>9, <1>10
-----------------------------------------------------------------------------
(* Folds *)

\* What a fold makes of each part of S, from base on: pick is the element taken
\* first, and step what becomes of it and of the result for the others.
Folded(h, step, pick, base, S) ==
  h = [s \in SUBSET S |-> IF s = {} THEN base ELSE step[<<pick[s], h[s \ {pick[s]}]>>]]

\* The same, on the parts with no more than k elements.
Smaller(S, k) == {s \in SUBSET S : Cardinality(s) <= k}
FoldedUpTo(h, step, pick, base, S, k) ==
  h = [s \in Smaller(S, k) |-> IF s = {} THEN base ELSE step[<<pick[s], h[s \ {pick[s]}]>>]]

\* Every fold has its results.
LEMMA FoldsExist ==
  ASSUME NEW S, IsFiniteSet(S), NEW R, NEW base \in R, NEW step \in [S \X R -> R],
         NEW pick, \A s \in SUBSET S : s # {} => pick[s] \in s
  PROVE  \E h \in [SUBSET S -> R] : Folded(h, step, pick, base, S)
<1> DEFINE Good(k) == \E h \in [Smaller(S, k) -> R] : FoldedUpTo(h, step, pick, base, S, k)
           Bad == {k \in Nat : ~Good(k)}
<1>1. \A s \in SUBSET S : IsFiniteSet(s) /\ Cardinality(s) \in Nat /\ (Cardinality(s) = 0 <=> s = {})
  BY FS_Subset, FS_CardinalityType, FS_EmptySet
<1>2. \A s \in SUBSET S : s # {} => Cardinality(s \ {pick[s]}) = Cardinality(s) - 1
  BY <1>1, FS_RemoveElement
<1>3. Bad = {}
  <2>1. SUFFICES ASSUME Bad # {} PROVE FALSE
    OBVIOUS
  <2>2. PICK k \in Bad : \A j \in Bad : k <= j
    BY <2>1, LeastNat
  <2>3. k # 0
    <3>1. SUFFICES ASSUME k = 0 PROVE FALSE
      OBVIOUS
    <3>2. Smaller(S, 0) = {{}}
      BY <1>1 DEF Smaller
    <3>3. PICK h : h = [s \in {{}} |-> base]
      OBVIOUS
    <3>4. h \in [Smaller(S, 0) -> R] /\ FoldedUpTo(h, step, pick, base, S, 0)
      BY <3>2, <3>3 DEF FoldedUpTo
    <3> QED BY <3>1, <3>4
  <2>4. k \in Nat /\ k - 1 \in Nat /\ k - 1 \notin Bad
    BY <2>2, <2>3
  <2>5. PICK h \in [Smaller(S, k - 1) -> R] : FoldedUpTo(h, step, pick, base, S, k - 1)
    BY <2>4
  <2>6. PICK g : g = [s \in Smaller(S, k) |->
                        IF s = {} THEN base ELSE step[<<pick[s], h[s \ {pick[s]}]>>]]
    OBVIOUS
  <2>7. \A s \in Smaller(S, k) : s # {} => s \ {pick[s]} \in Smaller(S, k - 1) /\ pick[s] \in S
    BY <1>1, <1>2, <2>4 DEF Smaller
  <2>8. \A s \in Smaller(S, k - 1) : s \in Smaller(S, k) /\ g[s] = h[s]
    <3>1. \A s \in Smaller(S, k - 1) : s \in Smaller(S, k)
      BY <1>1, <2>4 DEF Smaller
    <3>2. \A s \in Smaller(S, k - 1) :
            h[s] = IF s = {} THEN base ELSE step[<<pick[s], h[s \ {pick[s]}]>>]
      BY <2>5 DEF FoldedUpTo
    <3> QED BY <2>6, <3>1, <3>2
  <2>9. g \in [Smaller(S, k) -> R]
    <3>1. \A s \in Smaller(S, k) :
            (IF s = {} THEN base ELSE step[<<pick[s], h[s \ {pick[s]}]>>]) \in R
      BY <2>7
    <3> QED BY <2>6, <3>1
  <2>10. FoldedUpTo(g, step, pick, base, S, k)
    <3>1. \A s \in Smaller(S, k) :
            g[s] = IF s = {} THEN base ELSE step[<<pick[s], g[s \ {pick[s]}]>>]
      BY <2>6, <2>7, <2>8
    <3> QED BY <2>6, <3>1 DEF FoldedUpTo
  <2> QED BY <2>2, <2>9, <2>10
<1>4. PICK n \in Nat : n = Cardinality(S)
  BY <1>1
<1>5. Smaller(S, n) = SUBSET S
  <2>1. \A s \in SUBSET S : Cardinality(s) <= n
    BY <1>4, FS_Subset
  <2> QED BY <2>1 DEF Smaller
<1>6. PICK h \in [Smaller(S, n) -> R] : FoldedUpTo(h, step, pick, base, S, n)
  BY <1>3
<1> QED BY ZenonT(30), <1>5, <1>6 DEF Folded, FoldedUpTo

\* h takes the steps of a fold, as far as its results are of their type.
FoldsBy(h, step, pick, base, R, S) ==
  /\ IsFiniteSet(S) /\ base \in R /\ step \in [S \X R -> R]
  /\ \A s \in SUBSET S : s # {} => pick[s] \in s
  /\ h[{}] = base
  /\ \A s \in SUBSET S : s # {} /\ h[s \ {pick[s]}] \in R
                            => h[s] = step[<<pick[s], h[s \ {pick[s]}]>>]

\* And then they all are.
LEMMA FoldsTyped ==
  ASSUME NEW S, NEW R, NEW base, NEW step, NEW pick, NEW h, FoldsBy(h, step, pick, base, R, S)
  PROVE  \A s \in SUBSET S : h[s] \in R
<1> USE DEF FoldsBy
<1> DEFINE Bad == {s \in SUBSET S : h[s] \notin R}
<1>1. SUFFICES ASSUME Bad # {} PROVE FALSE
  OBVIOUS
<1>2. \A s \in Bad : IsFiniteSet(s)
  BY FS_Subset
<1>3. PICK s \in Bad : \A x \in s : s \ {x} \notin Bad
  BY <1>1, <1>2, LeastSet
<1>4. s # {} /\ s \in SUBSET S
  OBVIOUS
<1>5. s \ {pick[s]} \in SUBSET S /\ s \ {pick[s]} \notin Bad /\ pick[s] \in S
  BY <1>3, <1>4
<1>6. h[s \ {pick[s]}] \in R
  BY <1>5
<1>7. h[s] = step[<<pick[s], h[s \ {pick[s]}]>>]
  BY <1>4, <1>6
<1> QED BY <1>5, <1>6, <1>7
=============================================================================
