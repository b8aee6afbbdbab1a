-------------------------- MODULE ApplicationProofs -------------------------
(***************************************************************************)
(* Theorems about Application.tla: what the parser makes of any command    *)
(* line, what start() makes of that, and how a control event meets the end *)
(* of main().                                                              *)
(***************************************************************************)
EXTENDS Application, WellFoundedInduction, FiniteSetTheorems, TLAPS

-----------------------------------------------------------------------------
(* Sequences that are written as functions.                                *)
LEMMA FunctionIsSequence ==
  ASSUME NEW m \in Nat, NEW f, f = [r \in 1..m |-> f[r]]
  PROVE  /\ f \in Seq({f[r] : r \in 1..m})
         /\ Len(f) = m
<1>1. f \in [1..m -> {f[r] : r \in 1..m}]
  OBVIOUS
<1>2. QED  BY <1>1

LEMMA AppendedFunction ==
  ASSUME NEW m \in Nat, NEW f, f = [r \in 1..m |-> f[r]], NEW x
  PROVE  /\ Append(f, x) = [r \in 1..(m + 1) |-> IF r = m + 1 THEN x ELSE f[r]]
         /\ f \o <<x>> = [r \in 1..(m + 1) |-> IF r = m + 1 THEN x ELSE f[r]]
         /\ f \o <<>> = f
<1>1. f \in Seq({f[r] : r \in 1..m}) /\ Len(f) = m
  BY FunctionIsSequence
<1> DEFINE V == {f[r] : r \in 1..m} \cup {x}
<1>2. f \in Seq(V)
  BY <1>1
<1>3. x \in V
  OBVIOUS
<1> HIDE DEF V
<1>4. Append(f, x) = [r \in 1..(m + 1) |-> IF r = m + 1 THEN x ELSE f[r]]
  BY <1>1, <1>2, <1>3
<1>5. f \o <<x>> = Append(f, x)
  BY <1>2, <1>3
<1>6. f \o <<>> = f
  BY <1>2
<1>7. QED  BY <1>4, <1>5, <1>6

-----------------------------------------------------------------------------
(* Min and Max of CmdLineConfig.tla and Application.tla.                   *)
LEMMA MinOfTwo ==
  ASSUME NEW a \in Nat, NEW b \in Nat
  PROVE  Min({a, b}) = IF a <= b THEN a ELSE b
<1> DEFINE m == IF a <= b THEN a ELSE b
<1>1. m \in {a, b} /\ \A y \in {a, b} : m <= y
  OBVIOUS
<1>2. \A x \in {a, b} : (\A y \in {a, b} : x <= y) => x = m
  OBVIOUS
<1> HIDE DEF m
<1>3. Min({a, b}) = m
  BY <1>1, <1>2 DEF Min
<1>4. QED  BY <1>3 DEF m

LEMMA MaxIsLast ==
  ASSUME NEW S \in SUBSET Nat, NEW k \in Nat, \A j \in S : j < k
  PROVE  Max(S \cup {k}) = k
<1>1. k \in S \cup {k} /\ \A y \in S \cup {k} : k >= y
  OBVIOUS
<1>2. \A x \in S \cup {k} : (\A y \in S \cup {k} : x >= y) => x = k
  OBVIOUS
<1>3. QED  BY <1>1, <1>2 DEF Max

-----------------------------------------------------------------------------
(* InOrderOf of CmdLineConfig.tla: a position above all others comes last. *)
Rank(S, k) == Cardinality({j \in S : j <= k})

LEMMA InOrderOfNone == InOrderOf({}) = <<>> /\ Cardinality({}) = 0
<1>1. Cardinality({}) = 0
  BY FS_EmptySet
<1>2. QED  BY <1>1 DEF InOrderOf

LEMMA InOrderOfMore ==
  ASSUME NEW S \in SUBSET Nat, IsFiniteSet(S), NEW k \in Nat, \A j \in S : j < k
  PROVE  /\ IsFiniteSet(S \cup {k})
         /\ Cardinality(S) \in Nat
         /\ Cardinality(S \cup {k}) = Cardinality(S) + 1
         /\ InOrderOf(S \cup {k}) =
              [r \in 1..(Cardinality(S) + 1) |-> IF r = Cardinality(S) + 1 THEN k
                                                 ELSE InOrderOf(S)[r]]
<1> DEFINE T == S \cup {k}
           n == Cardinality(S)
<1>1. n \in Nat
  BY FS_CardinalityType
<1>2. IsFiniteSet(T) /\ Cardinality(T) = n + 1
  <2>1. k \notin S
    OBVIOUS
  <2>2. QED  BY <2>1, FS_AddElement
<1>3. \A x \in S : Rank(T, x) = Rank(S, x)
  <2> TAKE x \in S
  <2>1. {j \in T : j <= x} = {j \in S : j <= x}
    OBVIOUS
  <2>2. QED  BY <2>1 DEF Rank
<1>4. Rank(T, k) = n + 1
  <2>0. \A j \in T : j <= k
    OBVIOUS
  <2>1. {j \in T : j <= k} = T
    BY ONLY <2>0
  <2>2. QED  BY <2>1, <1>2 DEF Rank
<1>5. \A x \in S : Rank(S, x) <= n
  <2> TAKE x \in S
  <2>1. {j \in S : j <= x} \in SUBSET S
    OBVIOUS
  <2>2. QED  BY <2>1, FS_Subset DEF Rank
<1>6. ASSUME NEW r \in 1..n
      PROVE  (CHOOSE x \in T : Rank(T, x) = r) = (CHOOSE x \in S : Rank(S, x) = r)
  <2>1. Rank(T, k) # r
    BY <1>1, <1>4
  <2>2. \A x : (x \in T /\ Rank(T, x) = r) <=> (x \in S /\ Rank(S, x) = r)
    BY ONLY <2>1, <1>3, Zenon
  <2>3. QED  BY ONLY <2>2
<1>7. (CHOOSE x \in T : Rank(T, x) = n + 1) = k
  <2>1. \A x \in S : Rank(T, x) # n + 1
    <3> TAKE x \in S
    <3>1. Rank(T, x) = Rank(S, x) /\ Rank(S, x) <= n
      BY <1>3, <1>5
    <3>2. QED  BY <3>1, <1>1
  <2>2. \A x \in T : Rank(T, x) = n + 1 <=> x = k
    BY <1>4, <2>1
  <2>3. k \in T
    OBVIOUS
  <2>4. QED  BY ONLY <2>2, <2>3
<1>8. InOrderOf(T) = [r \in 1..(n + 1) |-> CHOOSE x \in T : Rank(T, x) = r]
  BY <1>2 DEF InOrderOf, Rank
<1>9. InOrderOf(S) = [r \in 1..n |-> CHOOSE x \in S : Rank(S, x) = r]
  BY DEF InOrderOf, Rank
<1> HIDE DEF T, n
<1>10. InOrderOf(T) = [r \in 1..(n + 1) |-> IF r = n + 1 THEN k ELSE InOrderOf(S)[r]]
  <2>1. ASSUME NEW r \in 1..(n + 1)
        PROVE  (CHOOSE x \in T : Rank(T, x) = r) = IF r = n + 1 THEN k ELSE InOrderOf(S)[r]
    <3>1. CASE r = n + 1
      BY <3>1, <1>7
    <3>2. CASE r # n + 1
      <4>1. r \in 1..n
        BY <3>2, <1>1
      <4>2. InOrderOf(S)[r] = (CHOOSE x \in S : Rank(S, x) = r)
        BY <4>1, <1>9
      <4>3. QED  BY <4>1, <4>2, <3>2, <1>6
    <3>3. QED  BY <3>1, <3>2
  <2>2. QED  BY <2>1, <1>8, Zenon
<1>11. QED  BY <1>1, <1>2, <1>10 DEF T, n

-----------------------------------------------------------------------------
(* The options in force of a command line A: the recursive function of     *)
(* CmdLineConfig.tla is defined, by the least position for which it were   *)
(* not.                                                                    *)
IsInForce(A, f, k) ==
  /\ k > 1 => ~f[k - 1]
  /\ \/ A[k] \in {<<"-io">>, <<"-connect">>}
     \/ A[k] \in IOOnly /\ \E j \in 1..(k - 2) : f[j] /\ A[j] = <<"-io">>

InForceOf(A) == CHOOSE f : f = [k \in 1..Len(A) |-> IsInForce(A, f, k)]

LessThan == {ss \in Nat \X Nat : ss[1] < ss[2]}

LEMMA LessThanWellFounded == IsWellFoundedOn(LessThan, Nat)
  BY Zenon, NatLessThanWellFounded DEF OpToRel, LessThan

LEMMA LeastOf ==
  ASSUME NEW T \in SUBSET Nat, T # {}
  PROVE  \E n \in T : \A j \in T : n <= j
<1>1. PICK n \in T : \A j \in T : <<j, n>> \notin LessThan
  BY LessThanWellFounded, WFMin
<1>2. ASSUME NEW j \in T PROVE n <= j
  <2>1. j \in Nat /\ n \in Nat
    OBVIOUS
  <2>2. j < n => <<j, n>> \in LessThan
    BY <2>1 DEF LessThan
  <2>3. QED  BY <1>1, <2>1, <2>2
<1>3. QED  BY <1>2

LEMMA InForceExists ==
  ASSUME NEW A, NEW m \in Nat
  PROVE  \E f \in [1..m -> BOOLEAN] : \A k \in 1..m : f[k] <=> IsInForce(A, f, k)
<1> DEFINE Exists(n) == \E f \in [1..n -> BOOLEAN] : \A k \in 1..n : f[k] <=> IsInForce(A, f, k)
           Without == {n \in Nat : ~Exists(n)}
<1>1. ASSUME NEW n \in Without, \A j \in Without : n <= j
      PROVE  FALSE
  <2>1. n # 0
    <3>1. [k \in 1..0 |-> TRUE] \in [1..0 -> BOOLEAN]
      OBVIOUS
    <3>2. 1..0 = {}
      OBVIOUS
    <3>3. Exists(0)
      BY ONLY <3>1, <3>2
    <3>4. QED  BY <3>3
  <2>2. n - 1 \in Nat /\ Exists(n - 1)
    <3>1. n \in Nat /\ n - 1 \in Nat /\ ~(n <= n - 1)
      BY <2>1
    <3>2. n - 1 \notin Without
      BY <1>1, <3>1
    <3>3. QED  BY <3>1, <3>2
  <2>3. PICK g \in [1..(n - 1) -> BOOLEAN] : \A k \in 1..(n - 1) : g[k] <=> IsInForce(A, g, k)
    BY <2>2
  <2> DEFINE last == IsInForce(A, g, n)
             f == [k \in 1..n |-> IF k = n THEN last ELSE g[k]]
  <2>4. last \in BOOLEAN
    BY DEF IsInForce
  <2> HIDE DEF last
  <2>5. f \in [1..n -> BOOLEAN] /\ f[n] = last /\ \A k \in 1..(n - 1) : f[k] = g[k]
    BY <2>1, <2>2, <2>4
  <2> HIDE DEF f
  <2>6. ASSUME NEW k \in 1..n
        PROVE  IsInForce(A, f, k) <=> IsInForce(A, g, k)
    <3>1. k > 1 => f[k - 1] = g[k - 1]
      BY <2>5
    <3>2. \A j \in 1..(k - 2) : f[j] = g[j]
      BY <2>5
    <3>3. QED  BY ONLY <3>1, <3>2 DEF IsInForce
  <2>7. ASSUME NEW k \in 1..n
        PROVE  f[k] <=> IsInForce(A, f, k)
    <3>1. CASE k = n
      BY <3>1, <2>5, <2>6 DEF last
    <3>2. CASE k # n
      <4>1. k \in 1..(n - 1)
        BY <3>2
      <4>2. f[k] = g[k] /\ (g[k] <=> IsInForce(A, g, k))
        BY <4>1, <2>3, <2>5
      <4>3. QED  BY <4>2, <2>6
    <3>3. QED  BY <3>1, <3>2
  <2>8. Exists(n)
    BY <2>5, <2>7
  <2>9. QED  BY <2>8
<1>2. Without = {}
  BY <1>1, LeastOf
<1>3. QED  BY <1>2

LEMMA InForceDefined ==
  ASSUME NEW A, Len(A) \in Nat
  PROVE  /\ InForceOf(A) \in [1..Len(A) -> BOOLEAN]
         /\ \A k \in 1..Len(A) : InForceOf(A)[k] <=> IsInForce(A, InForceOf(A), k)
<1>1. PICK f \in [1..Len(A) -> BOOLEAN] : \A k \in 1..Len(A) : f[k] <=> IsInForce(A, f, k)
  BY InForceExists
<1>2. f = [k \in 1..Len(A) |-> IsInForce(A, f, k)]
  <2>1. \A k \in 1..Len(A) : IsInForce(A, f, k) \in BOOLEAN
    BY DEF IsInForce
  <2>2. \A k \in 1..Len(A) : f[k] = IsInForce(A, f, k)
    BY <1>1, <2>1
  <2>3. QED  BY <2>2
<1>3. \E g : g = [k \in 1..Len(A) |-> IsInForce(A, g, k)]
  BY <1>2
<1>4. InForceOf(A) = [k \in 1..Len(A) |-> IsInForce(A, InForceOf(A), k)]
  BY <1>3, Zenon DEF InForceOf
<1>5. \A k \in 1..Len(A) : IsInForce(A, InForceOf(A), k) \in BOOLEAN
  BY DEF IsInForce
<1> DEFINE h == InForceOf(A)
<1> HIDE DEF h
<1>6. h = [k \in 1..Len(A) |-> IsInForce(A, h, k)] /\ \A k \in 1..Len(A) : IsInForce(A, h, k) \in BOOLEAN
  BY <1>4, <1>5 DEF h
<1>7. h \in [1..Len(A) -> BOOLEAN] /\ \A k \in 1..Len(A) : h[k] <=> IsInForce(A, h, k)
  BY <1>6
<1>8. QED  BY <1>7 DEF h

LEMMA InForceOfArguments == InForce = InForceOf(arguments)
  BY Zenon DEF InForce, InForceOf, IsInForce

-----------------------------------------------------------------------------
(* What the first n arguments of A say: ValuesOf and WrittenIOs of         *)
(* CmdLineConfig.tla, by the positions P of the IOs, N of the names and Q  *)
(* of the parameters.                                                      *)
ValuesIn(A, options, n) ==
  {k \in 2..Len(A) : k <= n /\ InForceOf(A)[k - 1] /\ A[k - 1] \in options}

Own(P, S, k) == {j \in S : j > k /\ \A l \in P : l > k => j < l}

IOFrom(A, P, N, Q, k) ==
  [type       |-> A[k],
   id         |-> IF Own(P, N, k) = {} THEN <<>> ELSE A[Max(Own(P, N, k))],
   parameters |-> [j \in 1..Cardinality(Own(P, Q, k)) |->
                     Parameter(A[InOrderOf(Own(P, Q, k))[j]])]]

Described(A, P, N, Q) == [r \in 1..Cardinality(P) |-> IOFrom(A, P, N, Q, InOrderOf(P)[r])]

LEMMA RecordOfIO ==
  ASSUME NEW A, NEW P, NEW N, NEW Q, NEW k
  PROVE  IOFrom(A, P, N, Q, k) = [type       |-> A[k],
                                  id         |-> IOFrom(A, P, N, Q, k).id,
                                  parameters |-> IOFrom(A, P, N, Q, k).parameters]
  BY DEF IOFrom

(* The positions of a set, and which of them is the last.                  *)
Ordered(P) ==
  \A r \in 1..Cardinality(P) :
    /\ InOrderOf(P)[r] \in P
    /\ r < Cardinality(P) => \E l \in P : l > InOrderOf(P)[r]
    /\ r = Cardinality(P) => \A l \in P : l <= InOrderOf(P)[r]

LEMMA OrderedNone == Ordered({})
<1>1. Cardinality({}) = 0
  BY FS_EmptySet
<1>2. QED  BY <1>1 DEF Ordered

LEMMA OrderedMore ==
  ASSUME NEW P \in SUBSET Nat, IsFiniteSet(P), Ordered(P),
         NEW k \in Nat, \A j \in P : j < k
  PROVE  Ordered(P \cup {k})
<1> DEFINE n == Cardinality(P)
           pos == InOrderOf(P)
           new == InOrderOf(P \cup {k})
<1>1. /\ n \in Nat
      /\ Cardinality(P \cup {k}) = n + 1
      /\ new = [r \in 1..(n + 1) |-> IF r = n + 1 THEN k ELSE pos[r]]
  BY InOrderOfMore
<1>2. \A r \in 1..n : pos[r] \in P
  BY DEF Ordered
<1> HIDE DEF n, pos, new
<1>3. ASSUME NEW r \in 1..(n + 1)
      PROVE  /\ new[r] \in P \cup {k}
             /\ r < n + 1 => \E l \in P \cup {k} : l > new[r]
             /\ r = n + 1 => \A l \in P \cup {k} : l <= new[r]
  <2>1. CASE r = n + 1
    <3>1. new[r] = k
      BY <2>1, <1>1
    <3>2. \A l \in P \cup {k} : l <= k
      OBVIOUS
    <3>3. QED  BY <3>1, <3>2, <2>1, <1>1
  <2>2. CASE r # n + 1
    <3>1. r \in 1..n /\ new[r] = pos[r]
      BY <2>2, <1>1
    <3>2. new[r] \in P
      BY <3>1, <1>2
    <3>3. k > new[r]
      BY <3>2
    <3>4. QED  BY <3>2, <3>3, <2>2
  <2>3. QED  BY <2>1, <2>2
<1>4. QED  BY <1>1, <1>3 DEF Ordered, new

LEMMA OwnClosed ==
  ASSUME NEW P \in SUBSET Nat, NEW S \in SUBSET Nat, NEW k \in Nat, NEW x \in P,
         \A j \in P : j < k, \E l \in P : l > x
  PROVE  Own(P, S \cup {k}, x) = Own(P, S, x)
<1>1. PICK l \in P : l > x
  OBVIOUS
<1>2. ~(k < l)
  OBVIOUS
<1>3. QED  BY <1>1, <1>2 DEF Own

LEMMA OwnOpen ==
  ASSUME NEW P \in SUBSET Nat, NEW S \in SUBSET Nat, NEW k \in Nat, NEW x \in P,
         \A j \in P : j < k, \A l \in P : l <= x
  PROVE  Own(P, S \cup {k}, x) = Own(P, S, x) \cup {k}
<1>1. k > x /\ \A l \in P : ~(l > x)
  OBVIOUS
<1>2. QED  BY ONLY <1>1 DEF Own

LEMMA OwnBefore ==
  ASSUME NEW P \in SUBSET Nat, NEW S \in SUBSET Nat, NEW k \in Nat, NEW x \in P,
         \A j \in S : j < k
  PROVE  Own(P \cup {k}, S, x) = Own(P, S, x)
  BY DEF Own

LEMMA OwnOfNew ==
  ASSUME NEW P, NEW S \in SUBSET Nat, NEW k \in Nat, \A j \in S : j < k
  PROVE  Own(P, S, k) = {}
<1>1. \A j \in S : ~(j > k)
  OBVIOUS
<1>2. QED  BY ONLY <1>1 DEF Own

LEMMA OwnIsPart ==
  ASSUME NEW P, NEW S \in SUBSET Nat, IsFiniteSet(S), NEW x
  PROVE  Own(P, S, x) \in SUBSET S /\ Own(P, S, x) \in SUBSET Nat /\ IsFiniteSet(Own(P, S, x))
<1>1. Own(P, S, x) \in SUBSET S
  BY DEF Own
<1>2. QED  BY <1>1, FS_Subset

(* An -io, a name and a parameter add to the description what they should. *)
LEMMA DescribedMore ==
  ASSUME NEW A, NEW P \in SUBSET Nat, NEW N \in SUBSET Nat, NEW Q \in SUBSET Nat,
         IsFiniteSet(P), Ordered(P), NEW k \in Nat,
         \A j \in P : j < k, \A j \in N : j < k, \A j \in Q : j < k
  PROVE  /\ Cardinality(P) \in Nat
         /\ Described(A, P \cup {k}, N, Q) =
              [r \in 1..(Cardinality(P) + 1) |->
                 IF r = Cardinality(P) + 1 THEN [type |-> A[k], id |-> <<>>, parameters |-> <<>>]
                 ELSE Described(A, P, N, Q)[r]]
<1> DEFINE n == Cardinality(P)
           pos == InOrderOf(P)
           new == InOrderOf(P \cup {k})
           fresh == [type |-> A[k], id |-> <<>>, parameters |-> <<>>]
<1>1. /\ n \in Nat
      /\ Cardinality(P \cup {k}) = n + 1
      /\ new = [r \in 1..(n + 1) |-> IF r = n + 1 THEN k ELSE pos[r]]
  BY InOrderOfMore
<1>2. \A r \in 1..n : pos[r] \in P
  BY DEF Ordered
<1>3. \A x \in P : IOFrom(A, P \cup {k}, N, Q, x) = IOFrom(A, P, N, Q, x)
  <2> TAKE x \in P
  <2>1. Own(P \cup {k}, N, x) = Own(P, N, x) /\ Own(P \cup {k}, Q, x) = Own(P, Q, x)
    BY OwnBefore
  <2>2. QED  BY <2>1 DEF IOFrom
<1>4. IOFrom(A, P \cup {k}, N, Q, k) = fresh
  <2>1. Own(P \cup {k}, N, k) = {} /\ Own(P \cup {k}, Q, k) = {}
    BY OwnOfNew
  <2>2. Cardinality({}) = 0
    BY FS_EmptySet
  <2>3. [j \in 1..0 |-> Parameter(A[InOrderOf({})[j]])] = <<>>
    OBVIOUS
  <2>4. QED  BY <2>1, <2>2, <2>3 DEF IOFrom
<1>5. \A r \in 1..n : Described(A, P, N, Q)[r] = IOFrom(A, P, N, Q, pos[r])
  BY DEF Described
<1>6. Described(A, P \cup {k}, N, Q)
        = [r \in 1..(n + 1) |-> IOFrom(A, P \cup {k}, N, Q, new[r])]
  BY <1>1 DEF Described
<1> HIDE DEF n, pos, new, fresh
<1>7. ASSUME NEW r \in 1..(n + 1)
      PROVE  IOFrom(A, P \cup {k}, N, Q, new[r])
               = IF r = n + 1 THEN fresh ELSE Described(A, P, N, Q)[r]
  <2>1. CASE r = n + 1
    <3>1. new[r] = k
      BY <2>1, <1>1
    <3>2. QED  BY <3>1, <1>4, <2>1
  <2>2. CASE r # n + 1
    <3>1. r \in 1..n /\ new[r] = pos[r]
      BY <2>2, <1>1
    <3>2. new[r] \in P
      BY <3>1, <1>2
    <3>3. IOFrom(A, P \cup {k}, N, Q, new[r]) = IOFrom(A, P, N, Q, pos[r])
      BY <3>1, <3>2, <1>3
    <3>4. QED  BY <3>1, <3>3, <1>5, <2>2
  <2>3. QED  BY <2>1, <2>2
<1>8. Described(A, P \cup {k}, N, Q)
        = [r \in 1..(n + 1) |-> IF r = n + 1 THEN fresh ELSE Described(A, P, N, Q)[r]]
  BY <1>6, <1>7, Zenon
<1>9. QED  BY <1>1, <1>8 DEF n, fresh

(* D with a name for the last of its n + 1 IOs.                            *)
LastNamed(D, n, name) ==
  [r \in 1..(n + 1) |-> IF r = n + 1 THEN [D[r] EXCEPT !.id = name] ELSE D[r]]

LEMMA DescribedNamed ==
  ASSUME NEW A, NEW P \in SUBSET Nat, NEW N \in SUBSET Nat, NEW Q \in SUBSET Nat,
         Ordered(P), NEW k \in Nat, NEW n \in Nat, Cardinality(P) = n + 1,
         \A j \in P : j < k, \A j \in N : j < k
  PROVE  Described(A, P, N \cup {k}, Q) = LastNamed(Described(A, P, N, Q), n, A[k])
<1> DEFINE pos == InOrderOf(P)
           D == Described(A, P, N, Q)
<1>1. \A r \in 1..(n + 1) :
        /\ pos[r] \in P
        /\ r < n + 1 => \E l \in P : l > pos[r]
        /\ r = n + 1 => \A l \in P : l <= pos[r]
  BY DEF Ordered
<1>2. D = [r \in 1..(n + 1) |-> IOFrom(A, P, N, Q, pos[r])]
  BY DEF Described
<1>3. Described(A, P, N \cup {k}, Q) = [r \in 1..(n + 1) |-> IOFrom(A, P, N \cup {k}, Q, pos[r])]
  BY DEF Described
<1> HIDE DEF pos, D
<1>4. ASSUME NEW r \in 1..(n + 1)
      PROVE  IOFrom(A, P, N \cup {k}, Q, pos[r])
               = IF r = n + 1 THEN [D[r] EXCEPT !.id = A[k]] ELSE D[r]
  <2>0. pos[r] \in P /\ D[r] = IOFrom(A, P, N, Q, pos[r])
    BY <1>1, <1>2
  <2>1. CASE r = n + 1
    <3>1. Own(P, N \cup {k}, pos[r]) = Own(P, N, pos[r]) \cup {k}
      <4>1. \A l \in P : l <= pos[r]
        BY <2>1, <1>1
      <4> DEFINE x == pos[r]
      <4> HIDE DEF x
      <4>2. x \in P /\ \A l \in P : l <= x
        BY <4>1, <2>0 DEF x
      <4>3. Own(P, N \cup {k}, x) = Own(P, N, x) \cup {k}
        BY <4>2, OwnOpen
      <4>4. QED  BY <4>3 DEF x
    <3>2. Max(Own(P, N, pos[r]) \cup {k}) = k
      <4>1. Own(P, N, pos[r]) \in SUBSET N
        BY DEF Own
      <4>2. Own(P, N, pos[r]) \in SUBSET Nat /\ \A j \in Own(P, N, pos[r]) : j < k
        BY <4>1
      <4>3. QED  BY <4>2, MaxIsLast
    <3>3. Own(P, N \cup {k}, pos[r]) # {} /\ Max(Own(P, N \cup {k}, pos[r])) = k
      BY <3>1, <3>2
    <3>4. /\ IOFrom(A, P, N \cup {k}, Q, pos[r]).id = A[k]
          /\ IOFrom(A, P, N \cup {k}, Q, pos[r]).parameters = IOFrom(A, P, N, Q, pos[r]).parameters
      BY ONLY <3>3 DEF IOFrom
    <3>5. IOFrom(A, P, N \cup {k}, Q, pos[r]) = [IOFrom(A, P, N, Q, pos[r]) EXCEPT !.id = A[k]]
      <4> DEFINE x == IOFrom(A, P, N \cup {k}, Q, pos[r])
                 y == IOFrom(A, P, N, Q, pos[r])
      <4>1. /\ x = [type |-> A[pos[r]], id |-> x.id, parameters |-> x.parameters]
            /\ y = [type |-> A[pos[r]], id |-> y.id, parameters |-> y.parameters]
        BY RecordOfIO, Zenon
      <4> HIDE DEF x, y
      <4>2. x.id = A[k] /\ x.parameters = y.parameters
        BY <3>4 DEF x, y
      <4>3. x = [y EXCEPT !.id = A[k]]
        BY ONLY <4>1, <4>2
      <4>4. QED  BY <4>3 DEF x, y
    <3>6. QED  BY <3>5, <2>0, <2>1
  <2>2. CASE r # n + 1
    <3>1. Own(P, N \cup {k}, pos[r]) = Own(P, N, pos[r])
      <4>1. r < n + 1
        BY <2>2
      <4>2. \E l \in P : l > pos[r]
        BY <4>1, <1>1
      <4> DEFINE x == pos[r]
      <4> HIDE DEF x
      <4>3. x \in P /\ \E l \in P : l > x
        BY <4>2, <2>0 DEF x
      <4>4. Own(P, N \cup {k}, x) = Own(P, N, x)
        BY <4>3, OwnClosed
      <4>5. QED  BY <4>4 DEF x
    <3>2. QED  BY <3>1, <2>0, <2>2 DEF IOFrom
  <2>3. QED  BY <2>1, <2>2
<1>5. QED  BY <1>3, <1>4, Zenon DEF D, LastNamed

(* E is D with one more parameter in the IO after the first n.             *)
Grown(D, E, n, parameter) ==
  /\ E[n + 1] = [D[n + 1] EXCEPT !.parameters = Append(D[n + 1].parameters, parameter)]
  /\ \A r \in 1..n : E[r] = D[r]

LEMMA DescribedParameter ==
  ASSUME NEW A, NEW P \in SUBSET Nat, NEW N \in SUBSET Nat, NEW Q \in SUBSET Nat,
         Ordered(P), NEW k \in Nat, NEW n \in Nat, Cardinality(P) = n + 1,
         IsFiniteSet(Q), \A j \in P : j < k, \A j \in Q : j < k
  PROVE  Grown(Described(A, P, N, Q), Described(A, P, N, Q \cup {k}), n, Parameter(A[k]))
<1> DEFINE pos == InOrderOf(P)
           D == Described(A, P, N, Q)
<1>1. \A r \in 1..(n + 1) :
        /\ pos[r] \in P
        /\ r < n + 1 => \E l \in P : l > pos[r]
        /\ r = n + 1 => \A l \in P : l <= pos[r]
  BY DEF Ordered
<1>2. D = [r \in 1..(n + 1) |-> IOFrom(A, P, N, Q, pos[r])]
  BY DEF Described
<1>3. Described(A, P, N, Q \cup {k}) = [r \in 1..(n + 1) |-> IOFrom(A, P, N, Q \cup {k}, pos[r])]
  BY DEF Described
<1> HIDE DEF pos, D
<1>4. ASSUME NEW r \in 1..(n + 1)
      PROVE  IOFrom(A, P, N, Q \cup {k}, pos[r])
               = IF r = n + 1 THEN [D[r] EXCEPT !.parameters = Append(D[r].parameters, Parameter(A[k]))]
                 ELSE D[r]
  <2>0. pos[r] \in P /\ D[r] = IOFrom(A, P, N, Q, pos[r])
    BY <1>1, <1>2
  <2>1. CASE r = n + 1
    <3> DEFINE own == Own(P, Q, pos[r])
               c == Cardinality(own)
               paras == [j \in 1..c |-> Parameter(A[InOrderOf(own)[j]])]
    <3>1. Own(P, Q \cup {k}, pos[r]) = own \cup {k}
      <4>1. \A l \in P : l <= pos[r]
        BY <2>1, <1>1
      <4> DEFINE x == pos[r]
      <4> HIDE DEF x
      <4>2. x \in P /\ \A l \in P : l <= x
        BY <4>1, <2>0 DEF x
      <4>3. Own(P, Q \cup {k}, x) = Own(P, Q, x) \cup {k}
        BY <4>2, OwnOpen
      <4>4. QED  BY <4>3 DEF x
    <3>2. own \in SUBSET Nat /\ IsFiniteSet(own) /\ own \in SUBSET Q
      BY OwnIsPart
    <3>3. \A j \in own : j < k
      BY <3>2
    <3> HIDE DEF own
    <3>4. /\ c \in Nat
          /\ Cardinality(own \cup {k}) = c + 1
          /\ InOrderOf(own \cup {k}) =
               [j \in 1..(c + 1) |-> IF j = c + 1 THEN k ELSE InOrderOf(own)[j]]
      BY <3>2, <3>3, InOrderOfMore
    <3> HIDE DEF c
    <3>5. paras = [j \in 1..c |-> paras[j]]
      OBVIOUS
    <3>6. Append(paras, Parameter(A[k]))
            = [j \in 1..(c + 1) |-> IF j = c + 1 THEN Parameter(A[k]) ELSE paras[j]]
      <4> HIDE DEF paras
      <4>1. QED  BY <3>4, <3>5, AppendedFunction
    <3>7. [j \in 1..(c + 1) |-> Parameter(A[InOrderOf(own \cup {k})[j]])]
            = Append(paras, Parameter(A[k]))
      <4>1. ASSUME NEW j \in 1..(c + 1)
            PROVE  Parameter(A[InOrderOf(own \cup {k})[j]])
                     = IF j = c + 1 THEN Parameter(A[k]) ELSE paras[j]
        <5>1. CASE j = c + 1
          BY <5>1, <3>4
        <5>2. CASE j # c + 1
          <6>1. j \in 1..c /\ InOrderOf(own \cup {k})[j] = InOrderOf(own)[j]
            BY <5>2, <3>4
          <6>2. QED  BY <6>1, <5>2
        <5>3. QED  BY <5>1, <5>2
      <4>2. QED  BY <4>1, <3>6, Zenon
    <3>8. /\ IOFrom(A, P, N, Q, pos[r]).parameters = paras
          /\ IOFrom(A, P, N, Q \cup {k}, pos[r]).parameters = Append(paras, Parameter(A[k]))
      BY <3>1, <3>4, <3>7 DEF IOFrom, own, c
    <3> HIDE DEF paras
    <3>9. IOFrom(A, P, N, Q \cup {k}, pos[r])
            = [IOFrom(A, P, N, Q, pos[r]) EXCEPT !.parameters = Append(@, Parameter(A[k]))]
      <4>1. /\ IOFrom(A, P, N, Q \cup {k}, pos[r]).id = IOFrom(A, P, N, Q, pos[r]).id
            /\ IOFrom(A, P, N, Q \cup {k}, pos[r]).parameters
                 = Append(IOFrom(A, P, N, Q, pos[r]).parameters, Parameter(A[k]))
        BY ONLY <3>8 DEF IOFrom
      <4> DEFINE x == IOFrom(A, P, N, Q \cup {k}, pos[r])
                 y == IOFrom(A, P, N, Q, pos[r])
      <4>2. /\ x = [type |-> A[pos[r]], id |-> x.id, parameters |-> x.parameters]
            /\ y = [type |-> A[pos[r]], id |-> y.id, parameters |-> y.parameters]
        BY RecordOfIO, Zenon
      <4> HIDE DEF x, y
      <4>3. x.id = y.id /\ x.parameters = Append(y.parameters, Parameter(A[k]))
        BY <4>1 DEF x, y
      <4>4. x = [y EXCEPT !.parameters = Append(@, Parameter(A[k]))]
        BY ONLY <4>2, <4>3
      <4>5. QED  BY <4>4 DEF x, y
    <3>10. QED  BY <3>9, <2>0, <2>1
  <2>2. CASE r # n + 1
    <3>1. Own(P, Q \cup {k}, pos[r]) = Own(P, Q, pos[r])
      <4>1. r < n + 1
        BY <2>2
      <4>2. \E l \in P : l > pos[r]
        BY <4>1, <1>1
      <4> DEFINE x == pos[r]
      <4> HIDE DEF x
      <4>3. x \in P /\ \E l \in P : l > x
        BY <4>2, <2>0 DEF x
      <4>4. Own(P, Q \cup {k}, x) = Own(P, Q, x)
        BY <4>3, OwnClosed
      <4>5. QED  BY <4>4 DEF x
    <3>2. QED  BY <3>1, <2>0, <2>2 DEF IOFrom
  <2>3. QED  BY <2>1, <2>2
<1>5. \A r \in 1..(n + 1) : Described(A, P, N, Q \cup {k})[r] = IOFrom(A, P, N, Q \cup {k}, pos[r])
  BY <1>3
<1>6. n + 1 \in 1..(n + 1) /\ \A r \in 1..n : r \in 1..(n + 1) /\ r # n + 1
  OBVIOUS
<1>7. QED  BY ONLY <1>4, <1>5, <1>6 DEF D, Grown

-----------------------------------------------------------------------------
(* One turn of the parser's loop, by the arguments it has handed out.      *)
At(A, i) == i \in 0..Len(A) /\ (i \in 1..(Len(A) - 1) => ~InForceOf(A)[i])

BadIn(A, n) ==
  \E k \in 1..n :
    /\ InForceOf(A)[k] /\ A[k] = <<"-connect">>
    /\ k = Len(A) \/ Len(Fields(A[k + 1])) # 2

LEMMA ValuesArePositions ==
  ASSUME NEW A, Len(A) \in Nat, NEW options, NEW n \in Nat
  PROVE  /\ ValuesIn(A, options, n) \in SUBSET Nat
         /\ IsFiniteSet(ValuesIn(A, options, n))
         /\ \A k \in ValuesIn(A, options, n) : k <= n
<1>1. ValuesIn(A, options, n) \in SUBSET (1..Len(A)) /\ ValuesIn(A, options, n) \in SUBSET Nat
  BY DEF ValuesIn
<1>2. IsFiniteSet(1..Len(A))
  BY FS_Interval
<1>3. IsFiniteSet(ValuesIn(A, options, n))
  BY <1>1, <1>2, FS_Subset
<1>4. \A k \in ValuesIn(A, options, n) : k <= n
  BY DEF ValuesIn
<1>5. QED  BY <1>1, <1>3, <1>4

LEMMA InForceNext ==
  ASSUME NEW A, Len(A) \in Nat, NEW i, At(A, i), i < Len(A)
  PROVE  InForceOf(A)[i + 1] <=>
           \/ A[i + 1] \in {<<"-io">>, <<"-connect">>}
           \/ A[i + 1] \in IOOnly /\ ValuesIn(A, {<<"-io">>}, i) # {}
<1> DEFINE F == InForceOf(A)
           V == ValuesIn(A, {<<"-io">>}, i)
<1>1. i \in Nat /\ i + 1 \in 1..Len(A) /\ (i + 1 > 1 => ~F[i])
  BY DEF At
<1>2. F[i + 1] <=> IsInForce(A, F, i + 1)
  BY <1>1, InForceDefined
<1>3. (i + 1) - 1 = i /\ (i + 1) - 2 = i - 1
  BY <1>1
<1>4. (\E j \in 1..(i - 1) : F[j] /\ A[j] = <<"-io">>) <=> V # {}
  <2>1. ASSUME NEW j \in 1..(i - 1), F[j], A[j] = <<"-io">>
        PROVE  V # {}
    <3>1. j + 1 \in 2..Len(A) /\ j + 1 <= i /\ (j + 1) - 1 = j
      BY <1>1
    <3>2. j + 1 \in V
      BY <2>1, <3>1 DEF ValuesIn
    <3>3. QED  BY <3>2
  <2>2. ASSUME NEW k \in V
        PROVE  \E j \in 1..(i - 1) : F[j] /\ A[j] = <<"-io">>
    <3>1. k \in 2..Len(A) /\ k <= i /\ F[k - 1] /\ A[k - 1] = <<"-io">>
      BY DEF ValuesIn
    <3>2. k - 1 \in 1..(i - 1)
      BY <1>1, <3>1
    <3>3. QED  BY <3>1, <3>2
  <2>3. QED  BY <2>1, <2>2
<1> HIDE DEF F, V
<1>5. IsInForce(A, F, i + 1) <=>
           \/ A[i + 1] \in {<<"-io">>, <<"-connect">>}
           \/ A[i + 1] \in IOOnly /\ \E j \in 1..(i - 1) : F[j] /\ A[j] = <<"-io">>
  BY <1>1, <1>3 DEF IsInForce
<1>6. QED  BY ONLY <1>2, <1>4, <1>5 DEF F, V

(* An argument that is no option in force is passed over.                  *)
LEMMA PassedOver ==
  ASSUME NEW A, Len(A) \in Nat, NEW i, At(A, i), i < Len(A), ~InForceOf(A)[i + 1]
  PROVE  /\ At(A, i + 1)
         /\ \A options : ValuesIn(A, options, i + 1) = ValuesIn(A, options, i)
         /\ BadIn(A, i + 1) <=> BadIn(A, i)
<1>1. i \in Nat /\ i + 1 \in 1..Len(A) /\ (i > 0 => ~InForceOf(A)[i])
  BY DEF At
<1>2. At(A, i + 1)
  BY <1>1 DEF At
<1>3. ASSUME NEW options
      PROVE  ValuesIn(A, options, i + 1) = ValuesIn(A, options, i)
  <2>1. ASSUME NEW k \in ValuesIn(A, options, i + 1)
        PROVE  k <= i
    <3>1. k \in 2..Len(A) /\ k <= i + 1 /\ InForceOf(A)[k - 1]
      BY DEF ValuesIn
    <3>2. k = i + 1 => k - 1 = i /\ i > 0
      BY <1>1, <3>1
    <3>3. QED  BY <1>1, <3>1, <3>2
  <2>2. \A k \in 2..Len(A) : k <= i => k <= i + 1
    BY <1>1
  <2>3. QED  BY ONLY <2>1, <2>2 DEF ValuesIn
<1>4. BadIn(A, i + 1) <=> BadIn(A, i)
  <2>1. \A k \in 1..(i + 1) : k \in 1..i \/ k = i + 1
    BY <1>1
  <2>2. \A k \in 1..i : k \in 1..(i + 1)
    BY <1>1
  <2>3. QED  BY ONLY <2>1, <2>2, ~InForceOf(A)[i + 1] DEF BadIn
<1>5. QED  BY <1>2, <1>3, <1>4

(* An option in force takes the argument after it, if there is one.        *)
LEMMA Taken ==
  ASSUME NEW A, Len(A) \in Nat, NEW i, At(A, i), i < Len(A), InForceOf(A)[i + 1],
         NEW n, n = Min({i + 2, Len(A)})
  PROVE  /\ At(A, n)
         /\ i \in Nat /\ n \in Nat
         /\ BadIn(A, n) <=>
              \/ BadIn(A, i)
              \/ /\ A[i + 1] = <<"-connect">>
                 /\ ~(i + 2 <= Len(A)) \/ Len(Fields(A[i + 2])) # 2
<1> DEFINE F == InForceOf(A)
<1>0. F[i + 1]
  OBVIOUS
<1>1. i \in Nat /\ i + 1 \in 1..Len(A) /\ (i > 0 => ~F[i])
  BY DEF At
<1>2. n = IF i + 2 <= Len(A) THEN i + 2 ELSE Len(A)
  BY <1>1, MinOfTwo
<1>3. ~(i + 2 <= Len(A)) => n = i + 1 /\ n = Len(A)
  BY <1>1, <1>2
<1>4. i + 2 <= Len(A) => ~F[i + 2]
  <2>1. ASSUME i + 2 <= Len(A)
        PROVE  ~F[i + 2]
    <3>1. i + 2 \in 1..Len(A) /\ i + 2 > 1 /\ (i + 2) - 1 = i + 1
      BY <1>1, <2>1
    <3>2. F[i + 2] <=> IsInForce(A, F, i + 2)
      BY <3>1, InForceDefined
    <3> HIDE DEF F
    <3>3. QED  BY <3>1, <3>2, <1>0 DEF IsInForce
  <2>2. QED  BY <2>1
<1>5. n \in Nat /\ At(A, n)
  <2>1. CASE i + 2 <= Len(A)
    BY <1>1, <1>2, <1>4, <2>1 DEF At
  <2>2. CASE ~(i + 2 <= Len(A))
    BY <1>1, <1>3, <2>2 DEF At
  <2>3. QED  BY <2>1, <2>2
<1>6. BadIn(A, n) <=>
         \/ BadIn(A, i)
         \/ /\ A[i + 1] = <<"-connect">>
            /\ ~(i + 2 <= Len(A)) \/ Len(Fields(A[i + 2])) # 2
  <2>1. \A k \in 1..i : k \in 1..n
    BY <1>1, <1>2, <1>3
  <2>2. i + 1 \in 1..n
    BY <1>1, <1>2, <1>3
  <2>3. \A k \in 1..n : k \in 1..i \/ k = i + 1 \/ (k = i + 2 /\ i + 2 <= Len(A))
    BY <1>1, <1>2, <1>3
  <2>4. i + 1 = Len(A) <=> ~(i + 2 <= Len(A))
    BY <1>1
  <2>5. (i + 1) + 1 = i + 2
    BY <1>1
  <2>6. BadIn(A, n) <=> \/ BadIn(A, i)
                        \/ /\ F[i + 1] /\ A[i + 1] = <<"-connect">>
                           /\ i + 1 = Len(A) \/ Len(Fields(A[(i + 1) + 1])) # 2
    BY ONLY <2>1, <2>2, <2>3, <1>4 DEF BadIn
  <2>7. QED  BY <2>4, <2>5, <2>6
<1>7. QED  BY <1>1, <1>5, <1>6

LEMMA TakenValues ==
  ASSUME NEW A, Len(A) \in Nat, NEW i, At(A, i), i < Len(A), InForceOf(A)[i + 1],
         NEW n, n = Min({i + 2, Len(A)}), NEW options
  PROVE  /\ i + 2 <= Len(A) /\ A[i + 1] \in options
              => ValuesIn(A, options, n) = ValuesIn(A, options, i) \cup {i + 2}
         /\ i + 2 <= Len(A) /\ A[i + 1] \notin options
              => ValuesIn(A, options, n) = ValuesIn(A, options, i)
         /\ ~(i + 2 <= Len(A)) => n = Len(A) /\ ValuesIn(A, options, n) = ValuesIn(A, options, i)
<1> DEFINE F == InForceOf(A)
<1>0. F[i + 1]
  OBVIOUS
<1>1. i \in Nat /\ i + 1 \in 1..Len(A) /\ (i > 0 => ~F[i])
  BY DEF At
<1>2. n = IF i + 2 <= Len(A) THEN i + 2 ELSE Len(A)
  BY <1>1, MinOfTwo
<1>3. ~(i + 2 <= Len(A)) => n = i + 1 /\ n = Len(A)
  BY <1>1, <1>2
<1>4. ASSUME NEW k \in 2..Len(A), k <= n, F[k - 1], A[k - 1] \in options
      PROVE  k <= i \/ (k = i + 2 /\ A[i + 1] \in options)
  <2>1. k <= i \/ k = i + 1 \/ k = i + 2
    BY <1>1, <1>2, <1>3, <1>4
  <2>2. k # i + 1
    <3>1. k = i + 1 => k - 1 = i /\ i > 0
      BY <1>1
    <3>2. QED  BY <3>1, <1>1, <1>4
  <2>3. k = i + 2 => k - 1 = i + 1
    BY <1>1
  <2>4. QED  BY <2>1, <2>2, <2>3, <1>4
<1>5. \A k \in 2..Len(A) : k <= i => k <= n
  BY <1>1, <1>2, <1>3
<1>6. ASSUME i + 2 <= Len(A)
      PROVE  ValuesIn(A, options, n) = IF A[i + 1] \in options THEN ValuesIn(A, options, i) \cup {i + 2}
                                       ELSE ValuesIn(A, options, i)
  <2>1. i + 2 \in 2..Len(A) /\ i + 2 <= n /\ (i + 2) - 1 = i + 1
    BY <1>1, <1>2, <1>6
  <2>2. CASE A[i + 1] \in options
    <3>1. i + 2 \in ValuesIn(A, options, n)
      BY <2>1, <2>2 DEF ValuesIn
    <3>2. \A k \in ValuesIn(A, options, n) : k \in ValuesIn(A, options, i) \/ k = i + 2
      BY <1>4 DEF ValuesIn
    <3>3. \A k \in ValuesIn(A, options, i) : k \in ValuesIn(A, options, n)
      BY <1>5 DEF ValuesIn
    <3>4. QED  BY ONLY <3>1, <3>2, <3>3, <2>2
  <2>3. CASE A[i + 1] \notin options
    <3>1. \A k \in ValuesIn(A, options, n) : k \in ValuesIn(A, options, i)
      BY <1>4, <2>3 DEF ValuesIn
    <3>2. \A k \in ValuesIn(A, options, i) : k \in ValuesIn(A, options, n)
      BY <1>5 DEF ValuesIn
    <3>3. QED  BY ONLY <3>1, <3>2, <2>3
  <2>4. QED  BY <2>2, <2>3
<1>7. ASSUME ~(i + 2 <= Len(A))
      PROVE  ValuesIn(A, options, n) = ValuesIn(A, options, i)
  <2>1. \A k \in 2..Len(A) : k # i + 2
    BY <1>1, <1>7
  <2>2. \A k \in ValuesIn(A, options, n) : k \in ValuesIn(A, options, i)
    BY <1>4, <2>1 DEF ValuesIn
  <2>3. \A k \in ValuesIn(A, options, i) : k \in ValuesIn(A, options, n)
    BY <1>5 DEF ValuesIn
  <2>4. QED  BY ONLY <2>2, <2>3
<1>8. QED  BY <1>3, <1>6, <1>7

-----------------------------------------------------------------------------
(* The parser has understood what it has been handed out: the IOs so far,  *)
(* the last of them still open to names and parameters; the connections;   *)
(* and whether any of them was bad.                                        *)
IOsSoFar(D, m, c, ios) ==
  \/ c = <<>> /\ ios = D
  \/ \E n \in Nat : m = n + 1 /\ ios = [r \in 1..n |-> D[r]] /\ c = <<D[n + 1]>>

Pairs(A, C) == [j \in 1..Cardinality(C) |-> Connection(A[InOrderOf(C)[j]])]

Names      == {<<"-name">>, <<"-id">>}
IOValues(A, i)      == ValuesIn(A, {<<"-io">>}, i)
NameValues(A, i)    == ValuesIn(A, Names, i)
ParaValues(A, i)    == ValuesIn(A, {<<"-p">>}, i)
ConnectValues(A, i) == ValuesIn(A, {<<"-connect">>}, i)

DescribedAt(A, i) == Described(A, IOValues(A, i), NameValues(A, i), ParaValues(A, i))

Parsed(A, i, c, ios, conns, p) ==
  /\ At(A, i)
  /\ Ordered(IOValues(A, i))
  /\ IOsSoFar(DescribedAt(A, i), Cardinality(IOValues(A, i)), c, ios)
  /\ c = <<>> => IOValues(A, i) = {} \/ i = Len(A)
  /\ p \in {"running", "done", "error"}
  /\ p # "error" => conns = Pairs(A, ConnectValues(A, i))
  /\ p = "error" <=> BadIn(A, i)
  /\ p = "done" => i = Len(A) /\ c = <<>>

LEMMA OptionsDiffer ==
  /\ <<"-io">> \notin Names /\ <<"-io">> # <<"-p">> /\ <<"-io">> # <<"-connect">>
  /\ <<"-connect">> \notin Names /\ <<"-connect">> # <<"-p">>
  /\ <<"-p">> \notin Names
  /\ \A x : x \in IOOnly <=> x \in Names \/ x = <<"-p">>
  BY DEF Names, IOOnly

(* Keeping the IO that was open closes the list.                           *)
LEMMA Closed ==
  ASSUME NEW m \in Nat, NEW D, D = [r \in 1..m |-> D[r]], NEW c, NEW ios, IOsSoFar(D, m, c, ios)
  PROVE  ios \o c = D
<1>1. CASE c = <<>> /\ ios = D
  BY <1>1, AppendedFunction
<1>2. ASSUME NEW n \in Nat, m = n + 1, ios = [r \in 1..n |-> D[r]], c = <<D[n + 1]>>
      PROVE  ios \o c = D
  <2> DEFINE x == D[n + 1]
  <2>1. ios = [r \in 1..n |-> ios[r]]
    BY <1>2
  <2> HIDE DEF x
  <2>2. ios \o <<x>> = [r \in 1..(n + 1) |-> IF r = n + 1 THEN x ELSE ios[r]]
    BY <2>1, AppendedFunction
  <2>3. \A r \in 1..(n + 1) : D[r] = IF r = n + 1 THEN x ELSE ios[r]
    BY <1>2 DEF x
  <2>4. ios \o <<x>> = D
    BY <2>2, <2>3, <1>2
  <2>5. QED  BY <2>4, <1>2 DEF x
<1>3. QED  BY <1>1, <1>2 DEF IOsSoFar

LEMMA PairsMore ==
  ASSUME NEW A, NEW C \in SUBSET Nat, IsFiniteSet(C), NEW k \in Nat, \A j \in C : j < k
  PROVE  Pairs(A, C \cup {k}) = Append(Pairs(A, C), Connection(A[k]))
<1> DEFINE n == Cardinality(C)
           old == InOrderOf(C)
           new == InOrderOf(C \cup {k})
           pairs == Pairs(A, C)
<1>1. n \in Nat /\ new = [r \in 1..(n + 1) |-> IF r = n + 1 THEN k ELSE old[r]]
  BY InOrderOfMore
<1>2. Pairs(A, C \cup {k}) = [j \in 1..(n + 1) |-> Connection(A[new[j]])]
  BY InOrderOfMore DEF Pairs
<1>3. pairs = [j \in 1..n |-> Connection(A[old[j]])]
  BY DEF Pairs
<1> HIDE DEF n, old, new, pairs
<1>4. pairs = [j \in 1..n |-> pairs[j]]
  BY <1>3
<1>5. Append(pairs, Connection(A[k]))
        = [j \in 1..(n + 1) |-> IF j = n + 1 THEN Connection(A[k]) ELSE pairs[j]]
  BY <1>1, <1>4, AppendedFunction
<1>6. ASSUME NEW j \in 1..(n + 1)
      PROVE  Connection(A[new[j]]) = IF j = n + 1 THEN Connection(A[k]) ELSE pairs[j]
  <2>1. CASE j = n + 1
    BY <1>1, <2>1
  <2>2. CASE j # n + 1
    <3>1. j \in 1..n /\ new[j] = old[j]
      BY <1>1, <2>2
    <3>2. QED  BY <3>1, <2>2, <1>3
  <2>3. QED  BY <2>1, <2>2
<1>7. QED  BY <1>2, <1>5, <1>6, Zenon DEF pairs

(* The positions of the four kinds of values are sets of numbers.          *)
LEMMA PositionsUpTo ==
  ASSUME NEW A, Len(A) \in Nat, NEW i \in Nat
  PROVE  /\ \A S \in {IOValues(A, i), NameValues(A, i), ParaValues(A, i), ConnectValues(A, i)} :
              S \in SUBSET Nat /\ IsFiniteSet(S) /\ \A j \in S : j < i + 2
         /\ Cardinality(IOValues(A, i)) \in Nat
         /\ DescribedAt(A, i) = [r \in 1..Cardinality(IOValues(A, i)) |-> DescribedAt(A, i)[r]]
<1>1. ASSUME NEW S \in {IOValues(A, i), NameValues(A, i), ParaValues(A, i), ConnectValues(A, i)}
      PROVE  S \in SUBSET Nat /\ IsFiniteSet(S) /\ \A j \in S : j < i + 2
  <2>1. PICK options : S = ValuesIn(A, options, i)
    BY DEF IOValues, NameValues, ParaValues, ConnectValues
  <2>2. S \in SUBSET Nat /\ IsFiniteSet(S) /\ \A j \in S : j <= i
    BY <2>1, ValuesArePositions
  <2>3. \A j \in S : j < i + 2
    BY <2>2
  <2>4. QED  BY <2>2, <2>3
<1>2. Cardinality(IOValues(A, i)) \in Nat
  BY <1>1, FS_CardinalityType
<1>3. DescribedAt(A, i) = [r \in 1..Cardinality(IOValues(A, i)) |-> DescribedAt(A, i)[r]]
  BY DEF DescribedAt, Described
<1>4. QED  BY <1>1, <1>2, <1>3

(* The first argument is handed out next.                                  *)
LEMMA ParsedFirst ==
  ASSUME NEW A, Len(A) \in Nat
  PROVE  Parsed(A, 0, <<>>, <<>>, <<>>, "running")
<1>1. At(A, 0)
  BY DEF At
<1>2. \A options : ValuesIn(A, options, 0) = {}
  BY DEF ValuesIn
<1>3. IOValues(A, 0) = {} /\ ConnectValues(A, 0) = {}
  BY <1>2 DEF IOValues, ConnectValues
<1>4. Cardinality({}) = 0
  BY FS_EmptySet
<1>5. DescribedAt(A, 0) = <<>> /\ Pairs(A, ConnectValues(A, 0)) = <<>>
  <2> DEFINE D == DescribedAt(A, 0)
             E == Pairs(A, ConnectValues(A, 0))
  <2>1. D = [r \in 1..0 |-> D[r]]
    <3>1. D = [r \in 1..Cardinality(IOValues(A, 0)) |-> D[r]]
      BY PositionsUpTo
    <3> HIDE DEF D
    <3>2. QED  BY <3>1, <1>3, <1>4
  <2>2. E = [j \in 1..0 |-> E[j]]
    <3>1. Cardinality(ConnectValues(A, 0)) = 0
      BY <1>3, <1>4
    <3>2. QED  BY <3>1 DEF Pairs
  <2> HIDE DEF D, E
  <2>3. D = <<>>
    BY <2>1
  <2>4. E = <<>>
    BY <2>2
  <2>5. QED  BY <2>3, <2>4 DEF D, E
<1>6. ~BadIn(A, 0)
  BY DEF BadIn
<1>7. QED  BY <1>1, <1>3, <1>5, <1>6, OrderedNone DEF Parsed, IOsSoFar

(* Each action of the parser keeps what Parsed says; A is rigid here.      *)
LEMMA IOOptionParses ==
  ASSUME NEW A, Len(A) \in Nat, NEW i, NEW c, NEW ios, NEW conns,
         Parsed(A, i, c, ios, conns, "running"), i < Len(A), A[i + 1] = <<"-io">>
  PROVE  Parsed(A, Min({i + 2, Len(A)}),
                IF i + 2 <= Len(A) THEN <<[type |-> A[i + 2], id |-> <<>>, parameters |-> <<>>]>>
                ELSE <<>>,
                ios \o c, conns, "running")
<1> DEFINE n == Min({i + 2, Len(A)})
           k == i + 2
           P == IOValues(A, i)
           m == Cardinality(P)
           D == DescribedAt(A, i)
           fresh == [type |-> A[k], id |-> <<>>, parameters |-> <<>>]
<1>0. n = Min({i + 2, Len(A)})
  OBVIOUS
<1>1. At(A, i) /\ Ordered(P) /\ IOsSoFar(D, m, c, ios)
  BY DEF Parsed
<1> HIDE DEF n, P, m, D, fresh
<1>2. InForceOf(A)[i + 1]
  BY <1>1, InForceNext
<1>3. i \in Nat /\ n \in Nat /\ At(A, n) /\ (BadIn(A, n) <=> BadIn(A, i))
  <2>1. /\ i \in Nat /\ n \in Nat /\ At(A, n)
        /\ BadIn(A, n) <=> \/ BadIn(A, i)
                           \/ /\ A[i + 1] = <<"-connect">>
                              /\ ~(i + 2 <= Len(A)) \/ Len(Fields(A[i + 2])) # 2
    BY <1>0, <1>1, <1>2, Taken
  <2>2. QED  BY <2>1, OptionsDiffer
<1>4. /\ P \in SUBSET Nat /\ IsFiniteSet(P) /\ \A j \in P : j < k
      /\ m \in Nat
      /\ D = [r \in 1..m |-> D[r]]
  BY <1>3, PositionsUpTo DEF P, m, D
<1>5. ios \o c = D
  BY <1>1, <1>4, Closed
<1>7. ~BadIn(A, i) /\ conns = Pairs(A, ConnectValues(A, i))
  BY DEF Parsed
<1>8. CASE k <= Len(A)
  <2>1. /\ IOValues(A, n) = P \cup {k}
        /\ NameValues(A, n) = NameValues(A, i)
        /\ ParaValues(A, n) = ParaValues(A, i)
        /\ ConnectValues(A, n) = ConnectValues(A, i)
    <3>1. A[i + 1] \in {<<"-io">>} /\ \A o \in {Names, {<<"-p">>}, {<<"-connect">>}} : A[i + 1] \notin o
      BY OptionsDiffer
    <3>2. ValuesIn(A, {<<"-io">>}, n) = ValuesIn(A, {<<"-io">>}, i) \cup {k}
      BY <1>0, <1>1, <1>2, <1>8, <3>1, TakenValues
    <3>3. ASSUME NEW o \in {Names, {<<"-p">>}, {<<"-connect">>}}
          PROVE  ValuesIn(A, o, n) = ValuesIn(A, o, i)
      <4>1. A[i + 1] \notin o
        BY <3>1
      <4>2. QED  BY <1>0, <1>1, <1>2, <1>8, <4>1, TakenValues
    <3>4. QED  BY <3>2, <3>3 DEF P, IOValues, NameValues, ParaValues, ConnectValues
  <2>2. /\ Cardinality(P \cup {k}) = m + 1
        /\ DescribedAt(A, n) = [r \in 1..(m + 1) |-> IF r = m + 1 THEN fresh ELSE D[r]]
    <3> DEFINE N == NameValues(A, i)
               Q == ParaValues(A, i)
    <3>1. /\ N \in SUBSET Nat /\ \A j \in N : j < k
          /\ Q \in SUBSET Nat /\ \A j \in Q : j < k
      BY <1>3, PositionsUpTo
    <3>2. k \in Nat
      BY <1>3
    <3>3. DescribedAt(A, n) = Described(A, P \cup {k}, N, Q) /\ D = Described(A, P, N, Q)
      BY <2>1 DEF DescribedAt, D, P
    <3> HIDE DEF N, Q, k
    <3>4. Described(A, P \cup {k}, N, Q)
            = [r \in 1..(m + 1) |-> IF r = m + 1 THEN [type |-> A[k], id |-> <<>>, parameters |-> <<>>]
                                    ELSE Described(A, P, N, Q)[r]]
      BY <1>1, <1>4, <3>1, <3>2, DescribedMore DEF m
    <3>5. Cardinality(P \cup {k}) = m + 1
      BY <1>4, <3>2, InOrderOfMore DEF m
    <3>6. QED  BY <3>3, <3>4, <3>5 DEF fresh
  <2>3. Ordered(P \cup {k})
    <3>1. k \in Nat
      BY <1>3
    <3> HIDE DEF k
    <3>2. QED  BY <3>1, <1>1, <1>4, OrderedMore
  <2> DEFINE E == DescribedAt(A, n)
  <2>4. IOsSoFar(E, m + 1, <<fresh>>, D)
    <3> HIDE DEF E
    <3>0. E = [r \in 1..(m + 1) |-> IF r = m + 1 THEN fresh ELSE D[r]]
      BY <2>2 DEF E
    <3>1. E[m + 1] = fresh /\ \A r \in 1..m : E[r] = D[r]
      BY <3>0, <1>4
    <3>2. D = [r \in 1..m |-> E[r]] /\ <<fresh>> = <<E[m + 1]>>
      BY <3>1, <1>4
    <3>3. QED  BY <3>2, <1>4 DEF IOsSoFar
  <2>5. <<fresh>> # <<>>
    OBVIOUS
  <2> HIDE DEF E
  <2>6. IOValues(A, n) = P \cup {k} /\ Cardinality(IOValues(A, n)) = m + 1
    BY <2>1, <2>2
  <2>7. Parsed(A, n, <<fresh>>, D, conns, "running")
    BY <1>3, <1>7, <2>1, <2>3, <2>4, <2>5, <2>6 DEF Parsed, E
  <2>8. QED  BY <2>7, <1>5, <1>8 DEF n, fresh
<1>9. CASE ~(k <= Len(A))
  <2>1. n = Len(A) /\ \A options : ValuesIn(A, options, n) = ValuesIn(A, options, i)
    BY <1>0, <1>1, <1>2, <1>9, TakenValues
  <2>2. /\ IOValues(A, n) = P
        /\ ConnectValues(A, n) = ConnectValues(A, i)
        /\ DescribedAt(A, n) = D
    BY <2>1 DEF IOValues, NameValues, ParaValues, ConnectValues, DescribedAt, P, D
  <2>3. IOsSoFar(D, m, <<>>, D)
    BY DEF IOsSoFar
  <2>4. Parsed(A, n, <<>>, D, conns, "running")
    BY <1>1, <1>3, <1>7, <2>1, <2>2, <2>3 DEF Parsed, m, P
  <2>5. QED  BY <2>4, <1>5, <1>9 DEF n
<1>10. QED  BY <1>8, <1>9

LEMMA ParsedKept ==
  ASSUME NEW A, NEW i, NEW c, NEW ios, NEW conns,
         Parsed(A, i, c, ios, conns, "running"), i < Len(A),
         NEW n, At(A, n), BadIn(A, n) <=> BadIn(A, i),
         \A o \in {{<<"-io">>}, Names, {<<"-p">>}, {<<"-connect">>}} :
           ValuesIn(A, o, n) = ValuesIn(A, o, i)
  PROVE  Parsed(A, n, c, ios, conns, "running")
<1>1. /\ IOValues(A, n) = IOValues(A, i)
      /\ ConnectValues(A, n) = ConnectValues(A, i)
      /\ DescribedAt(A, n) = DescribedAt(A, i)
  BY DEF IOValues, NameValues, ParaValues, ConnectValues, DescribedAt
<1>2. i # Len(A)
  BY DEF Parsed, At
<1>3. QED  BY <1>1, <1>2 DEF Parsed

LEMMA OtherArgumentParses ==
  ASSUME NEW A, Len(A) \in Nat, NEW i, NEW c, NEW ios, NEW conns,
         Parsed(A, i, c, ios, conns, "running"), i < Len(A),
         A[i + 1] \notin {<<"-io">>, <<"-connect">>}, c = <<>> \/ A[i + 1] \notin IOOnly
  PROVE  Parsed(A, Min({i + 1, Len(A)}), c, ios, conns, "running")
<1>1. At(A, i) /\ (c = <<>> => IOValues(A, i) = {} \/ i = Len(A))
  BY DEF Parsed
<1>2. i \in Nat /\ Min({i + 1, Len(A)}) = i + 1 /\ i # Len(A)
  <2>1. i \in Nat /\ i + 1 \in Nat /\ i + 1 <= Len(A) /\ i # Len(A)
    BY <1>1 DEF At
  <2>2. QED  BY <2>1, MinOfTwo
<1>3. ~InForceOf(A)[i + 1]
  BY <1>1, <1>2, InForceNext DEF IOValues
<1>4. /\ At(A, i + 1)
      /\ BadIn(A, i + 1) <=> BadIn(A, i)
      /\ \A o \in {{<<"-io">>}, Names, {<<"-p">>}, {<<"-connect">>}} :
           ValuesIn(A, o, i + 1) = ValuesIn(A, o, i)
  BY <1>1, <1>3, PassedOver
<1>5. Parsed(A, i + 1, c, ios, conns, "running")
  BY <1>4, ParsedKept
<1>6. QED  BY <1>2, <1>5

LEMMA ArgumentsEndParses ==
  ASSUME NEW A, Len(A) \in Nat, NEW c, NEW ios, NEW conns,
         Parsed(A, Len(A), c, ios, conns, "running")
  PROVE  Parsed(A, Len(A), <<>>, ios \o c, conns, "done")
<1> DEFINE i == Len(A)
           D == DescribedAt(A, i)
           m == Cardinality(IOValues(A, i))
<1>1. IOsSoFar(D, m, c, ios) /\ m \in Nat /\ D = [r \in 1..m |-> D[r]]
  BY PositionsUpTo DEF Parsed
<1> HIDE DEF D, m
<1>2. ios \o c = D
  BY <1>1, Closed
<1>3. IOsSoFar(D, m, <<>>, D)
  BY DEF IOsSoFar
<1>4. Parsed(A, i, <<>>, D, conns, "done")
  BY <1>3 DEF Parsed, D, m
<1>5. QED  BY <1>2, <1>4

(* -name, -id and -p belong to the IO that is open, which is the last one. *)
LEMMA NameOptionParses ==
  ASSUME NEW A, Len(A) \in Nat, NEW i, NEW c, NEW ios, NEW conns,
         Parsed(A, i, c, ios, conns, "running"), i < Len(A), A[i + 1] \in Names, c # <<>>
  PROVE  Parsed(A, Min({i + 2, Len(A)}),
                IF i + 2 <= Len(A) THEN [c EXCEPT ![1].id = A[i + 2]] ELSE c,
                ios, conns, "running")
<1> DEFINE n == Min({i + 2, Len(A)})
           k == i + 2
           P == IOValues(A, i)
           m == Cardinality(P)
           D == DescribedAt(A, i)
<1>0. n = Min({i + 2, Len(A)})
  OBVIOUS
<1>1. At(A, i) /\ Ordered(P) /\ IOsSoFar(D, m, c, ios)
  BY DEF Parsed
<1> HIDE DEF n, P, m, D
<1>2. PICK q \in Nat : m = q + 1 /\ ios = [r \in 1..q |-> D[r]] /\ c = <<D[q + 1]>>
  BY <1>1 DEF IOsSoFar
<1>3. P # {}
  <2>1. m # 0
    BY <1>2
  <2>2. QED  BY <2>1, FS_EmptySet DEF m
<1>4. InForceOf(A)[i + 1]
  BY <1>1, <1>3, InForceNext, OptionsDiffer DEF P, IOValues
<1>5. i \in Nat /\ n \in Nat /\ At(A, n) /\ (BadIn(A, n) <=> BadIn(A, i))
  <2>1. /\ i \in Nat /\ n \in Nat /\ At(A, n)
        /\ BadIn(A, n) <=> \/ BadIn(A, i)
                           \/ /\ A[i + 1] = <<"-connect">>
                              /\ ~(i + 2 <= Len(A)) \/ Len(Fields(A[i + 2])) # 2
    BY <1>0, <1>1, <1>4, Taken
  <2>2. QED  BY <2>1, OptionsDiffer
<1>6. CASE k <= Len(A)
  <2>1. /\ IOValues(A, n) = P
        /\ NameValues(A, n) = NameValues(A, i) \cup {k}
        /\ ParaValues(A, n) = ParaValues(A, i)
        /\ ConnectValues(A, n) = ConnectValues(A, i)
    <3>1. \A o \in {{<<"-io">>}, {<<"-p">>}, {<<"-connect">>}} : A[i + 1] \notin o
      BY OptionsDiffer
    <3>2. ValuesIn(A, Names, n) = ValuesIn(A, Names, i) \cup {k}
      BY <1>0, <1>1, <1>4, <1>6, TakenValues
    <3>3. ASSUME NEW o \in {{<<"-io">>}, {<<"-p">>}, {<<"-connect">>}}
          PROVE  ValuesIn(A, o, n) = ValuesIn(A, o, i)
      <4>1. A[i + 1] \notin o
        BY <3>1
      <4>2. QED  BY <1>0, <1>1, <1>4, <1>6, <4>1, TakenValues
    <3>4. QED  BY <3>2, <3>3 DEF P, IOValues, NameValues, ParaValues, ConnectValues
  <2> DEFINE E == DescribedAt(A, n)
  <2>2. E = [r \in 1..(q + 1) |-> IF r = q + 1 THEN [D[r] EXCEPT !.id = A[k]] ELSE D[r]]
    <3> DEFINE N == NameValues(A, i)
               Q == ParaValues(A, i)
    <3>1. /\ P \in SUBSET Nat /\ \A j \in P : j < k
          /\ N \in SUBSET Nat /\ \A j \in N : j < k
          /\ Q \in SUBSET Nat
      BY <1>5, PositionsUpTo DEF P
    <3>2. k \in Nat
      BY <1>5
    <3>3. E = Described(A, P, N \cup {k}, Q) /\ D = Described(A, P, N, Q)
      BY <2>1 DEF DescribedAt, D, P
    <3>4. Cardinality(P) = q + 1
      BY <1>2 DEF m
    <3> HIDE DEF N, Q, k, E
    <3>5. Described(A, P, N \cup {k}, Q) = LastNamed(Described(A, P, N, Q), q, A[k])
      <4>1. Ordered(P) /\ q \in Nat /\ \A j \in P : j < k
        BY <1>1, <3>1
      <4>2. \A j \in N : j < k
        BY <3>1
      <4>3. QED  BY ONLY <3>1, <3>2, <3>4, <4>1, <4>2, DescribedNamed
    <3>6. E = LastNamed(D, q, A[k])
      BY ONLY <3>3, <3>5
    <3>7. QED  BY ONLY <3>6 DEF LastNamed
  <2> HIDE DEF E
  <2>3. E[q + 1] = [D[q + 1] EXCEPT !.id = A[k]] /\ \A r \in 1..q : E[r] = D[r]
    BY <2>2, <1>2
  <2> DEFINE d == [c EXCEPT ![1].id = A[k]]
  <2>4. d = <<E[q + 1]>>
    <3>1. [c EXCEPT ![1].id = A[k]] = <<[D[q + 1] EXCEPT !.id = A[k]]>>
      BY ONLY <1>2
    <3>2. QED  BY <3>1, <2>3
  <2>5. IOsSoFar(E, m, d, ios) /\ d # <<>>
    <3>1. ios = [r \in 1..q |-> E[r]]
      BY <1>2, <2>3
    <3> HIDE DEF d
    <3>2. QED  BY <3>1, <2>4, <1>2 DEF IOsSoFar
  <2> HIDE DEF d
  <2>6. Parsed(A, n, d, ios, conns, "running")
    <3>1. Cardinality(IOValues(A, n)) = m
      BY <2>1 DEF m
    <3>2. conns = Pairs(A, ConnectValues(A, n)) /\ ~BadIn(A, n)
      BY <1>5, <2>1 DEF Parsed
    <3>3. QED  BY <1>1, <1>5, <2>1, <2>5, <3>1, <3>2 DEF Parsed, E
  <2>7. QED  BY <2>6, <1>6 DEF n, d
<1>7. CASE ~(k <= Len(A))
  <2>1. ASSUME NEW o
        PROVE  ValuesIn(A, o, n) = ValuesIn(A, o, i)
    BY <1>0, <1>1, <1>4, <1>7, TakenValues
  <2>2. Parsed(A, n, c, ios, conns, "running")
    BY <1>5, <2>1, ParsedKept
  <2>3. QED  BY <2>2, <1>7 DEF n
<1>8. QED  BY <1>6, <1>7

LEMMA ParameterOptionParses ==
  ASSUME NEW A, Len(A) \in Nat, NEW i, NEW c, NEW ios, NEW conns,
         Parsed(A, i, c, ios, conns, "running"), i < Len(A), A[i + 1] = <<"-p">>, c # <<>>
  PROVE  Parsed(A, Min({i + 2, Len(A)}),
                IF i + 2 <= Len(A) THEN [c EXCEPT ![1].parameters = Append(@, Parameter(A[i + 2]))] ELSE c,
                ios, conns, "running")
<1> DEFINE n == Min({i + 2, Len(A)})
           k == i + 2
           P == IOValues(A, i)
           m == Cardinality(P)
           D == DescribedAt(A, i)
<1>0. n = Min({i + 2, Len(A)})
  OBVIOUS
<1>1. At(A, i) /\ Ordered(P) /\ IOsSoFar(D, m, c, ios)
  BY DEF Parsed
<1> HIDE DEF n, P, m, D
<1>2. PICK q \in Nat : m = q + 1 /\ ios = [r \in 1..q |-> D[r]] /\ c = <<D[q + 1]>>
  BY <1>1 DEF IOsSoFar
<1>3. P # {}
  <2>1. m # 0
    BY <1>2
  <2>2. QED  BY <2>1, FS_EmptySet DEF m
<1>4. InForceOf(A)[i + 1]
  BY <1>1, <1>3, InForceNext, OptionsDiffer DEF P, IOValues
<1>5. i \in Nat /\ n \in Nat /\ At(A, n) /\ (BadIn(A, n) <=> BadIn(A, i))
  <2>1. /\ i \in Nat /\ n \in Nat /\ At(A, n)
        /\ BadIn(A, n) <=> \/ BadIn(A, i)
                           \/ /\ A[i + 1] = <<"-connect">>
                              /\ ~(i + 2 <= Len(A)) \/ Len(Fields(A[i + 2])) # 2
    BY <1>0, <1>1, <1>4, Taken
  <2>2. QED  BY <2>1, OptionsDiffer
<1>6. CASE k <= Len(A)
  <2>1. /\ IOValues(A, n) = P
        /\ NameValues(A, n) = NameValues(A, i)
        /\ ParaValues(A, n) = ParaValues(A, i) \cup {k}
        /\ ConnectValues(A, n) = ConnectValues(A, i)
    <3>1. \A o \in {{<<"-io">>}, Names, {<<"-connect">>}} : A[i + 1] \notin o
      BY OptionsDiffer
    <3>2. ValuesIn(A, {<<"-p">>}, n) = ValuesIn(A, {<<"-p">>}, i) \cup {k}
      <4> DEFINE o == {<<"-p">>}
      <4>1. A[i + 1] \in o
        OBVIOUS
      <4> HIDE DEF o
      <4>2. ValuesIn(A, o, n) = ValuesIn(A, o, i) \cup {k}
        BY <1>0, <1>1, <1>4, <1>6, <4>1, TakenValues
      <4>3. QED  BY <4>2 DEF o
    <3>3. ASSUME NEW o \in {{<<"-io">>}, Names, {<<"-connect">>}}
          PROVE  ValuesIn(A, o, n) = ValuesIn(A, o, i)
      <4>1. A[i + 1] \notin o
        BY <3>1
      <4>2. QED  BY <1>0, <1>1, <1>4, <1>6, <4>1, TakenValues
    <3>4. QED  BY <3>2, <3>3 DEF P, IOValues, NameValues, ParaValues, ConnectValues
  <2> DEFINE E == DescribedAt(A, n)
  <2>3. /\ E[q + 1] = [D[q + 1] EXCEPT
                        !.parameters = Append(D[q + 1].parameters, Parameter(A[k]))]
        /\ \A r \in 1..q : E[r] = D[r]
    <3> DEFINE N == NameValues(A, i)
               Q == ParaValues(A, i)
    <3>1. /\ P \in SUBSET Nat /\ \A j \in P : j < k
          /\ N \in SUBSET Nat
          /\ Q \in SUBSET Nat /\ IsFiniteSet(Q) /\ \A j \in Q : j < k
      BY <1>5, PositionsUpTo DEF P
    <3>2. k \in Nat
      BY <1>5
    <3>3. E = Described(A, P, N, Q \cup {k}) /\ D = Described(A, P, N, Q)
      BY <2>1 DEF DescribedAt, D, P
    <3>4. Cardinality(P) = q + 1
      BY <1>2 DEF m
    <3> HIDE DEF N, Q, k, E
    <3>5. Grown(Described(A, P, N, Q), Described(A, P, N, Q \cup {k}), q, Parameter(A[k]))
      BY <1>1, <3>1, <3>2, <3>4, DescribedParameter
    <3>6. Grown(D, E, q, Parameter(A[k]))
      BY <3>3, <3>5
    <3>7. QED  BY ONLY <3>6 DEF Grown
  <2> HIDE DEF E
  <2> DEFINE d == [c EXCEPT ![1].parameters = Append(@, Parameter(A[k]))]
  <2>4. d = <<E[q + 1]>>
    <3> DEFINE y == D[q + 1]
               g == Append(y.parameters, Parameter(A[k]))
    <3>0. c = <<y>> /\ c[1] = y
      BY <1>2
    <3>1. d = <<[y EXCEPT !.parameters = g]>>
      <4>1. Append(c[1].parameters, Parameter(A[k])) = g
        BY <3>0
      <4> HIDE DEF g, y
      <4>2. [c EXCEPT ![1].parameters = g] = <<[y EXCEPT !.parameters = g]>>
        BY ONLY <3>0
      <4>3. d = [c EXCEPT ![1].parameters = g]
        BY <4>1
      <4>4. QED  BY <4>2, <4>3
    <3>2. QED  BY <3>1, <2>3
  <2>5. IOsSoFar(E, m, d, ios) /\ d # <<>>
    <3>1. ios = [r \in 1..q |-> E[r]]
      BY <1>2, <2>3
    <3> HIDE DEF d
    <3>2. QED  BY <3>1, <2>4, <1>2 DEF IOsSoFar
  <2> HIDE DEF d
  <2>6. Parsed(A, n, d, ios, conns, "running")
    <3>1. Cardinality(IOValues(A, n)) = m
      BY <2>1 DEF m
    <3>2. conns = Pairs(A, ConnectValues(A, n)) /\ ~BadIn(A, n)
      BY <1>5, <2>1 DEF Parsed
    <3>3. QED  BY <1>1, <1>5, <2>1, <2>5, <3>1, <3>2 DEF Parsed, E
  <2>7. QED  BY <2>6, <1>6 DEF n, d
<1>7. CASE ~(k <= Len(A))
  <2>1. ASSUME NEW o
        PROVE  ValuesIn(A, o, n) = ValuesIn(A, o, i)
    BY <1>0, <1>1, <1>4, <1>7, TakenValues
  <2>2. Parsed(A, n, c, ios, conns, "running")
    BY <1>5, <2>1, ParsedKept
  <2>3. QED  BY <2>2, <1>7 DEF n
<1>8. QED  BY <1>6, <1>7

LEMMA ConnectOptionParses ==
  ASSUME NEW A, Len(A) \in Nat, NEW i, NEW c, NEW ios, NEW conns,
         Parsed(A, i, c, ios, conns, "running"), i < Len(A), A[i + 1] = <<"-connect">>
  PROVE  /\ i + 2 <= Len(A) /\ Len(Fields(A[i + 2])) = 2
              => Parsed(A, Min({i + 2, Len(A)}), c, ios, Append(conns, Connection(A[i + 2])), "running")
         /\ ~(i + 2 <= Len(A) /\ Len(Fields(A[i + 2])) = 2)
              => Parsed(A, Min({i + 2, Len(A)}), c, ios, conns, "error")
<1> DEFINE n == Min({i + 2, Len(A)})
           k == i + 2
           C == ConnectValues(A, i)
           good == k <= Len(A) /\ Len(Fields(A[k])) = 2
<1>0. n = Min({i + 2, Len(A)})
  OBVIOUS
<1>1. At(A, i) /\ conns = Pairs(A, C) /\ ~BadIn(A, i) /\ (c = <<>> => IOValues(A, i) = {} \/ i = Len(A))
  BY DEF Parsed
<1> HIDE DEF n, C
<1>2. InForceOf(A)[i + 1]
  BY <1>1, InForceNext
<1>3. i \in Nat /\ n \in Nat /\ At(A, n) /\ i # Len(A) /\ (BadIn(A, n) <=> ~good)
  <2>1. /\ i \in Nat /\ n \in Nat /\ At(A, n)
        /\ BadIn(A, n) <=> \/ BadIn(A, i)
                           \/ /\ A[i + 1] = <<"-connect">>
                              /\ ~(i + 2 <= Len(A)) \/ Len(Fields(A[i + 2])) # 2
    BY <1>0, <1>1, <1>2, Taken
  <2>2. QED  BY <2>1, <1>1
<1>4. ASSUME NEW o, A[i + 1] \notin o
      PROVE  ValuesIn(A, o, n) = ValuesIn(A, o, i)
  <2>1. CASE i + 2 <= Len(A)
    BY <1>0, <1>1, <1>2, <1>4, <2>1, TakenValues
  <2>2. CASE ~(i + 2 <= Len(A))
    BY <1>0, <1>1, <1>2, <2>2, TakenValues
  <2>3. QED  BY <2>1, <2>2
<1>5. IOValues(A, n) = IOValues(A, i) /\ DescribedAt(A, n) = DescribedAt(A, i)
  <2>1. \A o \in {{<<"-io">>}, Names, {<<"-p">>}} : A[i + 1] \notin o
    BY OptionsDiffer
  <2>2. \A o \in {{<<"-io">>}, Names, {<<"-p">>}} : ValuesIn(A, o, n) = ValuesIn(A, o, i)
    BY <1>4, <2>1
  <2>3. QED  BY <2>2 DEF IOValues, NameValues, ParaValues, DescribedAt
<1>6. CASE good
  <2>1. ConnectValues(A, n) = C \cup {k}
    <3> DEFINE o == {<<"-connect">>}
    <3>1. A[i + 1] \in o
      OBVIOUS
    <3> HIDE DEF o
    <3>2. ValuesIn(A, o, n) = ValuesIn(A, o, i) \cup {k}
      BY <1>0, <1>1, <1>2, <1>6, <3>1, TakenValues
    <3>3. QED  BY <3>2 DEF o, C, ConnectValues
  <2>2. Pairs(A, C \cup {k}) = Append(conns, Connection(A[k]))
    <3>1. C \in SUBSET Nat /\ IsFiniteSet(C) /\ \A j \in C : j < k
      BY <1>3, PositionsUpTo DEF C
    <3>2. k \in Nat
      BY <1>3
    <3> HIDE DEF k
    <3>3. Pairs(A, C \cup {k}) = Append(Pairs(A, C), Connection(A[k]))
      BY <3>1, <3>2, PairsMore
    <3>4. QED  BY <3>3, <1>1
  <2> DEFINE e == Append(conns, Connection(A[k]))
  <2> HIDE DEF e
  <2>3. e = Pairs(A, ConnectValues(A, n))
    BY <2>1, <2>2 DEF e
  <2>4. Parsed(A, n, c, ios, e, "running")
    BY <1>1, <1>3, <1>5, <1>6, <2>3 DEF Parsed
  <2>5. QED  BY <2>4, <1>6 DEF n, e
<1>7. CASE ~good
  <2>1. Parsed(A, n, c, ios, conns, "error")
    BY <1>1, <1>3, <1>5, <1>7 DEF Parsed
  <2>2. QED  BY <2>1, <1>7 DEF n
<1>8. QED  BY <1>6, <1>7

-----------------------------------------------------------------------------
(* The parser of the program that runs.                                    *)
ParserInv ==
  /\ Len(arguments) \in Nat
  /\ Parsed(arguments, index, ioConfig, m_ios, m_connections, parsing)

LEMMA ParserInvInit == Init => ParserInv
<1> SUFFICES ASSUME Init PROVE ParserInv
  OBVIOUS
<1>1. arguments \in Seq(Seq(STRING))
  BY CommandLinesAssumption DEF Init
<1>2. Len(arguments) \in Nat
  BY <1>1
<1>3. index = 0 /\ ioConfig = <<>> /\ m_ios = <<>> /\ m_connections = <<>> /\ parsing = "running"
  BY DEF Init, ParserInit
<1>4. QED  BY <1>2, <1>3, ParsedFirst DEF ParserInv

LEMMA ParseKeepsInv ==
  ASSUME ParserInv, Parse
  PROVE  ParserInv' /\ arguments' = arguments
<1>1. arguments' = arguments /\ Len(arguments) \in Nat /\ parsing = "running"
  BY DEF ParserInv, Parse, Turn, IOOption, NameOption, ParameterOption, ConnectOption, OtherArgument,
         ArgumentsEnd
<1>2. Parsed(arguments, index, ioConfig, m_ios, m_connections, "running")
  BY <1>1 DEF ParserInv
<1> SUFFICES Parsed(arguments, index', ioConfig', m_ios', m_connections', parsing')
  BY <1>1 DEF ParserInv
<1>3. CASE IOOption
  <2>1. /\ index < Len(arguments) /\ arguments[index + 1] = <<"-io">>
        /\ index' = Min({index + 2, Len(arguments)})
        /\ ioConfig' = IF index + 2 <= Len(arguments)
                       THEN <<[type |-> arguments[index + 2], id |-> <<>>, parameters |-> <<>>]>>
                       ELSE <<>>
        /\ m_ios' = m_ios \o ioConfig
        /\ m_connections' = m_connections /\ parsing' = "running"
    BY <1>1, <1>3 DEF IOOption, Turn, HasValue, Value, Take
  <2>2. QED  BY <1>1, <1>2, <2>1, IOOptionParses
<1>4. CASE NameOption
  <2>1. /\ index < Len(arguments) /\ arguments[index + 1] \in Names /\ ioConfig # <<>>
        /\ index' = Min({index + 2, Len(arguments)})
        /\ ioConfig' = IF index + 2 <= Len(arguments)
                       THEN [ioConfig EXCEPT ![1].id = arguments[index + 2]] ELSE ioConfig
        /\ m_ios' = m_ios /\ m_connections' = m_connections /\ parsing' = "running"
    BY <1>1, <1>4 DEF NameOption, Turn, HasValue, Value, Take, Names
  <2>2. QED  BY <1>1, <1>2, <2>1, NameOptionParses
<1>5. CASE ParameterOption
  <2>1. /\ index < Len(arguments) /\ arguments[index + 1] = <<"-p">> /\ ioConfig # <<>>
        /\ index' = Min({index + 2, Len(arguments)})
        /\ ioConfig' = IF index + 2 <= Len(arguments)
                       THEN [ioConfig EXCEPT ![1].parameters = Append(@, Parameter(arguments[index + 2]))]
                       ELSE ioConfig
        /\ m_ios' = m_ios /\ m_connections' = m_connections /\ parsing' = "running"
    BY <1>1, <1>5 DEF ParameterOption, Turn, HasValue, Value, Take
  <2>2. QED  BY <1>1, <1>2, <2>1, ParameterOptionParses
<1>6. CASE ConnectOption
  <2> DEFINE good == index + 2 <= Len(arguments) /\ Len(Fields(arguments[index + 2])) = 2
  <2>1. /\ index < Len(arguments) /\ arguments[index + 1] = <<"-connect">>
        /\ index' = Min({index + 2, Len(arguments)})
        /\ ioConfig' = ioConfig /\ m_ios' = m_ios
    BY <1>1, <1>6 DEF ConnectOption, Turn, Take
  <2>2. CASE good
    <3>1. m_connections' = Append(m_connections, Connection(arguments[index + 2])) /\ parsing' = "running"
      BY <1>1, <1>6, <2>2 DEF ConnectOption, HasValue, Value
    <3>2. QED  BY <1>1, <1>2, <2>1, <2>2, <3>1, ConnectOptionParses
  <2>3. CASE ~good
    <3>1. m_connections' = m_connections /\ parsing' = "error"
      BY <1>1, <1>6, <2>3 DEF ConnectOption, HasValue, Value
    <3>2. QED  BY <1>1, <1>2, <2>1, <2>3, <3>1, ConnectOptionParses
  <2>4. QED  BY <2>2, <2>3
<1>7. CASE OtherArgument
  <2>1. /\ index < Len(arguments) /\ arguments[index + 1] \notin {<<"-io">>, <<"-connect">>}
        /\ ioConfig = <<>> \/ arguments[index + 1] \notin IOOnly
        /\ index' = Min({index + 1, Len(arguments)})
        /\ ioConfig' = ioConfig /\ m_ios' = m_ios /\ m_connections' = m_connections
        /\ parsing' = "running"
    BY <1>1, <1>7 DEF OtherArgument, Take, IOOnly
  <2>2. QED  BY <1>1, <1>2, <2>1, OtherArgumentParses
<1>8. CASE ArgumentsEnd
  <2>1. /\ index = Len(arguments) /\ index' = index
        /\ m_ios' = m_ios \o ioConfig /\ ioConfig' = <<>> /\ m_connections' = m_connections
        /\ parsing' = "done"
    BY <1>8 DEF ArgumentsEnd
  <2>2. QED  BY <1>1, <1>2, <2>1, ArgumentsEndParses
<1>9. QED  BY <1>3, <1>4, <1>5, <1>6, <1>7, <1>8 DEF Parse

LEMMA OtherStepsKeepConfig ==
  ASSUME [Next]_vars, ~FromArguments
  PROVE  UNCHANGED <<arguments, parser>>
<1>1. CASE Start
  BY <1>1, ~FromArguments
     DEF Start, StartBegins, ConfigReady, RegisterBuiltIn, LoadPlugin, PluginsEnd, AddConfiguredIO,
         IOsEnd, AddConfiguredConnection, ConnectionsEnd, StartEngine
<1>2. CASE MainGoesOn \/ OnQuit \/ ExecReturns \/ ControlEvent \/ HandleSignal
  BY <1>2 DEF MainGoesOn, OnQuit, ExecReturns, ControlEvent, HandleSignal
<1>3. CASE UNCHANGED vars
  BY <1>3 DEF vars
<1>4. QED  BY <1>1, <1>2, <1>3 DEF Next, Ended, Hangs, Waits

LEMMA ParserInvNext == ParserInv /\ [Next]_vars => ParserInv'
<1> SUFFICES ASSUME ParserInv, [Next]_vars PROVE ParserInv'
  OBVIOUS
<1>1. CASE FromArguments
  BY <1>1, ParseKeepsInv DEF FromArguments
<1>2. CASE ~FromArguments
  <2>1. /\ arguments' = arguments /\ index' = index /\ ioConfig' = ioConfig /\ m_ios' = m_ios
        /\ m_connections' = m_connections /\ parsing' = parsing
    BY <1>2, OtherStepsKeepConfig DEF parser
  <2>2. QED  BY <2>1 DEF ParserInv
<1>3. QED  BY <1>1, <1>2

LEMMA ParserInvAlways == Spec => []ParserInv
<1>1. QED
  BY ParserInvInit, ParserInvNext, PTL DEF Spec

(* The description is the one that ParsedAsWritten is about.               *)
LEMMA WrittenIsDescribed ==
  ASSUME Len(arguments) \in Nat
  PROVE  /\ WrittenIOs = DescribedAt(arguments, Len(arguments))
         /\ WrittenPairs = Pairs(arguments, ConnectValues(arguments, Len(arguments)))
         /\ BadPair <=> BadIn(arguments, Len(arguments))
<1> DEFINE A == arguments
           i == Len(arguments)
           P == IOValues(A, i)
           N == NameValues(A, i)
           Q == ParaValues(A, i)
           C == ConnectValues(A, i)
<1>1. ASSUME NEW options
      PROVE  ValuesOf(options) = ValuesIn(A, options, i)
  <2>1. \A k \in 2..Len(arguments) : k <= Len(arguments)
    OBVIOUS
  <2>2. QED  BY <2>1, InForceOfArguments DEF ValuesOf, ValuesIn
<1>2. /\ ValuesOf({<<"-io">>}) = P /\ ValuesOf({<<"-name">>, <<"-id">>}) = N
      /\ ValuesOf({<<"-p">>}) = Q /\ ValuesOf({<<"-connect">>}) = C
  BY <1>1 DEF IOValues, NameValues, ParaValues, ConnectValues, Names
<1>3. \A k : WrittenIO(k) = IOFrom(A, P, N, Q, k)
  <2> TAKE k
  <2> DEFINE later == {j \in P : j > k}
             own(S) == {j \in S : j > k /\ \A l \in later : j < l}
  <2>1. \A S : own(S) = Own(P, S, k)
    BY DEF Own
  <2>2. DOMAIN InOrderOf(Own(P, Q, k)) = 1..Cardinality(Own(P, Q, k))
    BY DEF InOrderOf
  <2>3. WrittenIO(k) =
          [type       |-> A[k],
           id         |-> IF own(N) = {} THEN <<>> ELSE A[Max(own(N))],
           parameters |-> [j \in DOMAIN InOrderOf(own(Q)) |-> Parameter(A[InOrderOf(own(Q))[j]])]]
    BY <1>2 DEF WrittenIO
  <2> HIDE DEF own
  <2>4. QED  BY <2>1, <2>2, <2>3 DEF IOFrom
<1>4. DOMAIN InOrderOf(P) = 1..Cardinality(P) /\ DOMAIN InOrderOf(C) = 1..Cardinality(C)
  BY DEF InOrderOf
<1>5. WrittenIOs = [j \in DOMAIN InOrderOf(P) |-> WrittenIO(InOrderOf(P)[j])]
  BY <1>2 DEF WrittenIOs
<1>6. WrittenPairs = [j \in DOMAIN InOrderOf(C) |-> Connection(arguments[InOrderOf(C)[j]])]
  BY <1>2 DEF WrittenPairs
<1> HIDE DEF P, N, Q, C
<1>7. WrittenIOs = Described(A, P, N, Q)
  BY <1>3, <1>4, <1>5 DEF Described
<1>8. WrittenPairs = Pairs(A, C)
  BY <1>4, <1>6 DEF Pairs
<1>9. BadPair <=> BadIn(arguments, Len(arguments))
  BY InForceOfArguments DEF BadPair, BadIn
<1>10. QED  BY <1>7, <1>8, <1>9 DEF DescribedAt, P, N, Q, C

(* When the parser is done, what it has is a description.                  *)
LEMMA DoneIsDescribed ==
  ASSUME ParserInv, parsing = "done"
  PROVE  m_ios = WrittenIOs /\ m_connections = WrittenPairs
<1>1. /\ index = Len(arguments) /\ ioConfig = <<>>
      /\ m_connections = Pairs(arguments, ConnectValues(arguments, index))
      /\ IOsSoFar(DescribedAt(arguments, index), Cardinality(IOValues(arguments, index)), ioConfig, m_ios)
  BY DEF ParserInv, Parsed
<1>2. m_ios = DescribedAt(arguments, index)
  BY <1>1 DEF IOsSoFar
<1>3. QED  BY <1>1, <1>2, WrittenIsDescribed DEF ParserInv

(* Whatever the order of options and whatever else is among them, every IO *)
(* is kept with the name and the parameters that follow it, every pair is  *)
(* kept, and a pair that is none is the only error: ParsedAsWritten, for   *)
(* every command line, by ParserInv.                                       *)
THEOREM ParsedAsWrittenAlways == Spec => []ParsedAsWritten
<1>1. ParserInv => ParsedAsWritten
  <2> SUFFICES ASSUME ParserInv PROVE ParsedAsWritten
    OBVIOUS
  <2>1. parsing = "done" => m_ios = WrittenIOs /\ m_connections = WrittenPairs
    BY DoneIsDescribed
  <2>2. /\ Len(arguments) \in Nat
        /\ parsing = "error" <=> BadIn(arguments, index)
        /\ parsing = "done" => index = Len(arguments)
        /\ parsing \in {"running", "done", "error"}
        /\ index \in 0..Len(arguments)
    BY DEF ParserInv, Parsed, At
  <2>3. BadPair <=> BadIn(arguments, Len(arguments))
    BY <2>2, WrittenIsDescribed
  <2>4. BadIn(arguments, index) => BadIn(arguments, Len(arguments))
    <3>1. \A k \in 1..index : k \in 1..Len(arguments)
      BY <2>2
    <3>2. QED  BY ONLY <3>1 DEF BadIn
  <2>5. parsing # "running" => ((parsing = "error") <=> BadPair)
    <3>1. CASE parsing = "error"
      BY <3>1, <2>2, <2>3, <2>4
    <3>2. CASE parsing = "done"
      BY <3>2, <2>2, <2>3
    <3>3. QED  BY <3>1, <3>2, <2>2
  <2>6. QED  BY <2>1, <2>5 DEF ParsedAsWritten
<1>2. QED
  BY ParserInvAlways, <1>1, PTL

-----------------------------------------------------------------------------
(* What create() makes of an option: the value given last, or the default. *)
LEMMA ValuesEmpty ==
  ASSUME NEW m \in Nat, NEW given, DOMAIN given = 1..m, NEW key
  PROVE  Values(given, key) = <<>> <=> {k \in DOMAIN given : given[k].key = key} = {}
<1> DEFINE own == {k \in DOMAIN given : given[k].key = key}
<1>1. IsFiniteSet(own)
  <2>1. IsFiniteSet(1..m) /\ own \in SUBSET (1..m)
    BY FS_Interval
  <2> HIDE DEF own
  <2>2. QED  BY <2>1, FS_Subset
<1>2. DOMAIN Values(given, key) = 1..Cardinality(own)
  BY DEF Values
<1> HIDE DEF own
<1>3. Cardinality(own) \in Nat /\ (Cardinality(own) = 0 <=> own = {})
  BY <1>1, FS_CardinalityType, FS_EmptySet
<1>4. Values(given, key) = <<>> => own = {}
  <2>1. DOMAIN <<>> = {} /\ (Cardinality(own) # 0 => 1 \in 1..Cardinality(own))
    BY <1>3
  <2>2. QED  BY <2>1, <1>2, <1>3
<1>5. ASSUME own = {} PROVE Values(given, key) = <<>>
  <2>1. Cardinality(own) = 0
    BY <1>5, <1>3
  <2> DEFINE v == Values(given, key)
  <2>2. v = [n \in 1..0 |-> v[n]]
    <3>1. v = [n \in 1..Cardinality(own) |-> v[n]]
      BY DEF Values, own
    <3> HIDE DEF v
    <3>2. QED  BY <3>1, <2>1
  <2> HIDE DEF v
  <2>3. v = <<>>
    BY <2>2
  <2>4. QED  BY <2>3 DEF v
<1>6. QED  BY <1>4, <1>5 DEF own

LEMMA ValuesFirst ==
  ASSUME NEW m \in Nat, NEW given, DOMAIN given = 1..m, NEW key, Values(given, key) # <<>>
  PROVE  Values(given, key)[1] = given[Max({k \in DOMAIN given : given[k].key = key})].value
<1> DEFINE own == {k \in DOMAIN given : given[k].key = key}
           above(x) == {j \in own : j >= x}
<1>1. own \in SUBSET Nat /\ own # {} /\ IsFiniteSet(own)
  <2>1. IsFiniteSet(1..m) /\ own \in SUBSET (1..m)
    BY FS_Interval
  <2>2. own # {}
    BY ValuesEmpty
  <2> HIDE DEF own
  <2>3. IsFiniteSet(own)
    BY <2>1, FS_Subset
  <2>4. QED  BY <2>1, <2>2, <2>3
<1>2. Cardinality(own) \in Nat /\ Cardinality(own) # 0
  <2> HIDE DEF own
  <2>1. QED  BY <1>1, FS_CardinalityType, FS_EmptySet
<1>3. Values(given, key)[1] = given[CHOOSE x \in own : Cardinality(above(x)) = 1].value
  <2>1. 1 \in 1..Cardinality(own)
    BY <1>2
  <2>2. QED  BY <2>1 DEF Values
<1>4. \A x \in own : x \in above(x) /\ IsFiniteSet(above(x))
  <2> TAKE x \in own
  <2>1. above(x) \in SUBSET own /\ x \in above(x)
    BY <1>1
  <2> HIDE DEF own, above
  <2>2. QED  BY <2>1, <1>1, FS_Subset
<1>5. ASSUME NEW x \in own
      PROVE  Cardinality(above(x)) = 1 <=> \A y \in own : x >= y
  <2>1. ASSUME Cardinality(above(x)) = 1, NEW y \in own
        PROVE  x >= y
    <3> DEFINE B == above(x)
    <3>1. IsFiniteSet(B) /\ x \in B /\ Cardinality(B) = 1
      BY <1>4, <2>1
    <3>2. y >= x => y \in B
      BY <2>1
    <3> HIDE DEF B
    <3>3. PICK z : B = {z}
      BY <3>1, FS_Singleton
    <3>4. y >= x => y = x
      BY <3>1, <3>2, <3>3
    <3>5. x \in Nat /\ y \in Nat
      BY <1>1, <2>1
    <3>6. QED  BY <3>4, <3>5
  <2>2. ASSUME \A y \in own : x >= y
        PROVE  Cardinality(above(x)) = 1
    <3>1. above(x) = {x}
      <4>1. \A y \in own : y >= x => y = x
        BY <1>1, <2>2
      <4>2. x \in above(x)
        BY <1>4
      <4>3. QED  BY <4>1, <4>2
    <3>2. QED  BY <3>1, FS_Singleton
  <2>3. QED  BY <2>1, <2>2
<1>6. Max(own) = (CHOOSE x \in own : Cardinality(above(x)) = 1)
  <2> HIDE DEF own, above
  <2>1. \A x : (x \in own /\ Cardinality(above(x)) = 1) <=> (x \in own /\ \A y \in own : x >= y)
    BY <1>5
  <2>2. QED  BY <2>1 DEF Max
<1>7. QED  BY <1>3, <1>6

LEMMA OptionsAsWritten ==
  ASSUME NEW io, NEW m \in Nat, DOMAIN io.parameters = 1..m,
         CreateOutcome(io.type, io.parameters) = "created",
         NEW key \in ReadKeys(io.type)
  PROVE  CreatedOptions(io.type, io.parameters)[key] = OptionWritten(io, key)
<1> DEFINE given == io.parameters
           found == GetParaValue(io.type, given, key, 0)
           own == {k \in DOMAIN given : given[k].key = key}
<1>1. found # {}
  BY DEF CreateOutcome
<1>2. CreatedOptions(io.type, given)[key] = (CHOOSE value \in found : TRUE)
  BY DEF CreatedOptions
<1>3. OptionWritten(io, key) = IF own = {} THEN DefaultValue(io.type, key) ELSE given[Max(own)].value
  BY DEF OptionWritten
<1>4. Values(given, key) = <<>> <=> own = {}
  <2> HIDE DEF given
  <2>0. DOMAIN given = 1..m
    BY DEF given
  <2>1. QED  BY <2>0, ValuesEmpty
<1>5. CASE Values(given, key) = <<>>
  <2>1. found = {DefaultValue(io.type, key)}
    BY <1>1, <1>5 DEF GetParaValue
  <2>2. (CHOOSE value \in {DefaultValue(io.type, key)} : TRUE) = DefaultValue(io.type, key)
    OBVIOUS
  <2>3. QED  BY <2>1, <2>2, <1>2, <1>3, <1>4, <1>5
<1>6. CASE Values(given, key) # <<>>
  <2>1. found = {Values(given, key)[0 + 1]}
    BY <1>1, <1>6 DEF GetParaValue
  <2>2. Values(given, key)[0 + 1] = given[Max(own)].value
    <3>1. DOMAIN given = 1..m
      OBVIOUS
    <3> HIDE DEF given
    <3>2. Values(given, key)[1] = given[Max(own)].value
      BY <3>1, <1>6, ValuesFirst
    <3>3. 0 + 1 = 1
      OBVIOUS
    <3>4. QED  BY <3>2, <3>3
  <2> DEFINE v == given[Max(own)].value
  <2>3. (CHOOSE value \in {v} : TRUE) = v
    OBVIOUS
  <2> HIDE DEF v
  <2>4. found = {v} /\ OptionWritten(io, key) = v
    BY <2>1, <2>2, <1>3, <1>4, <1>6 DEF v
  <2>5. QED  BY <2>3, <2>4, <1>2
<1>7. QED  BY <1>5, <1>6

-----------------------------------------------------------------------------
(* start() has followed the configuration as far as it has got: handlers   *)
(* for the IOs, then wires between the first handlers of two names, each   *)
(* list complete before the next is begun.                                 *)
HandlerOf(io) ==
  [type |-> io.type, uniqueName |-> io.id, options |-> CreatedOptions(io.type, io.parameters)]

Found(handlers, name) ==
  Min({k \in DOMAIN handlers : Folded(handlers[k].uniqueName) = Folded(name)})

Wire(handlers, pair) == <<Found(handlers, pair[1]), Found(handlers, pair[2])>>

Followed(ios, handlers) ==
  \E n \in Nat :
    /\ n <= Len(ios)
    /\ handlers = [k \in 1..n |-> HandlerOf(ios[k])]
    /\ \A k \in 1..n : CreateOutcome(ios[k].type, ios[k].parameters) = "created"

Wired(pairs, handlers, connections) ==
  \E n \in Nat :
    n <= Len(pairs) /\ connections = [k \in 1..n |-> Wire(handlers, pairs[k])]

StartInv ==
  /\ step \in StartSteps
  /\ step \notin {"queued", "parse", "failed"} => parsing = "done"
  /\ step \in {"queued", "parse", "factories", "plugins"} => m_handlers = <<>>
  /\ step \in {"queued", "parse", "factories", "plugins", "ios"} => wires = <<>>
  /\ step \in {"ios", "connections", "start", "running"} => Followed(m_ios, m_handlers)
  /\ step \in {"connections", "start", "running"} =>
       Len(m_handlers) = Len(m_ios) /\ Wired(m_connections, m_handlers, wires)
  /\ step \in {"start", "running"} => Len(wires) = Len(m_connections)
  /\ m_started => step = "running"

LEMMA StartInvInit == Init => StartInv
  BY DEF Init, StartInv, StartSteps

LEMMA DoneIsSequence ==
  ASSUME ParserInv, parsing = "done"
  PROVE  /\ Len(m_ios) \in Nat /\ DOMAIN m_ios = 1..Len(m_ios)
         /\ Len(m_connections) \in Nat /\ DOMAIN m_connections = 1..Len(m_connections)
         /\ \A k \in 1..Len(m_ios) : \E m \in Nat : DOMAIN m_ios[k].parameters = 1..m
<1> DEFINE A == arguments
           i == Len(arguments)
           P == IOValues(A, i)
           Q == ParaValues(A, i)
           C == ConnectValues(A, i)
<1>1. i \in Nat
  BY DEF ParserInv
<1>2. m_ios = Described(A, P, NameValues(A, i), Q) /\ m_connections = Pairs(A, C)
  BY <1>1, DoneIsDescribed, WrittenIsDescribed DEF DescribedAt
<1>3. /\ Q \in SUBSET Nat /\ IsFiniteSet(Q)
      /\ Cardinality(P) \in Nat /\ Cardinality(C) \in Nat
  BY <1>1, PositionsUpTo, FS_CardinalityType
<1> HIDE DEF P, Q, C
<1>4. m_ios = [r \in 1..Cardinality(P) |-> m_ios[r]]
  BY <1>2 DEF Described
<1>5. m_connections = [r \in 1..Cardinality(C) |-> m_connections[r]]
  BY <1>2 DEF Pairs
<1>6. Len(m_ios) = Cardinality(P) /\ Len(m_connections) = Cardinality(C)
  BY <1>3, <1>4, <1>5, FunctionIsSequence
<1>7. ASSUME NEW k \in 1..Len(m_ios)
      PROVE  \E m \in Nat : DOMAIN m_ios[k].parameters = 1..m
  <2> DEFINE own == Own(P, Q, InOrderOf(P)[k])
  <2>1. DOMAIN m_ios[k].parameters = 1..Cardinality(own)
    BY <1>2, <1>6 DEF Described, IOFrom
  <2>2. IsFiniteSet(own)
    BY <1>3, OwnIsPart
  <2> HIDE DEF own
  <2>3. Cardinality(own) \in Nat
    BY <2>2, FS_CardinalityType
  <2>4. QED  BY <2>1, <2>3
<1>8. QED  BY <1>3, <1>4, <1>5, <1>6, <1>7

(* Every step but an action of start() leaves this alone, and so does an   *)
(* error, after which nothing is claimed.                                  *)
LEMMA OtherStepsKeepStart ==
  ASSUME [Next]_vars, ~Start
  PROVE  UNCHANGED <<arguments, parser, step, engine>>
<1>1. CASE MainGoesOn \/ OnQuit \/ ExecReturns \/ ControlEvent \/ HandleSignal
  BY <1>1 DEF MainGoesOn, OnQuit, ExecReturns, ControlEvent, HandleSignal
<1>2. CASE UNCHANGED vars
  BY <1>2 DEF vars
<1>3. QED  BY <1>1, <1>2 DEF Next, Ended, Hangs, Waits

LEMMA AddConfiguredIOFollows ==
  ASSUME ParserInv, StartInv, AddConfiguredIO
  PROVE  StartInv'
<1> DEFINE n == Len(m_handlers)
           io == m_ios[n + 1]
           outcome == CreateOutcome(io.type, io.parameters)
<1>1. /\ step = "ios" /\ parsing = "done" /\ wires = <<>> /\ ~m_started
      /\ n < Len(m_ios) /\ Followed(m_ios, m_handlers)
      /\ UNCHANGED <<m_ios, m_connections, parsing, wires, m_started>>
  BY DEF AddConfiguredIO, StartInv, parser
<1> HIDE DEF io, outcome
<1>2. CASE step' \in {"failed", "stuck", "crashed"}
  BY <1>1, <1>2 DEF StartInv, StartSteps
<1>3. CASE io.type \in m_ioFactories /\ outcome = "created"
  <2>1. step' = "ios" /\ m_handlers' = Append(m_handlers, HandlerOf(io))
    BY <1>1, <1>3 DEF AddConfiguredIO, HandlerOf, io, outcome
  <2>2. PICK q \in Nat : /\ q <= Len(m_ios)
                         /\ m_handlers = [k \in 1..q |-> HandlerOf(m_ios[k])]
                         /\ \A k \in 1..q : CreateOutcome(m_ios[k].type, m_ios[k].parameters) = "created"
    BY <1>1 DEF Followed
  <2>3. m_handlers = [k \in 1..q |-> m_handlers[k]]
    BY <2>2
  <2>4. q = n
    BY <2>3, FunctionIsSequence
  <2>5. q + 1 \in Nat /\ q + 1 <= Len(m_ios)
    BY <1>1, <2>4, DoneIsSequence
  <2> DEFINE h == HandlerOf(io)
  <2> HIDE DEF h
  <2>6. Append(m_handlers, h) = [k \in 1..(q + 1) |-> IF k = q + 1 THEN h ELSE m_handlers[k]]
    BY <2>3, AppendedFunction
  <2>7. \A k \in 1..(q + 1) : (IF k = q + 1 THEN h ELSE m_handlers[k]) = HandlerOf(m_ios[k])
    <3> TAKE k \in 1..(q + 1)
    <3>1. CASE k = q + 1
      BY <3>1, <2>4 DEF h, io
    <3>2. CASE k # q + 1
      <4>1. k \in 1..q
        BY <3>2
      <4>2. QED  BY <4>1, <3>2, <2>2
    <3>3. QED  BY <3>1, <3>2
  <2>8. m_handlers' = [k \in 1..(q + 1) |-> HandlerOf(m_ios[k])]
    BY <2>1, <2>6, <2>7 DEF h
  <2>9. \A k \in 1..(q + 1) : CreateOutcome(m_ios[k].type, m_ios[k].parameters) = "created"
    <3> TAKE k \in 1..(q + 1)
    <3>1. CASE k = q + 1
      BY <3>1, <2>4, <1>3 DEF io, outcome
    <3>2. CASE k # q + 1
      <4>1. k \in 1..q
        BY <3>2
      <4>2. QED  BY <4>1, <2>2
    <3>3. QED  BY <3>1, <3>2
  <2>10. Followed(m_ios, m_handlers')
    BY <2>5, <2>8, <2>9 DEF Followed
  <2>11. QED
    BY <1>1, <2>1, <2>10 DEF StartInv, StartSteps
<1>4. outcome \in {"error", "endless", "throws", "created"}
  BY DEF outcome, CreateOutcome, PairingOutcome
<1>5. ~(io.type \in m_ioFactories /\ outcome = "created") => step' \in {"failed", "stuck", "crashed"}
  <2>1. CASE io.type \notin m_ioFactories
    BY <2>1 DEF AddConfiguredIO, Reports, io
  <2>2. CASE io.type \in m_ioFactories /\ outcome = "error"
    BY <2>2 DEF AddConfiguredIO, Reports, io, outcome
  <2>3. CASE io.type \in m_ioFactories /\ outcome = "endless"
    BY <2>3 DEF AddConfiguredIO, io, outcome
  <2>4. CASE io.type \in m_ioFactories /\ outcome = "throws"
    BY <2>4 DEF AddConfiguredIO, io, outcome
  <2>5. QED  BY <1>4, <2>1, <2>2, <2>3, <2>4
<1>6. QED  BY <1>2, <1>3, <1>5

LEMMA AddConfiguredConnectionFollows ==
  ASSUME ParserInv, StartInv, AddConfiguredConnection
  PROVE  StartInv'
<1> DEFINE n == Len(wires)
           pair == m_connections[n + 1]
<1>1. /\ step = "connections" /\ parsing = "done" /\ ~m_started
      /\ n < Len(m_connections) /\ Followed(m_ios, m_handlers)
      /\ Len(m_handlers) = Len(m_ios) /\ Wired(m_connections, m_handlers, wires)
      /\ UNCHANGED <<m_ios, m_connections, parsing, m_handlers, m_started>>
  BY DEF AddConfiguredConnection, StartInv, parser
<1> HIDE DEF pair
<1>2. CASE step' = "failed"
  BY <1>1, <1>2 DEF StartInv, StartSteps
<1>3. ASSUME NEW source \in IOHandlers(pair[1]), NEW destination \in IOHandlers(pair[2]),
             wires' = Append(wires, <<source, destination>>), UNCHANGED <<step, process>>
      PROVE  StartInv'
  <2>1. source = Found(m_handlers, pair[1]) /\ destination = Found(m_handlers, pair[2])
    BY <1>3 DEF IOHandlers, Found
  <2> DEFINE w == Wire(m_handlers, pair)
  <2>2. wires' = Append(wires, w)
    BY <1>3, <2>1 DEF Wire
  <2>3. PICK q \in Nat : q <= Len(m_connections)
                         /\ wires = [k \in 1..q |-> Wire(m_handlers, m_connections[k])]
    BY <1>1 DEF Wired
  <2>4. wires = [k \in 1..q |-> wires[k]]
    BY <2>3
  <2>5. q = n
    BY <2>4, FunctionIsSequence
  <2>6. q + 1 \in Nat /\ q + 1 <= Len(m_connections)
    BY <1>1, <2>5, DoneIsSequence
  <2> HIDE DEF w
  <2>7. Append(wires, w) = [k \in 1..(q + 1) |-> IF k = q + 1 THEN w ELSE wires[k]]
    BY <2>4, AppendedFunction
  <2>8. \A k \in 1..(q + 1) : (IF k = q + 1 THEN w ELSE wires[k]) = Wire(m_handlers, m_connections[k])
    <3> TAKE k \in 1..(q + 1)
    <3>1. CASE k = q + 1
      BY <3>1, <2>5 DEF w, pair
    <3>2. CASE k # q + 1
      <4>1. k \in 1..q
        BY <3>2
      <4>2. QED  BY <4>1, <3>2, <2>3
    <3>3. QED  BY <3>1, <3>2
  <2>9. wires' = [k \in 1..(q + 1) |-> Wire(m_handlers, m_connections[k])]
    BY <2>2, <2>7, <2>8
  <2>10. Wired(m_connections, m_handlers, wires')
    BY <2>6, <2>9 DEF Wired
  <2>11. step' = "connections"
    BY <1>1, <1>3
  <2>12. QED  BY <1>1, <2>10, <2>11 DEF StartInv, StartSteps
<1>4. QED
  BY <1>2, <1>3 DEF AddConfiguredConnection, Reports, pair

LEMMA StartInvNext == ParserInv /\ StartInv /\ [Next]_vars => StartInv'
<1> SUFFICES ASSUME ParserInv, StartInv, [Next]_vars PROVE StartInv'
  OBVIOUS
<1> USE DEF StartSteps
<1>1. CASE StartBegins
  BY <1>1 DEF StartBegins, StartInv, parser, engine
<1>2. CASE FromArguments
  <2>1. step = "parse" /\ UNCHANGED <<step, m_handlers, wires, m_started>>
    BY <1>2 DEF FromArguments, engine
  <2>2. QED  BY <2>1 DEF StartInv
<1>3. CASE ConfigReady
  <2>1. /\ step = "parse" /\ UNCHANGED <<parsing, m_handlers, wires, m_started>>
        /\ step' = "failed" \/ (step' = "factories" /\ parsing = "done")
    BY <1>3 DEF ConfigReady, Reports, parser, engine
  <2>2. QED  BY <2>1 DEF StartInv
<1>4. CASE RegisterBuiltIn
  BY <1>4 DEF RegisterBuiltIn, StartInv, parser
<1>5. CASE LoadPlugin
  <2>1. PICK file \in PluginFiles : step' = "failed" \/ UNCHANGED <<step, process>>
    BY <1>5, Zenon DEF LoadPlugin, Reports
  <2>2. /\ step = "plugins" /\ UNCHANGED <<parsing, m_handlers, wires, m_started>>
        /\ step' = "failed" \/ step' = step
    BY <1>5, <2>1 DEF LoadPlugin, parser
  <2>3. QED  BY <2>2 DEF StartInv
<1>6. CASE PluginsEnd
  <2>1. /\ step = "plugins" /\ step' = "ios" /\ parsing = "done" /\ m_handlers = <<>> /\ wires = <<>>
        /\ ~m_started /\ UNCHANGED <<parsing, m_ios, m_handlers, wires, m_started>>
    BY <1>6 DEF PluginsEnd, StartInv, parser, engine
  <2>2. Followed(m_ios, m_handlers)
    <3>1. Len(m_ios) \in Nat
      BY <2>1, DoneIsSequence
    <3>2. m_handlers = [k \in 1..0 |-> HandlerOf(m_ios[k])]
      BY <2>1
    <3>3. \A k \in 1..0 : CreateOutcome(m_ios[k].type, m_ios[k].parameters) = "created"
      OBVIOUS
    <3>4. 0 \in Nat /\ 0 <= Len(m_ios)
      BY <3>1
    <3>5. QED  BY ONLY <3>2, <3>3, <3>4 DEF Followed
  <2>3. QED  BY <2>1, <2>2 DEF StartInv
<1>7. CASE AddConfiguredIO
  BY <1>7, AddConfiguredIOFollows
<1>8. CASE IOsEnd
  <2>1. /\ step = "ios" /\ step' = "connections" /\ parsing = "done" /\ wires = <<>>
        /\ Followed(m_ios, m_handlers) /\ Len(m_handlers) = Len(m_ios) /\ ~m_started
        /\ UNCHANGED <<parsing, m_ios, m_connections, m_handlers, wires, m_started>>
    BY <1>8 DEF IOsEnd, StartInv, parser, engine
  <2>2. Wired(m_connections, m_handlers, wires)
    <3>1. Len(m_connections) \in Nat
      BY <2>1, DoneIsSequence
    <3>2. wires = [k \in 1..0 |-> Wire(m_handlers, m_connections[k])]
      BY <2>1
    <3>3. 0 \in Nat /\ 0 <= Len(m_connections)
      BY <3>1
    <3>4. QED  BY ONLY <3>2, <3>3 DEF Wired
  <2>3. QED  BY <2>1, <2>2 DEF StartInv
<1>9. CASE AddConfiguredConnection
  BY <1>9, AddConfiguredConnectionFollows
<1>10. CASE ConnectionsEnd
  BY <1>10 DEF ConnectionsEnd, StartInv, parser, engine
<1>11. CASE StartEngine
  BY <1>11 DEF StartEngine, StartInv, parser
<1>12. CASE ~Start
  <2>1. UNCHANGED <<step, parsing, m_ios, m_connections, m_handlers, wires, m_started>>
    BY <1>12, OtherStepsKeepStart DEF parser, engine
  <2>2. QED  BY <2>1 DEF StartInv
<1>13. QED
  BY <1>1, <1>2, <1>3, <1>4, <1>5, <1>6, <1>7, <1>8, <1>9, <1>10, <1>11, <1>12 DEF Start

LEMMA RunningIsAsWritten ==
  ASSUME ParserInv, StartInv
  PROVE  RunsAsWritten
<1> SUFFICES ASSUME m_started PROVE RunsAsWritten
  BY DEF RunsAsWritten
<1>1. /\ step = "running" /\ parsing = "done"
      /\ Followed(m_ios, m_handlers) /\ Len(m_handlers) = Len(m_ios)
      /\ Wired(m_connections, m_handlers, wires) /\ Len(wires) = Len(m_connections)
  BY DEF StartInv
<1>2. m_ios = WrittenIOs /\ m_connections = WrittenPairs
  BY <1>1, DoneIsDescribed
<1>3. /\ Len(m_ios) \in Nat /\ DOMAIN m_ios = 1..Len(m_ios)
      /\ Len(m_connections) \in Nat /\ DOMAIN m_connections = 1..Len(m_connections)
      /\ \A k \in 1..Len(m_ios) : \E m \in Nat : DOMAIN m_ios[k].parameters = 1..m
  BY <1>1, DoneIsSequence
<1> DEFINE n == Len(m_ios)
<1>4. /\ m_handlers = [k \in 1..n |-> HandlerOf(m_ios[k])]
      /\ \A k \in 1..n : CreateOutcome(m_ios[k].type, m_ios[k].parameters) = "created"
  <2>1. PICK q \in Nat : /\ m_handlers = [k \in 1..q |-> HandlerOf(m_ios[k])]
                         /\ \A k \in 1..q : CreateOutcome(m_ios[k].type, m_ios[k].parameters) = "created"
    BY <1>1 DEF Followed
  <2>2. m_handlers = [k \in 1..q |-> m_handlers[k]]
    BY <2>1
  <2>3. q = n
    BY <2>2, <1>1, FunctionIsSequence
  <2>4. QED  BY <2>1, <2>3
<1>5. wires = [k \in 1..Len(m_connections) |-> Wire(m_handlers, m_connections[k])]
  <2>1. PICK q \in Nat : wires = [k \in 1..q |-> Wire(m_handlers, m_connections[k])]
    BY <1>1 DEF Wired
  <2>2. wires = [k \in 1..q |-> wires[k]]
    BY <2>1
  <2>3. q = Len(m_connections)
    BY <2>2, <1>1, FunctionIsSequence
  <2>4. QED  BY <2>1, <2>3
<1> HIDE DEF n
<1>6. ASSUME NEW k \in DOMAIN m_handlers
      PROVE  /\ m_handlers[k].type = WrittenIOs[k].type
             /\ m_handlers[k].uniqueName = WrittenIOs[k].id
             /\ \A key \in DOMAIN m_handlers[k].options :
                  m_handlers[k].options[key] = OptionWritten(WrittenIOs[k], key)
  <2>1. k \in 1..n /\ m_handlers[k] = HandlerOf(m_ios[k])
    BY <1>4
  <2> DEFINE io == m_ios[k]
  <2>2. /\ m_handlers[k].type = io.type /\ m_handlers[k].uniqueName = io.id
        /\ m_handlers[k].options = CreatedOptions(io.type, io.parameters)
    BY <2>1 DEF HandlerOf
  <2>3. CreateOutcome(io.type, io.parameters) = "created" /\ \E m \in Nat : DOMAIN io.parameters = 1..m
    BY <2>1, <1>3, <1>4 DEF n
  <2>4. DOMAIN CreatedOptions(io.type, io.parameters) = ReadKeys(io.type)
    BY DEF CreatedOptions
  <2> HIDE DEF io
  <2>5. \A key \in ReadKeys(io.type) :
          CreatedOptions(io.type, io.parameters)[key] = OptionWritten(io, key)
    BY <2>3, OptionsAsWritten
  <2>6. io = WrittenIOs[k]
    BY <1>2 DEF io
  <2>7. QED  BY <2>2, <2>4, <2>5, <2>6
<1>7. \A name : Found(m_handlers, name) = FirstNamed(name)
  <2> TAKE name
  <2>1. DOMAIN m_handlers = 1..n /\ DOMAIN m_handlers = DOMAIN WrittenIOs
    BY <1>2, <1>3, <1>4 DEF n
  <2>2. {k \in DOMAIN m_handlers : Folded(m_handlers[k].uniqueName) = Folded(name)}
          = {k \in DOMAIN WrittenIOs : Folded(WrittenIOs[k].id) = Folded(name)}
    BY ONLY <2>1, <1>6
  <2>3. QED  BY <2>2 DEF Found, FirstNamed
<1>8. wires = [k \in DOMAIN WrittenPairs |->
                 <<FirstNamed(WrittenPairs[k][1]), FirstNamed(WrittenPairs[k][2])>>]
  BY <1>2, <1>3, <1>5, <1>7 DEF Wire
<1>9. Len(m_handlers) = Len(WrittenIOs)
  BY <1>1, <1>2
<1>10. QED  BY <1>6, <1>8, <1>9 DEF RunsAsWritten

(* What runs is what the command line says, end to end, and one argument   *)
(* that cannot be followed keeps everything from running: RunsAsWritten,   *)
(* for every command line, by ParserInv and StartInv.                      *)
THEOREM RunsAsWrittenAlways == Spec => []RunsAsWritten
<1>1. QED
  BY ParserInvAlways, StartInvInit, StartInvNext, RunningIsAsWritten, PTL DEF Spec

-----------------------------------------------------------------------------
(* What a control event may find: an error of start() stays one, exec()    *)
(* returns for an error or for a quit, and a quit was posted by an event   *)
(* that is no longer on its way.                                           *)
EventsInv ==
  /\ main \in MainSteps
  /\ exitCode \in 0..2
  /\ quitPosted \in BOOLEAN
  /\ entered \in Nat
  /\ arrived \in Nat
  /\ entered <= arrived
  /\ quitPosted => entered < arrived
  /\ exitCode = 1 => step = "failed"
  /\ exitCode = 0 => quitPosted
  /\ main \in {"returned", "half", "gone"} => exitCode # 2
  /\ OneEventIsSafe

LEMMA EventsInvInit == Init => EventsInv
<1> SUFFICES ASSUME Init PROVE EventsInv
  OBVIOUS
<1>1. /\ main = "base" /\ exitCode = 2 /\ entered = 0 /\ arrived = 0
      /\ quitPosted = FALSE /\ deadCall = {}
  BY DEF Init
<1>2. OneEventIsSafe
  BY <1>1 DEF OneEventIsSafe
<1>3. quitPosted \in BOOLEAN /\ ~quitPosted
  BY <1>1, Zenon
<1>4. exitCode \in 0..2 /\ exitCode # 0 /\ exitCode # 1 /\ entered \in Nat /\ arrived \in Nat
  BY <1>1
<1>5. entered <= arrived /\ main \in MainSteps
  BY <1>1 DEF MainSteps
<1>6. main \notin {"returned", "half", "gone"}
  BY <1>1
<1>7. QED  BY ONLY <1>2, <1>3, <1>4, <1>5, <1>6, Zenon DEF EventsInv

(* start() touches neither the events nor, but for an error, the process.  *)
LEMMA StartAndEvents ==
  ASSUME Start
  PROVE  /\ UNCHANGED <<main, quitPosted, entered, arrived, deadCall>>
         /\ step # "failed"
         /\ \/ UNCHANGED exitCode
            \/ exitCode' = 1 /\ step' = "failed"
<1>1. CASE StartBegins
  BY <1>1 DEF StartBegins, process, events
<1>2. CASE FromArguments
  BY <1>2 DEF FromArguments, process, events
<1>3. CASE ConfigReady
  BY <1>3 DEF ConfigReady, Reports, process, events
<1>4. CASE RegisterBuiltIn
  BY <1>4 DEF RegisterBuiltIn, process, events
<1>5. CASE LoadPlugin
  <2>1. PICK file \in PluginFiles :
          (step' = "failed" /\ exitCode' = 1 /\ UNCHANGED main) \/ UNCHANGED <<step, process>>
    BY <1>5, Zenon DEF LoadPlugin, Reports
  <2>2. QED  BY <1>5, <2>1 DEF LoadPlugin, process, events
<1>6. CASE PluginsEnd
  BY <1>6 DEF PluginsEnd, process, events
<1>7. CASE AddConfiguredIO
  <2> DEFINE io == m_ios[Len(m_handlers) + 1]
             outcome == CreateOutcome(io.type, io.parameters)
  <2> HIDE DEF io, outcome
  <2>1. outcome \in {"error", "endless", "throws", "created"}
    BY DEF outcome, CreateOutcome, PairingOutcome
  <2>2. \/ step' = "failed" /\ exitCode' = 1 /\ UNCHANGED main
        \/ UNCHANGED process
    <3>1. CASE io.type \notin m_ioFactories \/ outcome = "error"
      BY <1>7, <3>1 DEF AddConfiguredIO, Reports, io, outcome
    <3>2. CASE io.type \in m_ioFactories /\ outcome = "endless"
      BY <1>7, <3>2 DEF AddConfiguredIO, io, outcome
    <3>3. CASE io.type \in m_ioFactories /\ outcome = "throws"
      BY <1>7, <3>3 DEF AddConfiguredIO, io, outcome
    <3>4. CASE io.type \in m_ioFactories /\ outcome = "created"
      BY <1>7, <3>4 DEF AddConfiguredIO, io, outcome
    <3>5. QED  BY <2>1, <3>1, <3>2, <3>3, <3>4
  <2>3. QED  BY <1>7, <2>2 DEF AddConfiguredIO, process, events
<1>8. CASE IOsEnd
  BY <1>8 DEF IOsEnd, process, events
<1>9. CASE AddConfiguredConnection
  <2>1. (step' = "failed" /\ exitCode' = 1 /\ UNCHANGED main) \/ UNCHANGED <<step, process>>
    BY <1>9, Zenon DEF AddConfiguredConnection, Reports
  <2>2. QED  BY <1>9, <2>1 DEF AddConfiguredConnection, process, events
<1>10. CASE ConnectionsEnd
  BY <1>10 DEF ConnectionsEnd, process, events
<1>11. CASE StartEngine
  BY <1>11 DEF StartEngine, process, events
<1>12. QED
  BY <1>1, <1>2, <1>3, <1>4, <1>5, <1>6, <1>7, <1>8, <1>9, <1>10, <1>11 DEF Start

LEMMA EventsInvNext == EventsInv /\ [Next]_vars => EventsInv'
<1> SUFFICES ASSUME EventsInv, [Next]_vars PROVE EventsInv'
  OBVIOUS
<1> USE DEF EventsInv, MainSteps, OneEventIsSafe
<1>1. CASE Start
  BY <1>1, StartAndEvents
<1>2. CASE MainGoesOn
  BY <1>2 DEF MainGoesOn, events
<1>3. CASE OnQuit
  BY <1>3 DEF OnQuit, events
<1>4. CASE ExecReturns
  BY <1>4 DEF ExecReturns, events
<1>5. CASE ControlEvent
  BY <1>5 DEF ControlEvent, process
<1>6. CASE HandleSignal
  <2>1. /\ entered' = entered - 1
        /\ entered > 0
        /\ UNCHANGED <<main, step, exitCode, arrived>>
        /\ quitPosted' = (quitPosted \/ main = "exec")
        /\ deadCall' = IF main \in Alive THEN deadCall ELSE deadCall \cup {main}
    BY <1>6 DEF HandleSignal, process
  <2>2. CASE main \in {"half", "gone"} /\ step # "failed"
    <3>1. exitCode = 0 /\ quitPosted
      BY <2>2
    <3>2. entered < arrived /\ arrived > 1
      BY <3>1, <2>1
    <3>3. OneEventIsSafe'
      BY <2>1, <3>2
    <3>4. exitCode \in 0..2 /\ exitCode # 2 /\ exitCode # 1
      BY <2>2, <3>1
    <3>5. entered' \in Nat /\ entered' <= arrived /\ entered' < arrived
      BY <2>1, <3>2
    <3>6. quitPosted' = TRUE
      BY <2>1, <3>1, Zenon
    <3>7. QED  BY ONLY EventsInv, <2>1, <3>1, <3>3, <3>4, <3>5, <3>6
  <2>3. CASE main \notin {"half", "gone"} \/ step = "failed"
    <3>1. OneEventIsSafe'
      BY <2>1, <2>3 DEF Alive
    <3>2. QED  BY <2>1, <3>1
  <2>4. QED  BY <2>2, <2>3
<1>7. CASE UNCHANGED vars
  BY <1>7 DEF vars, process, events
<1>8. QED
  BY <1>1, <1>2, <1>3, <1>4, <1>5, <1>6, <1>7 DEF Next, Ended, Hangs, Waits

(* One control event alone never reaches a destroyed application, whatever *)
(* the command line and the number of events: OneEventIsSafe, by EventsInv.*)
THEOREM OneEventIsSafeAlways == Spec => []OneEventIsSafe
<1>1. EventsInv => OneEventIsSafe
  BY DEF EventsInv
<1>2. QED
  BY EventsInvInit, EventsInvNext, <1>1, PTL DEF Spec

=============================================================================
