------------------------------- MODULE NatFacts -------------------------------
(* Least and greatest elements of sets of naturals: what Min and Max of the *)
(* community module FiniteSetsExt return.  Induction over a set, and what    *)
(* it says of a function that is defined by recursion, over numbers or, as   *)
(* the folds of the community modules are, over sets of them.                *)
EXTENDS Integers, FiniteSetsExt, WellFoundedInduction, TLAPS

\* A set of naturals has a least element, and Min finds it.
LEMMA MinIsLeast ==
  ASSUME NEW S \in SUBSET Nat, S # {}
  PROVE  Min(S) \in S /\ \A y \in S : Min(S) <= y
<1> DEFINE R == {xy \in Nat \X Nat : xy[1] < xy[2]}
<1>1. OpToRel(<, Nat) = R
  BY DEF OpToRel
<1>2. \E x \in S : \A y \in S : ~ (<<y, x>> \in OpToRel(<, Nat))
  BY NatLessThanWellFounded, WFMin
<1>3. PICK x \in S : \A y \in S : ~ (<<y, x>> \in R)
  <2> HIDE DEF R
  <2> QED BY <1>1, <1>2
<1>4. ASSUME NEW y \in S PROVE x <= y
  <2>1. x \in Nat /\ y \in Nat
    OBVIOUS
  <2>2. (y < x) => <<y, x>> \in R
    BY <2>1
  <2>3. ~(y < x)
    BY <1>3, <2>2
  <2> QED BY <2>1, <2>3
<1> QED BY <1>4 DEF Min

\* A bounded set of naturals has a greatest element, and Max finds it: it is
\* at the least distance from the bound.
LEMMA MaxIsGreatest ==
  ASSUME NEW S \in SUBSET Nat, S # {}, NEW bound \in Nat, \A y \in S : y <= bound
  PROVE  Max(S) \in S /\ \A y \in S : y <= Max(S)
<1> DEFINE T == {bound - y : y \in S}
<1>1. T \in SUBSET Nat /\ T # {}
  <2>1. \A y \in S : (bound - y) \in Nat
    OBVIOUS
  <2> QED BY <2>1
<1>2. Min(T) \in T /\ \A t \in T : Min(T) <= t
  BY <1>1, MinIsLeast
<1>3. PICK x \in S : Min(T) = bound - x
  BY <1>2
<1>4. ASSUME NEW y \in S PROVE x >= y
  <2>1. (bound - x) <= (bound - y) /\ x \in Nat /\ y \in Nat
    BY <1>2, <1>3
  <2> QED BY <2>1
<1>5. Max(S) \in S /\ \A y \in S : Max(S) >= y
  BY <1>4 DEF Max
<1>6. \A y \in S : y \in Nat /\ Max(S) \in Nat
  BY <1>5
<1> QED BY <1>5, <1>6

LEMMA LargerOfTwo ==
  ASSUME NEW a \in Int, NEW b \in Int
  PROVE  Max({a, b}) = IF a >= b THEN a ELSE b
<1> DEFINE P(x) == x \in {a, b} /\ \A y \in {a, b} : x >= y
           m == IF a >= b THEN a ELSE b
<1>1. P(m) /\ \A x : P(x) => x = m
  OBVIOUS
<1>2. Max({a, b}) = CHOOSE x : P(x)
  BY DEF Max
<1> HIDE DEF P, m
<1>3. (CHOOSE x : P(x)) = m
  BY <1>1
<1> QED BY <1>2, <1>3 DEF m

LEMMA SmallerOfTwo ==
  ASSUME NEW a \in Int, NEW b \in Int
  PROVE  Min({a, b}) = IF a <= b THEN a ELSE b
<1> DEFINE P(x) == x \in {a, b} /\ \A y \in {a, b} : x <= y
           m == IF a <= b THEN a ELSE b
<1>1. P(m) /\ \A x : P(x) => x = m
  OBVIOUS
<1>2. Min({a, b}) = CHOOSE x : P(x)
  BY DEF Min
<1> HIDE DEF P, m
<1>3. (CHOOSE x : P(x)) = m
  BY <1>1
<1> QED BY <1>2, <1>3 DEF m

\* A set that has 0 and with every natural number the next has all of them.
LEMMA NatSetInduction ==
  ASSUME NEW S, 0 \in S, \A k \in Nat : k \in S => k + 1 \in S
  PROVE  \A k \in Nat : k \in S
<1> DEFINE T == Nat \ S
<1> SUFFICES ASSUME T # {} PROVE FALSE
  OBVIOUS
<1>1. Min(T) \in T /\ \A y \in T : Min(T) <= y
  BY MinIsLeast
<1>2. Min(T) \in Nat /\ Min(T) \notin S /\ Min(T) # 0
  BY <1>1
<1> DEFINE m == Min(T) - 1
<1>3. m \in Nat /\ m \notin T
  BY <1>1, <1>2
<1>4. m + 1 \in S
  BY <1>3
<1> QED BY <1>2, <1>4

\* The same up to a number.
LEMMA RangeInduction ==
  ASSUME NEW n \in Nat, NEW S, 0 \in S,
         \A k \in 0 .. n - 1 : k \in S => k + 1 \in S
  PROVE  \A k \in 0 .. n : k \in S
<1> DEFINE T == {k \in Nat : k <= n => k \in S}
<1>1. 0 \in T
  OBVIOUS
<1>2. ASSUME NEW k \in Nat, k \in T PROVE k + 1 \in T
  BY <1>2
<1>3. \A k \in Nat : k \in T
  <2> HIDE DEF T
  <2> QED BY <1>1, <1>2, NatSetInduction
<1> QED BY <1>3

\* g is start followed by n steps.
Iterates(g, start, step, n) ==
  g[0] = start /\ \A k \in 0 .. n - 1 : g[k + 1] = step[g[k]]

\* A step within T can be repeated from any element of T.
LEMMA IterationExists ==
  ASSUME NEW T, NEW start \in T, NEW step \in [T -> T], NEW n \in Nat
  PROVE  \E g \in [0 .. n -> T] : Iterates(g, start, step, n)
<1> DEFINE Def(g, k) == g = [j \in 0 .. k |-> IF j = 0 THEN start ELSE step[g[j - 1]]]
           S == {k \in Nat : \E g \in [0 .. k -> T] : Def(g, k)}
<1>1. 0 \in S
  <2> DEFINE g == [j \in 0 .. 0 |-> start]
  <2>1. g \in [0 .. 0 -> T]
    OBVIOUS
  <2>2. Def(g, 0)
    OBVIOUS
  <2> HIDE DEF Def, g
  <2> QED BY <2>1, <2>2
<1>2. ASSUME NEW k \in Nat, k \in S PROVE k + 1 \in S
  <2>1. PICK g \in [0 .. k -> T] : Def(g, k)
    BY <1>2
  <2> DEFINE h == [j \in 0 .. k + 1 |-> IF j = k + 1 THEN step[g[k]] ELSE g[j]]
  <2>2. k \in 0 .. k /\ g[k] \in T
    OBVIOUS
  <2>3. h \in [0 .. k + 1 -> T]
    BY <2>2
  <2>4. ASSUME NEW j \in 0 .. k + 1
        PROVE  h[j] = IF j = 0 THEN start ELSE step[h[j - 1]]
    <3>1. CASE j = k + 1
      BY <3>1
    <3>2. CASE j # k + 1
      <4>1. j \in 0 .. k /\ (j # 0 => j - 1 \in 0 .. k)
        BY <3>2
      <4>2. g[j] = IF j = 0 THEN start ELSE step[g[j - 1]]
        BY <2>1, <4>1
      <4>3. h[j] = g[j] /\ (j # 0 => h[j - 1] = g[j - 1])
        BY <3>2, <4>1
      <4> QED BY <4>2, <4>3
    <3> QED BY <3>1, <3>2
  <2>5. Def(h, k + 1)
    <3> HIDE DEF h
    <3>1. h = [j \in 0 .. k + 1 |-> h[j]]
      BY <2>3
    <3> QED BY <2>4, <3>1
  <2> HIDE DEF Def, h
  <2> QED BY <2>3, <2>5
<1>3. n \in S
  <2> HIDE DEF S
  <2> QED BY <1>1, <1>2, NatSetInduction
<1>4. PICK g \in [0 .. n -> T] : Def(g, n)
  BY <1>3
<1>5. Iterates(g, start, step, n)
  BY <1>4 DEF Iterates
<1> QED BY <1>5

\* A recursion that takes the greatest element out of a set.
PrefixStep(f, start, step, n) ==
  f = [s \in SUBSET (1 .. n) |-> IF s = {} THEN start
                                 ELSE step[<<f[s \ {Max(s)}], Max(s)>>]]

LEMMA PrefixRecursion ==
  ASSUME NEW T, NEW start \in T, NEW n \in Nat, NEW step \in [T \X (1 .. n) -> T]
  PROVE  \E f \in [SUBSET (1 .. n) -> T] : PrefixStep(f, start, step, n)
<1> DEFINE P(k) == \E f \in [SUBSET (1 .. k) -> T] : PrefixStep(f, start, step, k)
           S == {k \in 0 .. n : P(k)}
<1>1. 0 \in S
  <2> DEFINE f == [s \in SUBSET (1 .. 0) |-> start]
  <2>1. SUBSET (1 .. 0) = {{}}
    OBVIOUS
  <2>2. f \in [SUBSET (1 .. 0) -> T] /\ PrefixStep(f, start, step, 0)
    BY <2>1 DEF PrefixStep
  <2> HIDE DEF f
  <2>3. P(0)
    BY <2>2
  <2> HIDE DEF P
  <2> QED BY <2>3
<1>2. ASSUME NEW k \in 0 .. n - 1, k \in S PROVE k + 1 \in S
  <2>1. PICK f \in [SUBSET (1 .. k) -> T] : PrefixStep(f, start, step, k)
    BY <1>2
  <2> DEFINE m == k + 1
             h == [s \in SUBSET (1 .. m) |->
                     IF m \in s THEN step[<<f[s \ {m}], m>>] ELSE f[s]]
  <2>2. \A s \in SUBSET (1 .. m) : s \ {m} \in SUBSET (1 .. k) /\ (m \notin s => s \in SUBSET (1 .. k))
    OBVIOUS
  <2>3. h \in [SUBSET (1 .. m) -> T]
    <3>1. m \in 1 .. n
      OBVIOUS
    <3> HIDE DEF m
    <3> QED BY <2>2, <3>1
  <2>4. ASSUME NEW s \in SUBSET (1 .. m)
        PROVE  h[s] = IF s = {} THEN start ELSE step[<<h[s \ {Max(s)}], Max(s)>>]
    <3>1. CASE m \in s
      <4>1. Max(s) = m
        <5>1. s \in SUBSET Nat /\ s # {} /\ m \in Nat /\ \A y \in s : y <= m
          BY <3>1
        <5> HIDE DEF m
        <5>2. Max(s) \in s /\ \A y \in s : y <= Max(s)
          BY <5>1, MaxIsGreatest
        <5>3. Max(s) \in Nat /\ Max(s) <= m /\ m <= Max(s)
          BY <3>1, <5>1, <5>2
        <5> QED BY <5>1, <5>3
      <4>2. h[s \ {m}] = f[s \ {m}]
        OBVIOUS
      <4> HIDE DEF h, m
      <4>3. h[s] = step[<<f[s \ {m}], m>>]
        BY <3>1 DEF h
      <4> QED BY <3>1, <4>1, <4>2, <4>3
    <3>2. CASE m \notin s
      <4>1. s \in SUBSET (1 .. k) /\ \A t \in SUBSET s : t \in SUBSET (1 .. k) /\ h[t] = f[t]
        BY <2>2, <3>2
      <4>2. f[s] = IF s = {} THEN start ELSE step[<<f[s \ {Max(s)}], Max(s)>>]
        BY <2>1, <4>1 DEF PrefixStep
      <4> HIDE DEF h
      <4> QED BY <4>1, <4>2
    <3> QED BY <3>1, <3>2
  <2>5. PrefixStep(h, start, step, m)
    <3> HIDE DEF h
    <3>1. h = [s \in SUBSET (1 .. m) |-> h[s]]
      BY <2>3
    <3> QED BY <2>4, <3>1 DEF PrefixStep
  <2> HIDE DEF h
  <2> QED BY <2>3, <2>5
<1>3. n \in S
  <2> HIDE DEF S
  <2> QED BY <1>1, <1>2, RangeInduction
<1> QED BY <1>3

\* Such a recursion, given by its equations alone, takes n steps in order.
SetSteps(f, T, start, step, n) ==
  /\ f[{}] = start
  /\ \A s \in (SUBSET (1 .. n)) \ {{}} :
       f[s \ {Max(s)}] \in T => f[s] = step[<<f[s \ {Max(s)}], Max(s)>>]

Stepwise(g, T, start, step, n) ==
  /\ g \in [0 .. n -> T]
  /\ g[0] = start /\ \A k \in 0 .. n - 1 : g[k + 1] = step[<<g[k], k + 1>>]

EndsAs(f, g, n) == f[1 .. n] = g[n]

LEMMA PrefixValues ==
  ASSUME NEW T, NEW start \in T, NEW n \in Nat, NEW step \in [T \X (1 .. n) -> T],
         NEW f, SetSteps(f, T, start, step, n)
  PROVE  \E g : Stepwise(g, T, start, step, n) /\ EndsAs(f, g, n)
<1> DEFINE g == [k \in 0 .. n |-> f[1 .. k]]
<1>1. g[0] = start
  <2>1. 1 .. 0 = {}
    OBVIOUS
  <2> QED BY <2>1 DEF SetSteps
<1>2. ASSUME NEW k \in 0 .. n - 1, g[k] \in T
      PROVE  g[k + 1] = step[<<g[k], k + 1>>] /\ g[k + 1] \in T
  <2> DEFINE s == 1 .. k + 1
  <2>1. s \in SUBSET (1 .. n) /\ s # {} /\ s \ {k + 1} = 1 .. k /\ k + 1 \in 1 .. n
    <3> HIDE DEF g
    <3>1. k \in Nat /\ k + 1 \in s /\ k + 1 \in 1 .. n
      OBVIOUS
    <3>2. \A i \in s : i \in 1 .. n
      OBVIOUS
    <3>3. \A i : i \in s \ {k + 1} <=> i \in 1 .. k
      OBVIOUS
    <3> HIDE DEF s
    <3> QED BY <3>1, <3>2, <3>3
  <2>2. Max(s) = k + 1
    <3>1. s \in SUBSET Nat /\ k + 1 \in Nat /\ k + 1 \in s /\ \A y \in s : y <= k + 1
      OBVIOUS
    <3>2. Max(s) \in s /\ \A y \in s : y <= Max(s)
      BY <2>1, <3>1, MaxIsGreatest
    <3> QED BY <3>1, <3>2
  <2>3. g[k + 1] = f[s] /\ g[k] = f[1 .. k]
    OBVIOUS
  <2> HIDE DEF s, g
  <2>4. f[s] = step[<<f[1 .. k], k + 1>>]
    <3>1. f[s \ {Max(s)}] = g[k] /\ f[s \ {Max(s)}] \in T
      BY <1>2, <2>1, <2>2, <2>3
    <3>2. s \in (SUBSET (1 .. n)) \ {{}}
      BY <2>1
    <3>3. f[s] = step[<<f[s \ {Max(s)}], Max(s)>>]
      BY <3>1, <3>2 DEF SetSteps
    <3> QED BY <2>2, <2>3, <3>1, <3>3
  <2>5. step[<<g[k], k + 1>>] \in T
    BY <1>2, <2>1
  <2> QED BY <2>3, <2>4, <2>5
<1>3. EndsAs(f, g, n)
  BY DEF EndsAs
<1>4. g \in [0 .. n -> T]
  <2> DEFINE S == {k \in 0 .. n : g[k] \in T}
  <2>1. 0 \in S
    BY <1>1
  <2>2. ASSUME NEW k \in 0 .. n - 1, k \in S PROVE k + 1 \in S
    <3>1. g[k + 1] \in T
      BY <1>2, <2>2
    <3> HIDE DEF g
    <3> QED BY <3>1
  <2>3. \A k \in 0 .. n : k \in S
    <3> HIDE DEF S
    <3> QED BY <2>1, <2>2, RangeInduction
  <2> QED BY <2>3
<1> HIDE DEF g
<1>5. \A k \in 0 .. n - 1 : g[k] \in T
  BY <1>4
<1>6. Stepwise(g, T, start, step, n)
  BY <1>1, <1>2, <1>4, <1>5 DEF Stepwise
<1> QED BY <1>3, <1>6

\* The same over numbers alone, for a step that depends on its number.
LEMMA NumberedSteps ==
  ASSUME NEW T, NEW start \in T, NEW n \in Nat, NEW step \in [T \X (1 .. n) -> T]
  PROVE  \E g : Stepwise(g, T, start, step, n)
<1>1. PICK f \in [SUBSET (1 .. n) -> T] : PrefixStep(f, start, step, n)
  BY PrefixRecursion
<1>2. SetSteps(f, T, start, step, n)
  <2>1. {} \in SUBSET (1 .. n)
    OBVIOUS
  <2> QED BY <1>1, <2>1 DEF PrefixStep, SetSteps
<1> QED BY <1>2, PrefixValues
===============================================================================
