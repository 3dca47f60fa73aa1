------------------------------ MODULE Induction ------------------------------
(***************************************************************************)
(* Induction over the natural numbers, for sets of them: one that has any  *)
(* has a least one, and one with 0 and the successors of its members has   *)
(* all.  The theorems of NaturalsInduction take an operator, which the     *)
(* provers here cannot instantiate; these take a set, and rest on the      *)
(* minimal element of a well-founded relation (WFMin).  From them: what is *)
(* reached step by step exists, and what the sums of sequences are.        *)
(***************************************************************************)
EXTENDS Integers, Sums, WellFoundedInduction, TLAPS

\* A set of numbers has a least one, if any.
THEOREM LeastExists ==
  ASSUME NEW S \in SUBSET Nat, S # {}
  PROVE  \E m \in S : \A n \in S : m <= n
<1> DEFINE before == OpToRel(<, Nat)
<1>1. IsWellFoundedOn(before, Nat)
  BY NatLessThanWellFounded
<1>2. \A x, y \in Nat : y < x => <<y, x>> \in before
  BY DEF OpToRel
<1> HIDE DEF before
<1>3. PICK m \in S : \A n \in S : <<n, m>> \notin before
  BY <1>1, WFMin
<1>4. \A n \in S : ~(n < m)
  BY <1>2, <1>3
<1> QED
  BY <1>4

\* Ordinary induction, as a fact about sets.
THEOREM SetInduction ==
  ASSUME NEW T, 0 \in T, \A n \in Nat : n \in T => n + 1 \in T
  PROVE  Nat \subseteq T
<1> DEFINE missing == Nat \ T
<1> SUFFICES ASSUME missing # {} PROVE FALSE
  OBVIOUS
<1>1. missing \in SUBSET Nat
  OBVIOUS
<1>2. PICK x \in missing : \A y \in missing : x <= y
  <2> HIDE DEF missing
  <2> QED
    BY <1>1, LeastExists
<1>3. x \in Nat /\ x # 0
  OBVIOUS
<1>4. x - 1 \in missing
  BY <1>3
<1> QED
  BY <1>2, <1>3, <1>4

\* What starts with base and takes a step at a time.
Iterates(f, S, base, step) ==
  f \in [Nat -> S] /\ f[0] = base /\ \A n \in Nat : f[n + 1] = step[f[n]]

\* Such a function exists: recursion, where the provers only know choice.
THEOREM Recursion ==
  ASSUME NEW S, NEW base \in S, NEW step \in [S -> S]
  PROVE  \E f : Iterates(f, S, base, step)
<1> DEFINE Chain(n, f) ==
             /\ f \in [0..n -> S] /\ f[0] = base
             /\ \A i \in 0..n : i < n => f[i + 1] = step[f[i]]
           long == {n \in Nat : \E f : Chain(n, f)}
           chain == [n \in Nat |-> CHOOSE f : Chain(n, f)]
           whole == [n \in Nat |-> chain[n][n]]
<1>1. Nat \subseteq long
  <2>1. 0 \in long
    <3>1. Chain(0, [i \in 0..0 |-> base])
      OBVIOUS
    <3> QED
      BY <3>1
  <2>2. ASSUME NEW n \in Nat, n \in long PROVE n + 1 \in long
    <3>1. PICK f : Chain(n, f)
      BY <2>2
    <3> DEFINE g == [i \in 0..(n + 1) |-> IF i <= n THEN f[i] ELSE step[f[n]]]
    <3>2. \A i \in 0..n : f[i] \in S
      BY <3>1
    <3>3. step[f[n]] \in S
      BY <3>2
    <3>4. g \in [0..(n + 1) -> S]
      BY <3>2, <3>3
    <3>5. g[0] = base
      BY <3>1
    <3>6. ASSUME NEW i \in 0..(n + 1), i < n + 1 PROVE g[i + 1] = step[g[i]]
      <4>1. CASE i < n
        BY <3>1, <3>6, <4>1
      <4>2. CASE i = n
        BY <4>2
      <4> QED
        BY <3>6, <4>1, <4>2
    <3>7. Chain(n + 1, g)
      BY <3>4, <3>5, <3>6
    <3> QED
      BY <3>7
  <2> HIDE DEF long
  <2> QED
    BY <2>1, <2>2, SetInduction
<1>2. \A n \in Nat : Chain(n, chain[n])
  BY <1>1
<1> HIDE DEF chain
<1>3. ASSUME NEW n \in Nat, NEW f, NEW g, Chain(n, f), Chain(n + 1, g) PROVE f[n] = g[n]
  <2> DEFINE same == {i \in Nat : i <= n => f[i] = g[i]}
  <2>1. 0 \in same
    BY <1>3
  <2>2. ASSUME NEW i \in Nat, i \in same PROVE i + 1 \in same
    <3> SUFFICES ASSUME i + 1 <= n PROVE f[i + 1] = g[i + 1]
      OBVIOUS
    <3>1. f[i + 1] = step[f[i]] /\ g[i + 1] = step[g[i]]
      BY <1>3
    <3> QED
      BY <2>2, <3>1
  <2>3. n \in same
    <3> HIDE DEF same
    <3> QED
      BY <2>1, <2>2, SetInduction
  <2> QED
    BY <2>3
<1>4. ASSUME NEW n \in Nat PROVE whole[n] \in S
  <2>1. chain[n] \in [0..n -> S]
    BY <1>2
  <2>2. n \in 0..n
    OBVIOUS
  <2> QED
    BY <2>1, <2>2
<1>5. whole[0] = base
  BY <1>2
<1>6. ASSUME NEW n \in Nat PROVE whole[n + 1] = step[whole[n]]
  <2>1. chain[n][n] = chain[n + 1][n]
    <3>1. Chain(n, chain[n]) /\ Chain(n + 1, chain[n + 1])
      BY <1>2
    <3> HIDE DEF Chain
    <3> QED
      BY <1>3, <3>1
  <2>2. chain[n + 1][n + 1] = step[chain[n + 1][n]]
    BY <1>2
  <2> QED
    BY <2>1, <2>2
<1>7. whole \in [Nat -> S]
  BY <1>4
<1> HIDE DEF whole
<1> QED
  BY <1>5, <1>6, <1>7 DEF Iterates

-----------------------------------------------------------------------------
\* Induction as far as a number.
LEMMA RangeInduction ==
  ASSUME NEW n \in Nat, NEW T, 0 \in T, \A i \in 1..n : i - 1 \in T => i \in T
  PROVE  0..n \subseteq T
<1> DEFINE reached == {i \in Nat : i <= n => i \in T}
<1>1. 0 \in reached
  OBVIOUS
<1>2. ASSUME NEW i \in Nat, i \in reached PROVE i + 1 \in reached
  <2> SUFFICES ASSUME i + 1 <= n PROVE i + 1 \in T
    OBVIOUS
  <2>1. i + 1 \in 1..n /\ (i + 1) - 1 = i /\ i \in T
    BY <1>2
  <2> QED
    BY <2>1
<1>3. Nat \subseteq reached
  <2> HIDE DEF reached
  <2> QED
    BY <1>1, <1>2, SetInduction
<1> QED
  BY <1>3

\* What starts with base and takes a numbered step at a time, up to n of them.
Steps(f, n, S, base, step) ==
  f \in [0..n -> S] /\ f[0] = base /\ \A i \in 1..n : f[i] = step[<<i, f[i - 1]>>]

\* Such a function exists too: one step is taken from a number and what was
\* reached to the next.
LEMMA StepsExist ==
  ASSUME NEW n \in Nat, NEW S, NEW base \in S, NEW step \in [(1..n) \X S -> S]
  PROVE  \E f : Steps(f, n, S, base, step)
<1> DEFINE T == Nat \X S
           Go(x) == <<x[1] + 1, IF x[1] + 1 <= n THEN step[<<x[1] + 1, x[2]>>] ELSE x[2]>>
           go == [x \in T |-> Go(x)]
<1>1. go \in [T -> T]
  <2>1. ASSUME NEW x \in T PROVE Go(x) \in T
    <3>1. x[1] + 1 \in Nat /\ x[2] \in S
      OBVIOUS
    <3>2. x[1] + 1 <= n => <<x[1] + 1, x[2]>> \in (1..n) \X S
      OBVIOUS
    <3> QED
      BY <3>1, <3>2
  <2> HIDE DEF T, Go
  <2> QED
    BY <2>1
<1>2. PICK g : Iterates(g, T, <<0, base>>, go)
  <2>1. <<0, base>> \in T
    OBVIOUS
  <2> HIDE DEF T, go
  <2> QED
    BY <1>1, <2>1, Recursion
<1>3. g \in [Nat -> T] /\ g[0] = <<0, base>> /\ \A i \in Nat : g[i + 1] = Go(g[i])
  <2> HIDE DEF T, Go
  <2> QED
    BY <1>2 DEF Iterates
<1> DEFINE counted == {i \in Nat : g[i][1] = i}
<1>4. Nat \subseteq counted
  <2>1. 0 \in counted
    BY <1>3
  <2>2. ASSUME NEW i \in Nat, i \in counted PROVE i + 1 \in counted
    <3>1. g[i + 1] = Go(g[i])
      BY <1>3
    <3>2. g[i][1] = i
      BY <2>2
    <3> QED
      BY <3>1, <3>2
  <2> HIDE DEF counted
  <2> QED
    BY <2>1, <2>2, SetInduction
<1> DEFINE f == [i \in 0..n |-> g[i][2]]
<1>5. f \in [0..n -> S]
  BY <1>3
<1>6. f[0] = base
  BY <1>3
<1>7. ASSUME NEW i \in 1..n PROVE f[i] = step[<<i, f[i - 1]>>]
  <2>1. i - 1 \in Nat /\ (i - 1) + 1 = i /\ i - 1 \in 0..n /\ i \in 0..n
    OBVIOUS
  <2>2. g[i] = Go(g[i - 1])
    BY <1>3, <2>1
  <2>3. g[i - 1][1] = i - 1
    BY <1>4, <2>1
  <2>4. g[i][2] = step[<<i, g[i - 1][2]>>]
    BY <2>1, <2>2, <2>3
  <2> QED
    BY <2>1, <2>4
<1>8. Steps(f, n, S, base, step)
  <2> HIDE DEF f
  <2> QED
    BY <1>5, <1>6, <1>7 DEF Steps
<1> QED
  BY <1>8

-----------------------------------------------------------------------------
(***************************************************************************)
(* Sums.                                                                   *)
(***************************************************************************)
\* The recursive function adds the members one by one.
LEMMA SumsAdd ==
  ASSUME NEW s \in Seq(Nat)
  PROVE  /\ PartialSums(s)[0] = 0
         /\ \A n \in 1..Len(s) : PartialSums(s)[n] = PartialSums(s)[n - 1] + s[n]
<1> DEFINE Sum(n, f) == f = [i \in 0..n |-> IF i = 0 THEN 0 ELSE f[i - 1] + s[i]]
           summed == {n \in Nat : \E f : Sum(n, f)}
           S == CHOOSE f : Sum(Len(s), f)
<1>1. 0 \in summed
  <2>1. Sum(0, [i \in 0..0 |-> 0])
    OBVIOUS
  <2> QED
    BY <2>1
<1>2. ASSUME NEW n \in Nat, n \in summed PROVE n + 1 \in summed
  <2>1. PICK f : Sum(n, f)
    BY <1>2
  <2> DEFINE g == [i \in 0..(n + 1) |-> IF i = n + 1 THEN f[n] + s[n + 1] ELSE f[i]]
  <2>2. \A i \in 0..n : f[i] = IF i = 0 THEN 0 ELSE f[i - 1] + s[i]
    BY <2>1
  <2>3. \A i \in 0..n : g[i] = f[i]
    OBVIOUS
  <2>4. g[n + 1] = f[n] + s[n + 1]
    OBVIOUS
  <2>5. ASSUME NEW i \in 0..(n + 1) PROVE g[i] = IF i = 0 THEN 0 ELSE g[i - 1] + s[i]
    <3>1. CASE i = n + 1
      BY <2>3, <2>4, <3>1
    <3>2. CASE i \in 0..n
      <4>1. i # 0 => i - 1 \in 0..n
        BY <3>2
      <4> QED
        BY <2>2, <2>3, <3>2, <4>1
    <3> QED
      BY <3>1, <3>2
  <2>6. Sum(n + 1, g)
    BY <2>5
  <2> HIDE DEF g, Sum
  <2> QED
    BY <2>6
<1>3. Len(s) \in summed
  <2> HIDE DEF summed
  <2> QED
    BY <1>1, <1>2, SetInduction
<1>4. S = [i \in 0..Len(s) |-> IF i = 0 THEN 0 ELSE S[i - 1] + s[i]]
  <2>1. \E f : Sum(Len(s), f)
    BY <1>3
  <2>2. Sum(Len(s), S)
    <3> HIDE DEF Sum
    <3> QED
      BY <2>1
  <2> HIDE DEF S
  <2> QED
    BY <2>2
<1>5. PartialSums(s) = S
  BY DEF PartialSums
<1> HIDE DEF S
<1> QED
  BY <1>4, <1>5

\* The members of a sequence of numbers add up to a number, more with each.
LEMMA SumsGrow ==
  ASSUME NEW s \in Seq(Nat)
  PROVE  /\ \A n \in 0..Len(s) : PartialSums(s)[n] \in Nat
         /\ \A m, n \in 0..Len(s) : m <= n => PartialSums(s)[m] <= PartialSums(s)[n]
<1> DEFINE S == PartialSums(s)
           typed == {n \in Nat : n <= Len(s) => S[n] \in Nat}
<1>1. S[0] = 0 /\ \A n \in 1..Len(s) : S[n] = S[n - 1] + s[n] /\ s[n] \in Nat
  BY SumsAdd
<1> HIDE DEF S
<1>2. ASSUME NEW n \in Nat, n + 1 <= Len(s)
      PROVE  S[n + 1] = S[n] + s[n + 1] /\ s[n + 1] \in Nat
  <2>1. n + 1 \in 1..Len(s) /\ (n + 1) - 1 = n
    BY <1>2
  <2> QED
    BY <1>1, <2>1
<1>3. \A n \in 0..Len(s) : S[n] \in Nat
  <2>1. 0 \in typed
    BY <1>1
  <2>2. ASSUME NEW n \in Nat, n \in typed PROVE n + 1 \in typed
    BY <1>2, <2>2
  <2>3. Nat \subseteq typed
    <3> HIDE DEF typed
    <3> QED
      BY <2>1, <2>2, SetInduction
  <2> QED
    BY <2>3
<1>4. ASSUME NEW m \in 0..Len(s), NEW n \in 0..Len(s), m <= n PROVE S[m] <= S[n]
  <2> DEFINE grown == {i \in Nat : m <= i /\ i <= Len(s) => S[m] <= S[i]}
  <2>1. 0 \in grown
    BY <1>1
  <2>2. ASSUME NEW i \in Nat, i \in grown PROVE i + 1 \in grown
    <3> SUFFICES ASSUME m <= i + 1, i + 1 <= Len(s) PROVE S[m] <= S[i + 1]
      OBVIOUS
    <3>1. CASE m = i + 1
      BY <1>3, <3>1
    <3>2. CASE m <= i
      <4>1. S[m] <= S[i] /\ S[i] \in Nat /\ S[m] \in Nat
        BY <1>3, <2>2, <3>2
      <4>2. S[i + 1] = S[i] + s[i + 1] /\ s[i + 1] \in Nat
        BY <1>2
      <4> QED
        BY <4>1, <4>2
    <3> QED
      BY <3>1, <3>2
  <2>3. Nat \subseteq grown
    <3> HIDE DEF grown
    <3> QED
      BY <2>1, <2>2, SetInduction
  <2>4. n \in grown
    BY <2>3
  <2> QED
    BY <1>4, <2>4
<1> QED
  BY <1>3, <1>4 DEF S

\* Sequences with the same beginning have the same sum of it.
LEMMA SumsOfBeginning ==
  ASSUME NEW s \in Seq(Nat), NEW t \in Seq(Nat), NEW m \in Nat, m <= Len(s), m <= Len(t),
         \A i \in 1..m : s[i] = t[i]
  PROVE  PartialSums(s)[m] = PartialSums(t)[m]
<1> DEFINE S == PartialSums(s)
           T == PartialSums(t)
           same == {n \in Nat : n <= m => S[n] = T[n]}
<1>1. /\ S[0] = 0 /\ \A n \in 1..Len(s) : S[n] = S[n - 1] + s[n]
      /\ T[0] = 0 /\ \A n \in 1..Len(t) : T[n] = T[n - 1] + t[n]
  BY SumsAdd
<1> HIDE DEF S, T
<1>2. 0 \in same
  BY <1>1
<1>3. ASSUME NEW n \in Nat, n \in same PROVE n + 1 \in same
  <2> SUFFICES ASSUME n + 1 <= m PROVE S[n + 1] = T[n + 1]
    OBVIOUS
  <2>1. /\ n + 1 \in 1..Len(s) /\ n + 1 \in 1..Len(t) /\ n + 1 \in 1..m
        /\ (n + 1) - 1 = n
    OBVIOUS
  <2>2. S[n] = T[n]
    BY <1>3
  <2> QED
    BY <1>1, <2>1, <2>2
<1>4. Nat \subseteq same
  <2> HIDE DEF same
  <2> QED
    BY <1>2, <1>3, SetInduction
<1> QED
  BY <1>4 DEF S, T

\* A sum is a number, of nothing 0, and one more member adds to it.
LEMMA SumOfIs ==
  /\ SumOf(<<>>) = 0
  /\ \A s \in Seq(Nat) : SumOf(s) \in Nat
  /\ \A s \in Seq(Nat), x \in Nat : SumOf(Append(s, x)) = SumOf(s) + x
<1>1. SumOf(<<>>) = 0
  <2>1. <<>> \in Seq(Nat) /\ Len(<<>>) = 0
    OBVIOUS
  <2> QED
    BY <2>1, SumsAdd DEF SumOf
<1>2. ASSUME NEW s \in Seq(Nat) PROVE SumOf(s) \in Nat
  <2>1. Len(s) \in 0..Len(s)
    OBVIOUS
  <2> QED
    BY <2>1, SumsGrow DEF SumOf
<1>3. ASSUME NEW s \in Seq(Nat), NEW x \in Nat PROVE SumOf(Append(s, x)) = SumOf(s) + x
  <2> DEFINE t == Append(s, x)
  <2>1. /\ t \in Seq(Nat) /\ Len(t) = Len(s) + 1 /\ t[Len(s) + 1] = x
        /\ \A i \in 1..Len(s) : s[i] = t[i]
        /\ Len(s) \in Nat /\ Len(s) <= Len(t) /\ Len(s) <= Len(s)
    OBVIOUS
  <2> HIDE DEF t
  <2>2. PartialSums(s)[Len(s)] = PartialSums(t)[Len(s)]
    BY <2>1, SumsOfBeginning
  <2>3. Len(t) \in 1..Len(t) /\ Len(t) - 1 = Len(s)
    BY <2>1
  <2>4. PartialSums(t)[Len(t)] = PartialSums(t)[Len(t) - 1] + t[Len(t)]
    BY <2>1, <2>3, SumsAdd
  <2> QED
    BY <2>1, <2>2, <2>3, <2>4 DEF SumOf, t
<1> QED
  BY <1>1, <1>2, <1>3
=============================================================================
