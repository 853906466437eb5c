----------------------------- MODULE Recursion -----------------------------
(***************************************************************************)
(* Facts about what goes on step by step: a recursive function along a     *)
(* text, a path or a table.  Such a function exists, and what each step    *)
(* keeps holds to its end.                                                 *)
(***************************************************************************)
EXTENDS Integers, WellFoundedInduction, TLAPS

\* The least of some numbers.
LEMMA LeastNumber ==
    ASSUME NEW S \in SUBSET Nat, S # {}
    PROVE  \E m \in S : \A k \in S : m <= k
<1>1. PICK m \in S : \A k \in S : ~(<<k, m>> \in OpToRel(<, Nat))
  BY NatLessThanWellFounded, WFMin
<1>2. \A k \in S : ~(k < m)
  BY <1>1 DEF OpToRel
<1>3. \A k \in S : m <= k
  BY <1>2
<1> QED BY <1>3

\* f runs through the states of a call that goes on step by step.
IsRun(f, n, start, step) ==
    f[0] = start /\ \A i \in 1 .. n : f[i] = step[<<f[i - 1], i>>]

LEMMA StepsExist ==
    ASSUME NEW n \in Nat, NEW S, NEW start \in S, NEW step \in [S \X (1 .. n) -> S]
    PROVE  \E f \in [0 .. n -> S] : IsRun(f, n, start, step)
<1> USE DEF IsRun
<1> DEFINE Good(m) == \E f \in [0 .. m -> S] : IsRun(f, m, start, step)
           bad == {m \in 0 .. n : ~ Good(m)}
<1> SUFFICES ASSUME bad # {} PROVE FALSE
  <2> HIDE DEF Good
  <2>1. n \in 0 .. n
    OBVIOUS
  <2>2. Good(n)
    BY <2>1
  <2> QED BY <2>2 DEF Good
<1>1. PICK m \in bad : \A k \in bad : m <= k
  <2>1. bad \in SUBSET Nat
    OBVIOUS
  <2> HIDE DEF bad
  <2> QED BY <2>1, LeastNumber
<1>2. m \in 0 .. n /\ ~ Good(m)
  OBVIOUS
<1>3. CASE m = 0
  <2> DEFINE f == [i \in 0 .. m |-> start]
  <2>1. f \in [0 .. m -> S] /\ f[0] = start /\ 1 .. m = {}
    BY <1>3
  <2> QED BY <1>2, <2>1
<1>4. CASE m # 0
  <2>1. m - 1 \in 0 .. n /\ ~ (m <= m - 1) /\ m \in 1 .. n
    BY <1>2, <1>4
  <2>2. Good(m - 1)
    BY <1>1, <2>1
  <2>3. PICK g \in [0 .. m - 1 -> S] :
          g[0] = start /\ \A i \in 1 .. m - 1 : g[i] = step[<<g[i - 1], i>>]
    BY <2>2
  <2> DEFINE f == [i \in 0 .. m |-> IF i = m THEN step[<<g[m - 1], m>>] ELSE g[i]]
  <2>4. g[m - 1] \in S
    BY <2>1, <2>3
  <2>5. step[<<g[m - 1], m>>] \in S
    BY <2>1, <2>4
  <2>6. /\ \A i \in 0 .. m : i = m \/ i \in 0 .. m - 1
        /\ m \in 0 .. m /\ m - 1 \in 0 .. m /\ m - 1 # m /\ 0 \in 0 .. m
    BY <2>1
  <2>7. f \in [0 .. m -> S] /\ f[0] = start /\ f[m] = step[<<f[m - 1], m>>]
    BY <1>4, <2>3, <2>5, <2>6
  <2>8. ASSUME NEW i \in 1 .. m, i # m PROVE f[i] = step[<<f[i - 1], i>>]
    <3>1. i \in 1 .. m - 1 /\ i \in 0 .. m /\ i - 1 \in 0 .. m /\ i - 1 # m
      BY <2>1, <2>8
    <3>2. f[i] = g[i] /\ f[i - 1] = g[i - 1]
      BY <2>8, <3>1
    <3> QED BY <2>3, <3>1, <3>2
  <2> HIDE DEF f
  <2>9. \A i \in 1 .. m : f[i] = step[<<f[i - 1], i>>]
    BY <2>7, <2>8
  <2> QED BY <1>2, <2>7, <2>9
<1> QED BY <1>3, <1>4

\* A run whose steps stay in S stays in it.
LEMMA RunsStay ==
    ASSUME NEW n \in Nat, NEW S, NEW g, g[0] \in S,
           \A i \in 1 .. n : g[i - 1] \in S => g[i] \in S
    PROVE  \A i \in 0 .. n : g[i] \in S
<1>1. PICK bad : bad = {i \in 0 .. n : g[i] \notin S}
  OBVIOUS
<1>2. bad \in SUBSET Nat
  BY <1>1
<1> SUFFICES ASSUME bad # {} PROVE FALSE
  BY <1>1
<1>3. PICK m \in bad : \A k \in bad : m <= k
  BY <1>2, LeastNumber
<1>4. m \in 0 .. n /\ g[m] \notin S /\ m # 0
  BY <1>1, <1>3
<1>5. m \in 1 .. n /\ m - 1 \in 0 .. n /\ ~ (m <= m - 1)
  BY <1>4
<1>6. g[m - 1] \in S
  BY <1>1, <1>3, <1>5
<1> QED BY <1>4, <1>5, <1>6

\* A run whose steps lead from one set to the next.
LEMMA RunsFollow ==
    ASSUME NEW n \in Nat, NEW Good, NEW g, g[0] \in Good[0],
           \A i \in 1 .. n : g[i - 1] \in Good[i - 1] => g[i] \in Good[i]
    PROVE  g[n] \in Good[n]
<1>1. PICK bad : bad = {i \in 0 .. n : g[i] \notin Good[i]}
  OBVIOUS
<1>2. bad \in SUBSET Nat
  BY <1>1
<1> SUFFICES ASSUME bad # {} PROVE FALSE
  BY <1>1
<1>3. PICK m \in bad : \A k \in bad : m <= k
  BY <1>2, LeastNumber
<1>4. m \in 0 .. n /\ g[m] \notin Good[m] /\ m # 0
  BY <1>1, <1>3
<1>5. m \in 1 .. n /\ m - 1 \in 0 .. n /\ ~ (m <= m - 1)
  BY <1>4
<1>6. g[m - 1] \in Good[m - 1]
  BY <1>1, <1>3, <1>5
<1> QED BY <1>4, <1>5, <1>6
=============================================================================
