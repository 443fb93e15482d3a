------------------------------ MODULE Induction ------------------------------
(***************************************************************************)
(* Induction over the natural numbers for sets, and what it gives for the  *)
(* recursive functions of this project: going through the elements of a    *)
(* sequence one after the other never leaves a set that no single step     *)
(* leaves.                                                                 *)
(***************************************************************************)
EXTENDS Integers, WellFoundedInduction, TLAPS

(* A set with 0 and the successor of each of its numbers has all of them.   *)
LEMMA NatSetInduction ==
    ASSUME NEW S, 0 \in S, \A n \in Nat : n \in S => n + 1 \in S
    PROVE  Nat \subseteq S
<1> SUFFICES ASSUME Nat \ S # {} PROVE FALSE
  OBVIOUS
<1> DEFINE R == OpToRel(<, Nat)
<1>1. IsWellFoundedOn(R, Nat)
  BY NatLessThanWellFounded
<1>2. \A m, n \in Nat : m < n => <<m, n>> \in R
  BY DEF OpToRel
<1> HIDE DEF R
<1>3. PICK least \in Nat \ S : \A n \in Nat \ S : <<n, least>> \notin R
  <2>1. Nat \ S \subseteq Nat
    OBVIOUS
  <2> QED BY <1>1, <2>1, WFMin
<1>4. least - 1 \in Nat /\ least - 1 < least
  OBVIOUS
<1>5. <<least - 1, least>> \in R
  BY <1>2, <1>4
<1>6. least - 1 \in S
  BY <1>3, <1>4, <1>5
<1> QED BY <1>4, <1>6

(* N steps, each of which takes every element of X to one of X.             *)
Steps(X, N) == [1..N -> [X -> X]]

(* The values they go through from base on.                                 *)
Walks(X, base, N, step) ==
    {value \in [0..N -> X] :
        value[0] = base /\ \A n \in 1..N : value[n] = step[n][value[n - 1]]}

(* There are such values, all of them in X.                                 *)
LEMMA StepsExist ==
    ASSUME NEW X, NEW base \in X, NEW N \in Nat, NEW step \in Steps(X, N)
    PROVE  Walks(X, base, N, step) # {}
<1> DEFINE S == {m \in Nat : m <= N => Walks(X, base, m, step) # {}}
<1>1. 0 \in S
  <2>1. [n \in 0..0 |-> base] \in Walks(X, base, 0, step)
    BY DEF Walks
  <2> QED BY <2>1
<1>2. ASSUME NEW m \in Nat, m \in S PROVE m + 1 \in S
  <2> SUFFICES ASSUME m + 1 <= N PROVE Walks(X, base, m + 1, step) # {}
    OBVIOUS
  <2>1. PICK value : value \in Walks(X, base, m, step)
    BY <1>2
  <2> DEFINE next == [n \in 0..(m + 1) |-> IF n <= m THEN value[n]
                                           ELSE step[m + 1][value[m]]]
  <2>2. value \in [0..m -> X] /\ value[0] = base
    BY <2>1 DEF Walks
  <2>3. \A n \in 1..m : value[n] = step[n][value[n - 1]]
    BY <2>1 DEF Walks
  <2>4. step[m + 1][value[m]] \in X
    BY <2>2 DEF Steps
  <2>5. next \in [0..(m + 1) -> X] /\ next[0] = base
    BY <2>2, <2>4
  <2>6. \A n \in 1..(m + 1) : next[n] = step[n][next[n - 1]]
    <3>1. ASSUME NEW n \in 1..m PROVE next[n] = step[n][next[n - 1]]
      <4>1. next[n] = value[n] /\ next[n - 1] = value[n - 1]
        OBVIOUS
      <4> QED BY <2>3, <4>1
    <3>2. next[m + 1] = step[m + 1][next[m]] /\ (m + 1) - 1 = m
      OBVIOUS
    <3>3. \A n \in 1..(m + 1) : n \in 1..m \/ n = m + 1
      OBVIOUS
    <3> HIDE DEF next
    <3> QED BY <3>1, <3>2, <3>3
  <2>7. next \in Walks(X, base, m + 1, step)
    BY <2>5, <2>6 DEF Walks
  <2> QED BY <2>7
<1>3. Nat \subseteq S
  <2> HIDE DEF S
  <2> QED BY <1>1, <1>2, NatSetInduction
<1> QED BY <1>3
=============================================================================
