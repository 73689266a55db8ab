------------------------------ MODULE Folding ------------------------------
(***************************************************************************)
(* What a replay computes.  A replay is FoldLeft of some operation over a  *)
(* list of events or entries, and FoldLeft is a recursive function over    *)
(* the subsets of the list's domain.  The theorems of this module hold for *)
(* every operation; a module of proofs takes them by                       *)
(*    Replaying == INSTANCE Folding WITH op <- ...                         *)
(* The theorems of the library that justify recursion and induction have   *)
(* an operator as a parameter.  Here induction is the existence of a least *)
(* element, and the recursion is shown to be one by building it up.        *)
(***************************************************************************)
EXTENDS Integers, Sequences, SequencesExt, WellFoundedInduction, TLAPS

CONSTANT op(_, _)   \* one step: what has been computed so far, the next element

Folded(base, seq) == FoldLeft(op, base, seq)

(* A set of numbers that is not empty has a least element.                 *)
LEMMA NatMin ==
  ASSUME NEW T \in SUBSET Nat, T # {}
  PROVE  \E x \in T : \A y \in T : x <= y
<1> DEFINE R == {ss \in Nat \X Nat : ss[1] < ss[2]}
<1>1. IsWellFoundedOn(R, Nat)
  BY NatLessThanWellFounded DEF OpToRel
<1> HIDE DEF R
<1>2. PICK x \in T : \A y \in T : ~ (<<y, x>> \in R)
  BY <1>1, WFMin
<1>3. \A y \in T : <<y, x>> \in R <=> y < x
  BY DEF R
<1>4. \A y \in T : x <= y
  <2> SUFFICES ASSUME NEW y \in T PROVE x <= y
    OBVIOUS
  <2>1. ~ (y < x)
    BY <1>2, <1>3
  <2>2. x \in Nat /\ y \in Nat
    OBVIOUS
  <2> QED BY <2>1, <2>2
<1> QED BY <1>4

(* Induction over the numbers, for a set instead of a predicate.           *)
LEMMA NatSetInduction ==
  ASSUME NEW T, 0 \in T, \A n \in Nat : n \in T => n + 1 \in T
  PROVE  Nat \subseteq T
<1> DEFINE Out == {n \in Nat : n \notin T}
<1>1. SUFFICES ASSUME Out # {} PROVE FALSE
  OBVIOUS
<1>2. PICK x \in Out : \A y \in Out : x <= y
  BY <1>1, NatMin
<1>3. x \in Nat /\ x # 0
  OBVIOUS
<1>4. x - 1 \in Nat /\ x - 1 \notin Out /\ (x - 1) + 1 = x
  BY <1>2, <1>3
<1> QED BY <1>4, <1>3

(* One step of the recursion: the greatest position is taken off.          *)
Greatest(s) == CHOOSE x \in s : \A y \in s : x >= y

Unwound(base, seq, g, s) ==
  IF s = {} THEN base ELSE op(g[s \ {Greatest(s)}], seq[Greatest(s)])

IsUnwinding(base, seq, n, g) ==
  g = [s \in SUBSET (1..n) |-> Unwound(base, seq, g, s)]

(* The element that the fold takes from the positions up to n + 1.         *)
LEMMA LastOfPrefix ==
  ASSUME NEW n \in Nat, NEW s \in SUBSET (1..(n + 1)), n + 1 \in s
  PROVE  Greatest(s) = n + 1
<1>1. \A y \in s : n + 1 >= y
  OBVIOUS
<1>2. \A x \in s : (\A y \in s : x >= y) => x = n + 1
  OBVIOUS
<1> QED BY <1>1, <1>2 DEF Greatest

(* There is a function that satisfies the recursion of the fold, on the    *)
(* subsets of any number of positions.                                     *)
LEMMA UnwindingExists ==
  ASSUME NEW base, NEW seq
  PROVE  \A n \in Nat : \E g : IsUnwinding(base, seq, n, g)
<1> DEFINE T == {n \in Nat : \E g : IsUnwinding(base, seq, n, g)}
<1>1. 0 \in T
  <2> DEFINE g == [s \in SUBSET (1..0) |-> base]
  <2>1. SUBSET (1..0) = {{}}
    OBVIOUS
  <2>2. \A s \in SUBSET (1..0) : Unwound(base, seq, g, s) = base
    BY <2>1 DEF Unwound
  <2>3. g = [s \in SUBSET (1..0) |-> Unwound(base, seq, g, s)]
    BY <2>2
  <2> QED BY <2>3 DEF IsUnwinding
<1>2. ASSUME NEW n \in Nat, n \in T
      PROVE  n + 1 \in T
  <2>1. PICK g : IsUnwinding(base, seq, n, g)
    BY <1>2
  <2>2. \A s \in SUBSET (1..n) : g[s] = Unwound(base, seq, g, s)
    BY <2>1 DEF IsUnwinding
  <2> DEFINE h == [s \in SUBSET (1..(n + 1)) |->
                     IF n + 1 \in s THEN op(g[s \ {n + 1}], seq[n + 1]) ELSE g[s]]
  <2>3. ASSUME NEW s \in SUBSET (1..(n + 1)) PROVE h[s] = Unwound(base, seq, h, s)
    <3>1. CASE n + 1 \in s
      <4>1. Greatest(s) = n + 1
        BY <3>1, LastOfPrefix
      <4>2. s \ {n + 1} \in SUBSET (1..n) /\ n + 1 \notin s \ {n + 1}
        OBVIOUS
      <4>3. h[s \ {n + 1}] = g[s \ {n + 1}]
        BY <4>2
      <4> QED BY <3>1, <4>1, <4>3 DEF Unwound
    <3>2. CASE n + 1 \notin s
      <4>1. s \in SUBSET (1..n)
        BY <3>2
      <4>2. h[s] = Unwound(base, seq, g, s)
        BY <3>2, <4>1, <2>2
      <4>3. CASE s = {}
        BY <4>2, <4>3 DEF Unwound
      <4>4. CASE s # {}
        <5>1. s \ {Greatest(s)} \in SUBSET (1..n)
          BY <4>1
        <5>2. h[s \ {Greatest(s)}] = g[s \ {Greatest(s)}]
          BY <5>1
        <5> QED BY <4>2, <4>4, <5>2 DEF Unwound
      <4> QED BY <4>3, <4>4
    <3> QED BY <3>1, <3>2
  <2>4. h = [s \in SUBSET (1..(n + 1)) |-> Unwound(base, seq, h, s)]
    BY <2>3
  <2> HIDE DEF h
  <2>5. IsUnwinding(base, seq, n + 1, h)
    BY <2>4 DEF IsUnwinding
  <2> QED BY <2>5
<1> HIDE DEF T
<1>3. Nat \subseteq T
  BY <1>1, <1>2, NatSetInduction
<1> QED BY <1>3 DEF T

(* The fold is the value of that function for all positions.               *)
LEMMA FoldedUnwinds ==
  ASSUME NEW base, NEW S, NEW seq \in Seq(S)
  PROVE  \E g : IsUnwinding(base, seq, Len(seq), g) /\ Folded(base, seq) = g[1..Len(seq)]
<1> DEFINE it == CHOOSE g : g = [s \in SUBSET (1..Len(seq)) |-> Unwound(base, seq, g, s)]
<1>1. \E g : g = [s \in SUBSET (1..Len(seq)) |-> Unwound(base, seq, g, s)]
  <2>1. Len(seq) \in Nat
    OBVIOUS
  <2>2. PICK g : IsUnwinding(base, seq, Len(seq), g)
    BY <2>1, UnwindingExists
  <2> QED BY <2>2 DEF IsUnwinding
<1>2. it = [s \in SUBSET (1..Len(seq)) |-> Unwound(base, seq, it, s)]
  BY <1>1
<1>3. DOMAIN seq = 1..Len(seq)
  OBVIOUS
<1>4. Folded(base, seq) = it[1..Len(seq)]
  BY <1>3 DEF Folded, FoldLeft, MapThenFoldSet, Unwound, Greatest, Max
<1> QED BY <1>2, <1>4 DEF IsUnwinding

(* The values that a fold goes through, one per element.                   *)
IsRun(base, seq, v) ==
  v[0] = base /\ \A k \in 1..Len(seq) : v[k] = op(v[k - 1], seq[k])

(* A fold goes through such values and ends with the last of them.         *)
LEMMA FoldedIsARun ==
  ASSUME NEW base, NEW S, NEW seq \in Seq(S)
  PROVE  \E v : IsRun(base, seq, v) /\ Folded(base, seq) = v[Len(seq)]
<1>1. PICK g : IsUnwinding(base, seq, Len(seq), g) /\ Folded(base, seq) = g[1..Len(seq)]
  BY FoldedUnwinds
<1> DEFINE v == [k \in 0..Len(seq) |-> g[1..k]]
<1>2. Len(seq) \in Nat
  OBVIOUS
<1>3. \A s \in SUBSET (1..Len(seq)) : g[s] = Unwound(base, seq, g, s)
  BY <1>1 DEF IsUnwinding
<1>4. v[0] = base
  <2>1. 1..0 = {} /\ 1..0 \in SUBSET (1..Len(seq))
    OBVIOUS
  <2>2. g[1..0] = base
    BY <2>1, <1>3 DEF Unwound
  <2>3. 0 \in 0..Len(seq)
    BY <1>2
  <2> QED BY <2>2, <2>3
<1>5. ASSUME NEW k \in 1..Len(seq) PROVE v[k] = op(v[k - 1], seq[k])
  <2>1. 1..k \in SUBSET (1..Len(seq)) /\ 1..k # {} /\ (1..k) \ {k} = 1..(k - 1)
    <3>1. k \in Nat /\ 1 <= k /\ k <= Len(seq)
      BY <1>2
    <3>2. \A j \in 1..k : j \in 1..Len(seq)
      BY <3>1, <1>2
    <3>3. k \in 1..k
      BY <3>1
    <3>4. \A j : j \in (1..k) \ {k} <=> j \in 1..(k - 1)
      BY <3>1
    <3> QED BY <3>2, <3>3, <3>4
  <2>2. Greatest(1..k) = k
    <3>1. k - 1 \in Nat /\ (k - 1) + 1 = k /\ k \in 1..k
      BY <1>2
    <3> QED BY <3>1, LastOfPrefix
  <2>3. g[1..k] = op(g[1..(k - 1)], seq[k])
    BY <2>1, <2>2, <1>3 DEF Unwound
  <2>4. k \in 0..Len(seq) /\ k - 1 \in 0..Len(seq)
    BY <1>2
  <2> QED BY <2>3, <2>4
<1>6. v[Len(seq)] = Folded(base, seq)
  BY <1>1, <1>2
<1> HIDE DEF v
<1> QED BY <1>4, <1>5, <1>6 DEF IsRun

(* Runs over lists that agree up to n agree up to n.                       *)
LEMMA RunsAgree ==
  ASSUME NEW base, NEW s, NEW t, NEW n \in Nat, NEW v, NEW w,
         IsRun(base, s, v), IsRun(base, t, w),
         Len(s) \in Nat, Len(t) \in Nat,
         n <= Len(s), n <= Len(t), \A k \in 1..n : s[k] = t[k]
  PROVE  v[n] = w[n]
<1> DEFINE T == {k \in Nat : k <= n => v[k] = w[k]}
<1>1. 0 \in T
  BY DEF IsRun
<1>2. ASSUME NEW k \in Nat, k \in T PROVE k + 1 \in T
  <2>1. SUFFICES ASSUME k + 1 <= n PROVE v[k + 1] = w[k + 1]
    OBVIOUS
  <2>2. k + 1 \in 1..Len(s) /\ k + 1 \in 1..Len(t) /\ k + 1 \in 1..n /\ (k + 1) - 1 = k
    BY <2>1
  <2>3. v[k] = w[k]
    BY <1>2, <2>1
  <2> QED BY <2>2, <2>3 DEF IsRun
<1> HIDE DEF T
<1>3. Nat \subseteq T
  BY <1>1, <1>2, NatSetInduction
<1> QED BY <1>3 DEF T

(* Folding the empty list changes nothing.                                 *)
THEOREM FoldOfNothing ==
  ASSUME NEW base
  PROVE  Folded(base, << >>) = base
<1>1. << >> \in Seq({})
  OBVIOUS
<1>2. PICK v : IsRun(base, << >>, v) /\ Folded(base, << >>) = v[Len(<< >>)]
  BY <1>1, FoldedIsARun
<1> QED BY <1>2 DEF IsRun

(* Whatever goes through the steps of a fold ends where the fold ends.     *)
THEOREM FoldIsTheRun ==
  ASSUME NEW base, NEW S, NEW seq \in Seq(S), NEW v, IsRun(base, seq, v)
  PROVE  Folded(base, seq) = v[Len(seq)]
<1>1. PICK w : IsRun(base, seq, w) /\ Folded(base, seq) = w[Len(seq)]
  BY FoldedIsARun
<1>2. Len(seq) \in Nat
  OBVIOUS
<1> QED BY <1>1, <1>2, RunsAgree

(* One element more is one step more: replaying an event stream with one   *)
(* event more applies that event to the replay before it.                  *)
THEOREM FoldOfAppend ==
  ASSUME NEW base, NEW S, NEW seq \in Seq(S), NEW e \in S
  PROVE  Folded(base, Append(seq, e)) = op(Folded(base, seq), e)
<1> DEFINE t == Append(seq, e)
<1>1. t \in Seq(S) /\ Len(t) = Len(seq) + 1 /\ Len(seq) \in Nat /\ t[Len(seq) + 1] = e
  OBVIOUS
<1>2. \A k \in 1..Len(seq) : t[k] = seq[k]
  OBVIOUS
<1> HIDE DEF t
<1>3. PICK v : IsRun(base, t, v) /\ Folded(base, t) = v[Len(t)]
  BY <1>1, FoldedIsARun
<1>4. IsRun(base, seq, v)
  <2>1. \A k \in 1..Len(seq) : k \in 1..Len(t)
    BY <1>1
  <2> QED BY <2>1, <1>2, <1>3 DEF IsRun
<1>5. Folded(base, seq) = v[Len(seq)]
  BY <1>4, FoldIsTheRun
<1>6. v[Len(t)] = op(v[Len(seq)], e)
  <2>1. Len(t) \in 1..Len(t) /\ Len(t) - 1 = Len(seq)
    BY <1>1
  <2> QED BY <2>1, <1>1, <1>3 DEF IsRun
<1> QED BY <1>3, <1>5, <1>6 DEF t

(* A fold may be interrupted: replaying the rest of a stream on what its   *)
(* beginning gave is replaying the stream.                                 *)
THEOREM FoldOfConcat ==
  ASSUME NEW base, NEW S, NEW s \in Seq(S), NEW t \in Seq(S)
  PROVE  Folded(base, s \o t) = Folded(Folded(base, s), t)
<1> DEFINE st == s \o t
<1>1. st \in Seq(S) /\ Len(st) = Len(s) + Len(t) /\ Len(s) \in Nat /\ Len(t) \in Nat
  OBVIOUS
<1>2. \A k \in 1..Len(s) : st[k] = s[k]
  OBVIOUS
<1>3. \A k \in 1..Len(t) : st[Len(s) + k] = t[k]
  OBVIOUS
<1> HIDE DEF st
<1>4. PICK v : IsRun(base, st, v) /\ Folded(base, st) = v[Len(st)]
  BY <1>1, FoldedIsARun
<1>5. IsRun(base, s, v)
  BY <1>1, <1>2, <1>4 DEF IsRun
<1>6. Folded(base, s) = v[Len(s)]
  BY <1>5, FoldIsTheRun
<1> DEFINE w == [k \in 0..Len(t) |-> v[Len(s) + k]]
<1>7. w[0] = Folded(base, s)
  BY <1>1, <1>6
<1>8. ASSUME NEW k \in 1..Len(t) PROVE w[k] = op(w[k - 1], t[k])
  <2>1. Len(s) + k \in 1..Len(st) /\ (Len(s) + k) - 1 = Len(s) + (k - 1)
        /\ k \in 0..Len(t) /\ k - 1 \in 0..Len(t)
    BY <1>1
  <2>2. v[Len(s) + k] = op(v[Len(s) + (k - 1)], st[Len(s) + k])
    BY <2>1, <1>4 DEF IsRun
  <2> QED BY <2>1, <2>2, <1>3
<1>9. w[Len(t)] = v[Len(st)]
  BY <1>1
<1> HIDE DEF w
<1>10. IsRun(Folded(base, s), t, w)
  BY <1>7, <1>8 DEF IsRun
<1>11. Folded(Folded(base, s), t) = w[Len(t)]
  BY <1>10, FoldIsTheRun
<1> QED BY <1>4, <1>9, <1>11 DEF st

(* What every step keeps is kept by the fold.                              *)
THEOREM FoldStaysWithin ==
  ASSUME NEW T, NEW base \in T, NEW S, NEW seq \in Seq(S),
         \A x \in T, e \in S : op(x, e) \in T
  PROVE  Folded(base, seq) \in T
<1>1. PICK v : IsRun(base, seq, v) /\ Folded(base, seq) = v[Len(seq)]
  BY FoldedIsARun
<1> DEFINE K == {k \in Nat : k <= Len(seq) => v[k] \in T}
<1>2. 0 \in K
  BY <1>1 DEF IsRun
<1>3. ASSUME NEW k \in Nat, k \in K PROVE k + 1 \in K
  <2>1. SUFFICES ASSUME k + 1 <= Len(seq) PROVE v[k + 1] \in T
    OBVIOUS
  <2>2. k + 1 \in 1..Len(seq) /\ (k + 1) - 1 = k /\ v[k] \in T /\ seq[k + 1] \in S
    BY <2>1, <1>3
  <2> QED BY <2>2, <1>1 DEF IsRun
<1> HIDE DEF K
<1>4. Nat \subseteq K
  BY <1>2, <1>3, NatSetInduction
<1>5. Len(seq) \in Nat
  OBVIOUS
<1> QED BY <1>1, <1>4, <1>5 DEF K
(* What every step keeps between two computations is kept between the      *)
(* folds of the same list.                                                 *)
THEOREM FoldsStayRelated ==
  ASSUME NEW R, NEW b, NEW c, <<b, c>> \in R, NEW S, NEW seq \in Seq(S),
         \A x, y, e : <<x, y>> \in R /\ e \in S => <<op(x, e), op(y, e)>> \in R
  PROVE  <<Folded(b, seq), Folded(c, seq)>> \in R
<1>1. PICK v : IsRun(b, seq, v) /\ Folded(b, seq) = v[Len(seq)]
  BY FoldedIsARun
<1>2. PICK w : IsRun(c, seq, w) /\ Folded(c, seq) = w[Len(seq)]
  BY FoldedIsARun
<1> DEFINE K == {k \in Nat : k <= Len(seq) => <<v[k], w[k]>> \in R}
<1>3. 0 \in K
  BY <1>1, <1>2 DEF IsRun
<1>4. ASSUME NEW k \in Nat, k \in K PROVE k + 1 \in K
  <2>1. SUFFICES ASSUME k + 1 <= Len(seq) PROVE <<v[k + 1], w[k + 1]>> \in R
    OBVIOUS
  <2>2. k + 1 \in 1..Len(seq) /\ (k + 1) - 1 = k /\ <<v[k], w[k]>> \in R /\ seq[k + 1] \in S
    BY <2>1, <1>4
  <2>3. v[k + 1] = op(v[k], seq[k + 1]) /\ w[k + 1] = op(w[k], seq[k + 1])
    BY <1>1, <1>2, <2>2 DEF IsRun
  <2> QED BY <2>2, <2>3
<1> HIDE DEF K
<1>5. Nat \subseteq K
  BY <1>3, <1>4, NatSetInduction
<1>6. Len(seq) \in Nat
  OBVIOUS
<1> QED BY <1>1, <1>2, <1>5, <1>6 DEF K
=============================================================================
