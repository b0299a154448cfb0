----------------------------- MODULE FoldProofs -----------------------------
(***************************************************************************)
(* Lemmas on folds over finite sets (Folds, Functions), which the proofs   *)
(* about cash and change share: the recursive function behind              *)
(* MapThenFoldSet exists, is determined by its equation and keeps to its   *)
(* range; and what a sum does when its terms are added up, compared or     *)
(* changed in one place.  Proofs by induction over the subsets of a finite *)
(* set are put as a smallest counterexample.                               *)
(***************************************************************************)
EXTENDS Folds, Functions, FiniteSetTheorems, TLAPS

(* Leaves are left to Zenon unless they name another prover.               *)
USE Zenon

(* A set of subsets of a finite set has a smallest element.                *)
LEMMA SmallestSubset ==
  ASSUME NEW S, IsFiniteSet(S), NEW T, T \subseteq SUBSET S, T # {}
  PROVE  \E s \in T : \A u \in T : u \subseteq s => u = s
<1>1. IsWellFoundedOn(StrictSubsetOrdering(S), SUBSET S)
  BY FS_StrictSubsetOrderingWellFounded, FS_FiniteSubsetsOfFinite
<1>2. PICK s \in T : \A u \in T : ~(<<u, s>> \in StrictSubsetOrdering(S))
  BY <1>1, WFMin
<1> QED BY <1>2, ZenonT(20) DEF StrictSubsetOrdering

(* A nonempty finite set of integers has a greatest and a least element.   *)
LEMMA Extremes ==
  ASSUME NEW S, \A x \in S : x \in Int, IsFiniteSet(S), S # {}
  PROVE  (\E x \in S : \A y \in S : y <= x) /\ (\E x \in S : \A y \in S : x <= y)
<1> DEFINE Top(s) == \E x \in s : \A y \in s : y <= x
           Bottom(s) == \E x \in s : \A y \in s : x <= y
           T == {s \in SUBSET S : s # {} /\ ~(Top(s) /\ Bottom(s))}
<1>1. ASSUME T # {} PROVE FALSE
  <2>0. T \subseteq SUBSET S /\ T # {}
    BY <1>1
  <2>1. PICK s \in T : \A u \in T : u \subseteq s => u = s
    <3> HIDE DEF T
    <3> QED BY <2>0, SmallestSubset, SMT
  <2>2. s \in SUBSET S /\ s # {} /\ ~(Top(s) /\ Bottom(s))
    BY <2>1
  <2>3. PICK x \in s : TRUE
    BY <2>2
  <2>4. CASE s \ {x} = {}
    <3>1. x \in Int /\ \A y \in s : y = x
      BY <2>2, <2>3, <2>4
    <3> QED BY <2>2, <2>3, <3>1, SMT
  <2>5. CASE s \ {x} # {}
    <3>1. s \ {x} \notin T
      BY <2>1, <2>3, ZenonT(20)
    <3>2. Top(s \ {x}) /\ Bottom(s \ {x})
      BY <2>2, <2>5, <3>1
    <3>3. PICK h \in s \ {x} : \A y \in s \ {x} : y <= h
      BY <3>2
    <3>4. PICK l \in s \ {x} : \A y \in s \ {x} : l <= y
      BY <3>2
    <3>5. Top(s)
      BY <2>2, <2>3, <3>3, SMT
    <3>6. Bottom(s)
      BY <2>2, <2>3, <3>4, SMT
    <3> QED BY <2>2, <3>5, <3>6
  <2> QED BY <2>4, <2>5
<1> QED BY <1>1

(* ch chooses an element of every subset of S that has one.                *)
Chooses(ch, S) == \A s \in SUBSET S : s # {} => ch[s] \in s

(* f and g start alike, and agree on a set when they agree on it without   *)
(* its chosen element.                                                     *)
FoldAlike(f, g, ch, S) ==
  /\ f[{}] = g[{}]
  /\ \A s \in SUBSET S : s # {} /\ f[s \ {ch[s]}] = g[s \ {ch[s]}] => f[s] = g[s]

(* Such functions are the same on the subsets of a finite set.             *)
LEMMA FoldUnique ==
  ASSUME NEW S, IsFiniteSet(S), NEW ch, Chooses(ch, S), NEW f, NEW g, FoldAlike(f, g, ch, S)
  PROVE  \A s \in SUBSET S : f[s] = g[s]
<1> USE DEF Chooses, FoldAlike
<1> SUFFICES ASSUME {s \in SUBSET S : f[s] # g[s]} # {} PROVE FALSE
  OBVIOUS
<1> DEFINE T == {s \in SUBSET S : f[s] # g[s]}
<1>0. T \subseteq SUBSET S /\ T # {}
  OBVIOUS
<1>1. PICK s \in T : \A u \in T : u \subseteq s => u = s
  <2> HIDE DEF T
  <2> QED BY <1>0, SmallestSubset, SMTT(20)
<1>2. s # {} /\ ch[s] \in s /\ s \ {ch[s]} \in SUBSET S /\ s \ {ch[s]} # s
  BY <1>1, ZenonT(20)
<1>3. s \ {ch[s]} \notin T
  BY <1>1, <1>2
<1> QED BY <1>1, <1>2, <1>3, ZenonT(20)

(* g is the fold of the subsets of s: base for the empty set, and for      *)
(* others what h makes of the fold without the chosen element.             *)
FoldOn(g, s, base, ch, h) ==
  \A u \in SUBSET s : g[u] = IF u = {} THEN base ELSE h[<<u, g[u \ {ch[u]}]>>]

(* The fold of a finite set exists, with its values in V.                  *)
LEMMA FoldExists ==
  ASSUME NEW S, IsFiniteSet(S), NEW V, NEW base \in V,
         NEW ch, Chooses(ch, S),
         NEW h, \A s \in SUBSET S, v \in V : s # {} => h[<<s, v>>] \in V
  PROVE  \E g \in [SUBSET S -> V] : FoldOn(g, S, base, ch, h)
<1> DEFINE P(s) == \E g \in [SUBSET s -> V] : FoldOn(g, s, base, ch, h)
           T == {s \in SUBSET S : ~P(s)}
<1>1. ASSUME NEW r \in SUBSET S, NEW s \in SUBSET S, NEW f, NEW g,
             FoldOn(f, r, base, ch, h), FoldOn(g, s, base, ch, h), r \subseteq s
      PROVE  f[r] = g[r]
  <2>1. IsFiniteSet(r)
    BY FS_Subset
  <2>2. FoldAlike(f, g, ch, r)
    BY <1>1, ZenonT(20) DEF FoldOn, FoldAlike
  <2>3. Chooses(ch, r)
    BY DEF Chooses
  <2>4. \A u \in SUBSET r : f[u] = g[u]
    BY <2>1, <2>2, <2>3, FoldUnique, SMT
  <2> QED BY <2>4
<1> SUFFICES ASSUME T # {} PROVE FALSE
  BY ZenonT(20)
<1>2. PICK s \in T : \A u \in T : u \subseteq s => u = s
  <2>1. T \subseteq SUBSET S
    OBVIOUS
  <2> HIDE DEF T
  <2> QED BY <2>1, SmallestSubset, SMT
<1>3. \A u \in SUBSET s : u # s => P(u)
  BY <1>2, ZenonT(20)
<1> DEFINE of(u) == CHOOSE g \in [SUBSET u -> V] : FoldOn(g, u, base, ch, h)
           G == [u \in SUBSET s |-> IF u = {} THEN base
                                    ELSE h[<<u, of(u \ {ch[u]})[u \ {ch[u]}]>>]]
<1>4. \A u \in SUBSET s : u # s => of(u) \in [SUBSET u -> V] /\ FoldOn(of(u), u, base, ch, h)
  BY <1>3, ZenonT(20)
<1>5. \A u \in SUBSET s : u # {} => /\ u \ {ch[u]} \in SUBSET s /\ u \ {ch[u]} # s
                                    /\ u \in SUBSET S /\ ch[u] \in u
  BY <1>2 DEF Chooses
<1>6. G \in [SUBSET s -> V]
  <2>1. ASSUME NEW u \in SUBSET s, u # {}
        PROVE  h[<<u, of(u \ {ch[u]})[u \ {ch[u]}]>>] \in V
    <3>1. of(u \ {ch[u]}) \in [SUBSET (u \ {ch[u]}) -> V]
      BY <1>4, <1>5, <2>1, ZenonT(20)
    <3> HIDE DEF of
    <3>2. of(u \ {ch[u]})[u \ {ch[u]}] \in V
      BY <3>1, ZenonT(20)
    <3> QED BY <1>5, <2>1, <3>2
  <2> QED BY <2>1, ZenonT(20)
<1>7. \A u \in SUBSET s : u # s => G[u] = of(u)[u]
  <2> SUFFICES ASSUME NEW u \in SUBSET s, u # s PROVE G[u] = of(u)[u]
    BY ZenonT(20)
  <2>1. FoldOn(of(u), u, base, ch, h)
    BY <1>4, ZenonT(20)
  <2>2. CASE u = {}
    BY <2>1, <2>2, ZenonT(20) DEF FoldOn
  <2>3. CASE u # {}
    <3> DEFINE w == u \ {ch[u]}
    <3>1. w \in SUBSET s /\ w # s /\ w \subseteq u /\ w \in SUBSET S /\ u \in SUBSET S
      BY <1>5, <2>3
    <3>2. FoldOn(of(w), w, base, ch, h)
      BY <1>4, <3>1, ZenonT(20)
    <3> HIDE DEF of
    <3>3. of(w)[w] = of(u)[w]
      BY <1>1, <2>1, <3>1, <3>2
    <3>4. of(u)[u] = h[<<u, of(u)[w]>>]
      BY <2>1, <2>3 DEF FoldOn
    <3> QED BY <2>3, <3>3, <3>4
  <2> QED BY <2>2, <2>3
<1>8. FoldOn(G, s, base, ch, h)
  <2> SUFFICES ASSUME NEW u \in SUBSET s
               PROVE  G[u] = IF u = {} THEN base ELSE h[<<u, G[u \ {ch[u]}]>>]
    BY ZenonT(20) DEF FoldOn
  <2>1. CASE u = {}
    BY <2>1
  <2>2. CASE u # {}
    <3>1. G[u \ {ch[u]}] = of(u \ {ch[u]})[u \ {ch[u]}]
      BY <1>5, <1>7, <2>2, ZenonT(20)
    <3>2. G[u] = h[<<u, of(u \ {ch[u]})[u \ {ch[u]}]>>]
      BY <2>2
    <3> HIDE DEF G, of
    <3> QED BY <2>2, <3>1, <3>2
  <2> QED BY <2>1, <2>2, ZenonT(20)
<1> QED BY <1>2, <1>6, <1>8, ZenonT(20)

(* The values of it belong to the sets that W gives when they do at the    *)
(* start and adding the chosen element keeps them there.                   *)
FoldWithin(it, W, ch, S) ==
  /\ it[{}] \in W[{}]
  /\ \A s \in SUBSET S : s # {} /\ it[s \ {ch[s]}] \in W[s \ {ch[s]}] => it[s] \in W[s]

(* Then all of its values belong to those sets.                            *)
LEMMA FoldInduction ==
  ASSUME NEW S, IsFiniteSet(S), NEW ch, Chooses(ch, S), NEW it, NEW W, FoldWithin(it, W, ch, S)
  PROVE  \A s \in SUBSET S : it[s] \in W[s]
<1> USE DEF Chooses, FoldWithin
<1> SUFFICES ASSUME {s \in SUBSET S : it[s] \notin W[s]} # {} PROVE FALSE
  OBVIOUS
<1> DEFINE T == {s \in SUBSET S : it[s] \notin W[s]}
<1>0. T \subseteq SUBSET S /\ T # {}
  OBVIOUS
<1>1. PICK s \in T : \A u \in T : u \subseteq s => u = s
  <2> HIDE DEF T
  <2> QED BY <1>0, SmallestSubset, SMT
<1>2. s # {} /\ ch[s] \in s /\ s \ {ch[s]} \in SUBSET S /\ s \ {ch[s]} # s
  BY <1>1, ZenonT(20)
<1>3. s \ {ch[s]} \notin T
  BY <1>1, <1>2, SMT
<1> QED BY <1>1, <1>2, <1>3

(* The element that a sum takes first.                                     *)
Picked(s) == CHOOSE x \in s : TRUE

(* g sums f up over the subsets of D.                                      *)
Sums(g, f, D) ==
  /\ g[{}] = 0
  /\ \A s \in SUBSET D : s # {} => g[s] = f[Picked(s)] + g[s \ {Picked(s)}]

(* A sum is the last value of such a function, an integer when its terms   *)
(* are integers and a natural number when they are natural.                *)
LEMMA SumEquation ==
  ASSUME NEW D, IsFiniteSet(D), NEW V, V \in {Nat, Int}, NEW f \in [D -> V]
  PROVE  \E g \in [SUBSET D -> V] : Sums(g, f, D) /\ SumFunction(f) = g[D]
<1> DEFINE ch == [s \in SUBSET D |-> CHOOSE x \in s : TRUE]
           h == [p \in (SUBSET D) \X V |-> f[ch[p[1]]] + p[2]]
           Body(g) == [s \in SUBSET D |->
                         IF s = {} THEN 0
                         ELSE f[CHOOSE x \in s : TRUE] + g[s \ {CHOOSE x \in s : TRUE}]]
           sum == CHOOSE g : g = Body(g)
<1>1. \A s \in SUBSET D : s # {} => ch[s] \in s /\ ch[s] = CHOOSE x \in s : TRUE
  OBVIOUS
<1>2. \A s \in SUBSET D, v \in V : h[<<s, v>>] = f[ch[s]] + v
  BY ZenonT(20)
<1>3. \A v, w \in V : v + w \in V
  BY SMT
<1>4. 0 \in V
  BY SMT
<1>5. \A s \in SUBSET D : s # {} => f[ch[s]] \in V
  BY <1>1
<1> HIDE DEF ch, h
<1>6. \A s \in SUBSET D, v \in V : s # {} => h[<<s, v>>] \in V
  BY <1>2, <1>3, <1>5, ZenonT(20)
<1>7. PICK g \in [SUBSET D -> V] : FoldOn(g, D, 0, ch, h)
  BY <1>1, <1>4, <1>6, FoldExists, ZenonT(20) DEF Chooses
<1>8. \A s \in SUBSET D : g[s] = IF s = {} THEN 0 ELSE f[ch[s]] + g[s \ {ch[s]}]
  BY <1>2, <1>7, ZenonT(20) DEF FoldOn
<1>9. \A s \in SUBSET D : g[s] = Body(g)[s]
  BY <1>1, <1>8, ZenonT(20)
<1>10. g = Body(g)
  BY <1>9, ZenonT(20)
<1>11. sum = Body(sum)
  BY <1>10, ZenonT(20)
<1>12. \A s \in SUBSET D : sum[s] = IF s = {} THEN 0 ELSE f[ch[s]] + sum[s \ {ch[s]}]
  <2> HIDE DEF sum
  <2> QED BY <1>1, <1>11, ZenonT(20)
<1>13. SumFunction(f) = sum[D]
  BY DEF SumFunction, SumFunctionOnSet, FoldFunctionOnSet, MapThenFoldSet
<1> HIDE DEF sum, Body
<1>14. FoldAlike(sum, g, ch, D)
  BY <1>8, <1>12, ZenonT(20) DEF FoldAlike
<1>15. Chooses(ch, D) /\ D \in SUBSET D
  BY <1>1 DEF Chooses
<1>16. sum[D] = g[D]
  BY <1>14, <1>15, FoldUnique, SMT
<1>17. Sums(g, f, D)
  <2>1. \A s \in SUBSET D : s # {} => ch[s] = Picked(s)
    BY <1>1 DEF Picked
  <2> QED BY <1>8, <2>1, ZenonT(20) DEF Sums
<1> QED BY <1>7, <1>13, <1>16, <1>17

(* What a sum takes first belongs to it.                                   *)
LEMMA PickedIsIn ==
  ASSUME NEW D
  PROVE  /\ Chooses([s \in SUBSET D |-> Picked(s)], D)
         /\ \A s \in SUBSET D : s # {} => Picked(s) \in s /\ s \ {Picked(s)} \in SUBSET D
<1>1. \A s \in SUBSET D : s # {} => Picked(s) \in s
  BY DEF Picked
<1> QED BY <1>1 DEF Chooses

(* The sum of finitely many integers is an integer, and of naturals a      *)
(* natural number.                                                         *)
LEMMA SumTyped ==
  ASSUME NEW D, IsFiniteSet(D), NEW V, V \in {Nat, Int}, NEW f \in [D -> V]
  PROVE  SumFunction(f) \in V
<1>1. PICK g \in [SUBSET D -> V] : SumFunction(f) = g[D]
  BY SumEquation
<1> QED BY <1>1

(* Two functions that sum up alike end alike.                              *)
LEMMA SumsAgree ==
  ASSUME NEW D, IsFiniteSet(D), NEW g, NEW h, g[{}] = h[{}],
         \A s \in SUBSET D : s # {} /\ g[s \ {Picked(s)}] = h[s \ {Picked(s)}] => g[s] = h[s]
  PROVE  g[D] = h[D]
<1>1. PICK ch : ch = [s \in SUBSET D |-> Picked(s)]
  OBVIOUS
<1>2. Chooses(ch, D) /\ D \in SUBSET D
  BY <1>1, PickedIsIn
<1>3. FoldAlike(g, h, ch, D)
  BY <1>1 DEF FoldAlike
<1> QED BY <1>2, <1>3, FoldUnique, SMT

(* The sum of sums.                                                        *)
LEMMA SumAdds ==
  ASSUME NEW D, IsFiniteSet(D), NEW e \in [D -> Int], NEW f \in [D -> Int], NEW s \in [D -> Int],
         \A x \in D : s[x] = e[x] + f[x]
  PROVE  SumFunction(s) = SumFunction(e) + SumFunction(f)
<1>1. PICK E \in [SUBSET D -> Int] : Sums(E, e, D) /\ SumFunction(e) = E[D]
  BY SumEquation
<1>2. PICK F \in [SUBSET D -> Int] : Sums(F, f, D) /\ SumFunction(f) = F[D]
  BY SumEquation
<1>3. PICK S \in [SUBSET D -> Int] : Sums(S, s, D) /\ SumFunction(s) = S[D]
  BY SumEquation
<1>4. PICK T : T = [u \in SUBSET D |-> E[u] + F[u]]
  OBVIOUS
<1>5. S[{}] = T[{}]
  BY <1>1, <1>2, <1>3, <1>4, SMT DEF Sums
<1>6. ASSUME NEW u \in SUBSET D, u # {}, S[u \ {Picked(u)}] = T[u \ {Picked(u)}]
      PROVE  S[u] = T[u]
  <2>1. PICK x : x = Picked(u)
    OBVIOUS
  <2>2. PICK w : w = u \ {x}
    OBVIOUS
  <2>3. x \in D /\ w \in SUBSET D
    BY <1>6, <2>1, <2>2, PickedIsIn
  <2>4. S[u] = s[x] + S[w] /\ E[u] = e[x] + E[w] /\ F[u] = f[x] + F[w]
    BY <1>1, <1>2, <1>3, <1>6, <2>1, <2>2 DEF Sums
  <2>5. S[w] = E[w] + F[w] /\ T[u] = E[u] + F[u] /\ s[x] = e[x] + f[x]
    BY <1>4, <1>6, <2>1, <2>2, <2>3
  <2>6. e[x] \in Int /\ f[x] \in Int /\ E[w] \in Int /\ F[w] \in Int
    BY <2>3
  <2> QED BY <2>4, <2>5, <2>6, SMT
<1>7. S[D] = T[D]
  BY <1>5, <1>6, SumsAgree
<1>8. T[D] = E[D] + F[D]
  BY <1>4
<1> QED BY <1>1, <1>2, <1>3, <1>7, <1>8

(* A single term.                                                          *)
LEMMA SumOfOne ==
  ASSUME NEW D, IsFiniteSet(D), NEW d \in D, NEW v \in Int
  PROVE  SumFunction([x \in D |-> IF x = d THEN v ELSE 0]) = v
<1>1. PICK f : f = [x \in D |-> IF x = d THEN v ELSE 0]
  OBVIOUS
<1>2. f \in [D -> Int]
  BY <1>1, SMT
<1>3. PICK F \in [SUBSET D -> Int] : Sums(F, f, D) /\ SumFunction(f) = F[D]
  BY <1>2, SumEquation
<1>4. PICK T : T = [u \in SUBSET D |-> IF d \in u THEN v ELSE 0]
  OBVIOUS
<1>5. F[{}] = T[{}]
  BY <1>3, <1>4 DEF Sums
<1>6. ASSUME NEW u \in SUBSET D, u # {}, F[u \ {Picked(u)}] = T[u \ {Picked(u)}]
      PROVE  F[u] = T[u]
  <2>1. PICK x : x = Picked(u)
    OBVIOUS
  <2>2. PICK w : w = u \ {x}
    OBVIOUS
  <2>3. x \in D /\ x \in u /\ w \in SUBSET D
    BY <1>6, <2>1, <2>2, PickedIsIn
  <2>4. F[u] = f[x] + F[w] /\ F[w] = T[w]
    BY <1>3, <1>6, <2>1, <2>2 DEF Sums
  <2>5. f[x] = (IF x = d THEN v ELSE 0) /\ T[w] = (IF d \in w THEN v ELSE 0) /\ T[u] = (IF d \in u THEN v ELSE 0)
    BY <1>1, <1>4, <2>3
  <2> QED BY <2>2, <2>3, <2>4, <2>5, SMT
<1>7. F[D] = T[D]
  BY <1>5, <1>6, SumsAgree
<1>8. T[D] = v
  BY <1>4
<1> QED BY <1>1, <1>3, <1>7, <1>8

(* Larger terms have the larger sum.                                       *)
LEMMA SumGrows ==
  ASSUME NEW D, IsFiniteSet(D), NEW e \in [D -> Nat], NEW f \in [D -> Nat], \A x \in D : e[x] <= f[x]
  PROVE  SumFunction(e) <= SumFunction(f)
<1>1. PICK g : g = [x \in D |-> f[x] - e[x]]
  OBVIOUS
<1>2. g \in [D -> Nat] /\ \A x \in D : f[x] = e[x] + g[x]
  <2>1. \A x \in D : f[x] - e[x] \in Nat /\ f[x] = e[x] + (f[x] - e[x])
    <3> SUFFICES ASSUME NEW x \in D PROVE f[x] - e[x] \in Nat /\ f[x] = e[x] + (f[x] - e[x])
      OBVIOUS
    <3>1. e[x] \in Nat /\ f[x] \in Nat /\ e[x] <= f[x]
      OBVIOUS
    <3> QED BY <3>1, SMT
  <2> QED BY <1>1, <2>1
<1>3. e \in [D -> Int] /\ f \in [D -> Int] /\ g \in [D -> Int]
  BY <1>2, SMT
<1>4. SumFunction(f) = SumFunction(e) + SumFunction(g)
  BY <1>2, <1>3, SumAdds, SMT
<1>5. SumFunction(e) \in Nat /\ SumFunction(g) \in Nat
  BY <1>2, SumTyped
<1> QED BY <1>4, <1>5, SMT
=============================================================================
