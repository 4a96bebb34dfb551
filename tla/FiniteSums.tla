----------------------------- MODULE FiniteSums -----------------------------
(***************************************************************************)
(* What SumFunctionOnSet adds up: the amounts of a finite set of rows, in  *)
(* whatever order its definition takes them.  The modules that reason about*)
(* a balance, a reserve or a total cite these facts.                       *)
(*                                                                         *)
(* Induction is by a smallest counterexample: a set of subsets of a finite *)
(* set has a minimal member (WFMin), so none has a first one that fails.   *)
(***************************************************************************)
EXTENDS Functions, FiniteSetTheorems, TLAPS

\* What SumFunctionOnSet takes next from s.
Taken(s) == CHOOSE x \in s : TRUE

\* g adds up f over every subset of S.
AddsUp(f, g, S) ==
    g = [s \in SUBSET S |-> IF s = {} THEN 0 ELSE f[Taken(s)] + g[s \ {Taken(s)}]]

\* A set of subsets of a finite set has a smallest member.
LEMMA SmallestSubset ==
    ASSUME NEW S, IsFiniteSet(S), NEW B, B \subseteq SUBSET S, B # {}
    PROVE  \E T \in B : \A U \in B : U \subseteq T => U = T
<1> DEFINE R == StrictSubsetOrdering(S)
<1>1. IsWellFoundedOn(R, SUBSET S)
  BY FS_StrictSubsetOrderingWellFounded, FS_FiniteSubsetsOfFinite
<1> HIDE DEF R
<1>2. PICK T \in B : \A U \in B : ~(<<U, T>> \in R)
  BY <1>1, WFMin
<1>3. ASSUME NEW U \in B, U \subseteq T, U # T PROVE FALSE
  <2>1. <<U, T>> \in (SUBSET S) \X (SUBSET S)
    BY <1>3
  <2>2. <<U, T>> \in R
    BY <1>3, <2>1 DEF R, StrictSubsetOrdering
  <2> QED
    BY <1>2, <2>2
<1> QED
  BY <1>3

\* A finite set of numbers has a largest member.
LEMMA LargestMember ==
    ASSUME NEW S, IsFiniteSet(S), \A x \in S : x \in Int, S # {}
    PROVE  \E x \in S : \A y \in S : x >= y
<1> DEFINE above == [x \in S |-> {y \in S : y >= x}]
           B == {above[x] : x \in S}
<1>1. B \subseteq SUBSET S
  OBVIOUS
<1>2. B # {}
  OBVIOUS
<1>3. \A x \in S : above[x] \in B /\ \A y \in S : y \in above[x] <=> y >= x
  OBVIOUS
<1>4. \A T \in B : \E x \in S : T = above[x]
  OBVIOUS
<1> HIDE DEF B, above
<1>5. PICK T \in B : \A U \in B : U \subseteq T => U = T
  <2>1. \A C : C \subseteq SUBSET S /\ C # {} => \E T \in C : \A U \in C : U \subseteq T => U = T
    BY SmallestSubset
  <2> QED
    BY <1>1, <1>2, <2>1
<1>6. PICK x \in S : T = above[x]
  BY <1>4
<1>7. ASSUME NEW y \in S, ~(x >= y) PROVE FALSE
  <2>1. x \in Int /\ y \in Int /\ above[y] \subseteq S /\ above[x] \subseteq S
    BY <1>1, <1>3
  <2>2. ASSUME NEW z \in above[y] PROVE z \in above[x]
    <3>1. z \in S /\ z \in Int /\ z >= y
      BY <1>3, <2>1
    <3> QED
      BY <1>3, <1>7, <2>1, <3>1
  <2>3. x \in above[x] /\ x \notin above[y]
    BY <1>3, <1>7, <2>1
  <2> QED
    BY <1>3, <1>5, <1>6, <2>2, <2>3
<1> QED
  BY <1>7

LEMMA NextIsMember == ASSUME NEW s, s # {} PROVE Taken(s) \in s
  BY DEF Taken

LEMMA AddsStep ==
    ASSUME NEW f, NEW g, NEW S, AddsUp(f, g, S), NEW s \in SUBSET S
    PROVE  g[s] = IF s = {} THEN 0 ELSE f[Taken(s)] + g[s \ {Taken(s)}]
<1>1. g = [t \in SUBSET S |-> IF t = {} THEN 0 ELSE f[Taken(t)] + g[t \ {Taken(t)}]]
  BY DEF AddsUp
<1> QED
  BY <1>1, Zenon

\* Two functions that add up f agree where both do.
LEMMA AddsAgree ==
    ASSUME NEW f, NEW S, IsFiniteSet(S), NEW g, AddsUp(f, g, S),
           NEW T, NEW h, AddsUp(f, h, T), NEW r, r \subseteq S, r \subseteq T
    PROVE  g[r] = h[r]
<1> DEFINE B == {s \in SUBSET S : s \subseteq T /\ g[s] # h[s]}
<1>1. SUFFICES ASSUME B # {} PROVE FALSE
  OBVIOUS
<1>2. PICK s \in B : \A u \in B : u \subseteq s => u = s
  <2>1. B \subseteq SUBSET S
    OBVIOUS
  <2> HIDE DEF B
  <2> QED
    BY <1>1, <2>1, SmallestSubset
<1>3. s \in SUBSET S /\ s \in SUBSET T /\ g[s] # h[s]
  OBVIOUS
<1>4. s # {}
  BY <1>3, AddsStep, Zenon
<1> DEFINE q == s \ {Taken(s)}
<1>5. q \subseteq s /\ q # s
  BY <1>4, NextIsMember
<1>6. g[q] = h[q]
  BY <1>2, <1>3, <1>5
<1>7. g[s] = f[Taken(s)] + g[q] /\ h[s] = f[Taken(s)] + h[q]
  <2>1. g[s] = IF s = {} THEN 0 ELSE f[Taken(s)] + g[s \ {Taken(s)}]
    BY <1>3, AddsStep
  <2>2. h[s] = IF s = {} THEN 0 ELSE f[Taken(s)] + h[s \ {Taken(s)}]
    BY <1>3, AddsStep
  <2> QED
    BY <1>4, <2>1, <2>2, Zenon
<1> QED
  BY <1>3, <1>6, <1>7

\* Every finite set can be added up.
LEMMA SumExists ==
    ASSUME NEW f, NEW S, IsFiniteSet(S)
    PROVE  \E g : AddsUp(f, g, S)
<1> DEFINE B == {s \in SUBSET S : ~\E g : AddsUp(f, g, s)}
<1>1. SUFFICES ASSUME B # {} PROVE FALSE
  OBVIOUS
<1>2. PICK T \in B : \A u \in B : u \subseteq T => u = T
  <2>1. B \subseteq SUBSET S
    OBVIOUS
  <2> HIDE DEF B
  <2> QED
    BY <1>1, <2>1, SmallestSubset
<1> DEFINE G(s) == CHOOSE g : AddsUp(f, g, s)
           h == [s \in SUBSET T |-> IF s = {} THEN 0
                                   ELSE f[Taken(s)] + G(s \ {Taken(s)})[s \ {Taken(s)}]]
<1>3. \A s \in SUBSET T : s # T => AddsUp(f, G(s), s)
  <2> SUFFICES ASSUME NEW s \in SUBSET T, s # T PROVE AddsUp(f, G(s), s)
    OBVIOUS
  <2>1. \E g : AddsUp(f, g, s)
    BY <1>2
  <2> QED
    BY <2>1
<1> HIDE DEF G
<1>4. ASSUME NEW s \in SUBSET T, s # {}
      PROVE  G(s \ {Taken(s)})[s \ {Taken(s)}] = h[s \ {Taken(s)}]
  <2> DEFINE r == s \ {Taken(s)}
  <2>1. r \in SUBSET T /\ r # T /\ IsFiniteSet(r)
    <3>1. r \in SUBSET T /\ r # T
      BY <1>4, NextIsMember
    <3>2. r \subseteq S
      BY <1>2, <3>1
    <3> QED
      BY <3>1, <3>2, FS_Subset
  <2>2. AddsUp(f, G(r), r)
    BY <1>3, <2>1
  <2> HIDE DEF r
  <2>3. G(r)[r] = IF r = {} THEN 0 ELSE f[Taken(r)] + G(r)[r \ {Taken(r)}]
    <3>1. r \in SUBSET r
      OBVIOUS
    <3> QED
      BY <2>2, <3>1, AddsStep
  <2>4. h[r] = IF r = {} THEN 0 ELSE f[Taken(r)] + G(r \ {Taken(r)})[r \ {Taken(r)}]
    BY <2>1, Zenon
  <2>5. ASSUME r # {}
        PROVE  G(r)[r \ {Taken(r)}] = G(r \ {Taken(r)})[r \ {Taken(r)}]
    <3> DEFINE q == r \ {Taken(r)}
    <3>1. q \in SUBSET T /\ q # T /\ q \subseteq r
      BY <2>1, <2>5, NextIsMember
    <3>2. AddsUp(f, G(q), q)
      BY <1>3, <3>1
    <3> HIDE DEF q
    <3>3. G(r)[q] = G(q)[q]
      BY <2>1, <2>2, <3>1, <3>2, AddsAgree
    <3> QED
      BY <3>3 DEF q
  <2>6. G(r)[r] = h[r]
    <3> HIDE DEF h
    <3>1. CASE r = {}
      BY <2>3, <2>4, <3>1, Zenon
    <3>2. CASE r # {}
      BY <2>3, <2>4, <2>5, <3>2, Zenon
    <3> QED
      BY <3>1, <3>2
  <2> QED
    BY <2>6 DEF r
<1>5. h = [s \in SUBSET T |-> IF s = {} THEN 0 ELSE f[Taken(s)] + h[s \ {Taken(s)}]]
  <2>1. \A s \in SUBSET T : h[s] = IF s = {} THEN 0 ELSE f[Taken(s)] + h[s \ {Taken(s)}]
    <3> SUFFICES ASSUME NEW s \in SUBSET T
                 PROVE  h[s] = IF s = {} THEN 0 ELSE f[Taken(s)] + h[s \ {Taken(s)}]
      OBVIOUS
    <3>1. h[s] = IF s = {} THEN 0 ELSE f[Taken(s)] + G(s \ {Taken(s)})[s \ {Taken(s)}]
      BY Zenon
    <3> HIDE DEF h
    <3> QED
      BY <1>4, <3>1, Zenon
  <2>2. h = [s \in SUBSET T |-> h[s]]
    BY Zenon
  <2> HIDE DEF h
  <2> QED
    BY <2>1, <2>2, Zenon
<1>6. AddsUp(f, h, T)
  <2> HIDE DEF h
  <2> QED
    BY <1>5 DEF AddsUp
<1> QED
  BY <1>2, <1>6

-----------------------------------------------------------------------------
(* The sum of the rows of a finite set.                                    *)

LEMMA SumValue ==
    ASSUME NEW f, NEW S, IsFiniteSet(S)
    PROVE  \E g : AddsUp(f, g, S) /\ SumFunctionOnSet(f, S) = g[S]
<1> DEFINE G == CHOOSE g : AddsUp(f, g, S)
<1>1. AddsUp(f, G, S)
  BY SumExists
<1>2. SumFunctionOnSet(f, S) = G[S]
  BY DEF SumFunctionOnSet, FoldFunctionOnSet, MapThenFoldSet, AddsUp, Taken
<1> QED
  BY <1>1, <1>2

LEMMA SumEmpty == \A f : SumFunctionOnSet(f, {}) = 0
<1> TAKE f
<1>1. PICK g : AddsUp(f, g, {}) /\ SumFunctionOnSet(f, {}) = g[{}]
  BY FS_EmptySet, SumValue
<1>2. {} \in SUBSET {}
  OBVIOUS
<1> QED
  BY <1>1, <1>2, AddsStep

LEMMA SumStep ==
    ASSUME NEW f, NEW S, IsFiniteSet(S), S # {}
    PROVE  SumFunctionOnSet(f, S) = f[Taken(S)] + SumFunctionOnSet(f, S \ {Taken(S)})
<1> DEFINE R == S \ {Taken(S)}
<1>1. IsFiniteSet(R) /\ R \subseteq S /\ R \in SUBSET S
  BY FS_Subset
<1> HIDE DEF R
<1>2. PICK g : AddsUp(f, g, S) /\ SumFunctionOnSet(f, S) = g[S]
  BY SumValue
<1>3. PICK h : AddsUp(f, h, R) /\ SumFunctionOnSet(f, R) = h[R]
  BY <1>1, SumValue
<1>4. g[S] = f[Taken(S)] + g[R]
  <2>1. S \in SUBSET S
    OBVIOUS
  <2>2. g[S] = IF S = {} THEN 0 ELSE f[Taken(S)] + g[S \ {Taken(S)}]
    BY <1>2, <2>1, AddsStep
  <2> QED
    BY <2>2, Zenon DEF R
<1>5. g[R] = h[R]
  BY <1>1, <1>2, <1>3, AddsAgree
<1> QED
  BY <1>2, <1>3, <1>4, <1>5, Zenon DEF R

\* Sums of integers are integers.
LEMMA SumType ==
    ASSUME NEW S, IsFiniteSet(S), NEW f, \A x \in S : f[x] \in Int
    PROVE  SumFunctionOnSet(f, S) \in Int
<1> DEFINE B == {s \in SUBSET S : SumFunctionOnSet(f, s) \notin Int}
<1>1. SUFFICES ASSUME B # {} PROVE FALSE
  <2>1. S \in SUBSET S
    OBVIOUS
  <2> QED
    BY <2>1
<1>2. PICK s \in B : \A u \in B : u \subseteq s => u = s
  <2>1. B \subseteq SUBSET S
    OBVIOUS
  <2> HIDE DEF B
  <2> QED
    BY <1>1, <2>1, SmallestSubset
<1>3. s \subseteq S /\ IsFiniteSet(s) /\ SumFunctionOnSet(f, s) \notin Int
  BY <1>2, FS_Subset
<1>4. s # {}
  BY <1>3, SumEmpty
<1>5. s \ {Taken(s)} \subseteq s /\ s \ {Taken(s)} # s /\ Taken(s) \in S
  BY <1>3, <1>4, NextIsMember
<1>6. SumFunctionOnSet(f, s \ {Taken(s)}) \in Int
  <2>1. s \ {Taken(s)} \in SUBSET S /\ s \ {Taken(s)} \notin B
    BY <1>2, <1>3, <1>5
  <2> QED
    BY <2>1
<1>7. SumFunctionOnSet(f, s) = f[Taken(s)] + SumFunctionOnSet(f, s \ {Taken(s)})
  BY <1>3, <1>4, SumStep
<1> QED
  BY <1>3, <1>5, <1>6, <1>7

\* Any row may be taken first.
LEMMA SumRemove ==
    ASSUME NEW S, IsFiniteSet(S), NEW f, \A x \in S : f[x] \in Int, NEW e \in S
    PROVE  SumFunctionOnSet(f, S) = f[e] + SumFunctionOnSet(f, S \ {e})
<1> DEFINE Fails(s) == \E x \in s : SumFunctionOnSet(f, s) # f[x] + SumFunctionOnSet(f, s \ {x})
           B == {s \in SUBSET S : Fails(s)}
<1>1. SUFFICES ASSUME B # {} PROVE FALSE
  <2>1. S \in SUBSET S
    OBVIOUS
  <2> QED
    BY <2>1
<1>2. PICK s \in B : \A u \in B : u \subseteq s => u = s
  <2>1. B \subseteq SUBSET S
    OBVIOUS
  <2> HIDE DEF B
  <2> QED
    BY <1>1, <2>1, SmallestSubset
<1>3. s \subseteq S /\ IsFiniteSet(s)
  BY <1>2, FS_Subset
<1>4. PICK x \in s : SumFunctionOnSet(f, s) # f[x] + SumFunctionOnSet(f, s \ {x})
  BY <1>2
<1> DEFINE c == Taken(s)
<1>5. c \in s
  BY <1>4, NextIsMember
<1>6. SumFunctionOnSet(f, s) = f[c] + SumFunctionOnSet(f, s \ {c})
  BY <1>3, <1>4, SumStep
<1>7. ASSUME NEW y \in s, NEW z \in s, y # z
      PROVE  SumFunctionOnSet(f, s \ {y}) = f[z] + SumFunctionOnSet(f, s \ {y, z})
  <2>1. s \ {y} \in SUBSET S /\ s \ {y} \subseteq s /\ s \ {y} # s
    BY <1>3
  <2>2. ~Fails(s \ {y})
    BY <1>2, <2>1
  <2>3. z \in s \ {y} /\ (s \ {y}) \ {z} = s \ {y, z}
    BY <1>7
  <2> QED
    BY <2>2, <2>3
<1> HIDE DEF c
<1>8. x # c
  BY <1>4, <1>6
<1>9. SumFunctionOnSet(f, s \ {c}) = f[x] + SumFunctionOnSet(f, s \ {c, x})
  BY <1>5, <1>7, <1>8
<1>10. SumFunctionOnSet(f, s \ {x}) = f[c] + SumFunctionOnSet(f, s \ {c, x})
  <2>1. s \ {x, c} = s \ {c, x}
    OBVIOUS
  <2> QED
    BY <1>5, <1>7, <1>8, <2>1
<1>11. SumFunctionOnSet(f, s \ {c, x}) \in Int /\ f[x] \in Int /\ f[c] \in Int
  <2>1. IsFiniteSet(s \ {c, x}) /\ \A y \in s \ {c, x} : f[y] \in Int
    BY <1>3, FS_Subset
  <2> QED
    BY <1>3, <1>5, <2>1, SumType
<1> QED
  BY <1>4, <1>6, <1>9, <1>10, <1>11

\* Another row adds its amount.
LEMMA SumAdd ==
    ASSUME NEW S, IsFiniteSet(S), NEW f, \A x \in S : f[x] \in Int, NEW e, e \notin S, f[e] \in Int
    PROVE  SumFunctionOnSet(f, S \cup {e}) = SumFunctionOnSet(f, S) + f[e]
<1>1. IsFiniteSet(S \cup {e}) /\ (S \cup {e}) \ {e} = S /\ \A x \in S \cup {e} : f[x] \in Int
  BY FS_AddElement
<1> DEFINE T == S \cup {e}
<1>2. SumFunctionOnSet(f, T) = f[e] + SumFunctionOnSet(f, T \ {e})
  <2>1. IsFiniteSet(T) /\ e \in T /\ \A x \in T : f[x] \in Int
    BY <1>1
  <2> HIDE DEF T
  <2> QED
    BY <2>1, SumRemove
<1>3. T \ {e} = S
  BY <1>1
<1>4. SumFunctionOnSet(f, S) \in Int
  BY SumType
<1> HIDE DEF T
<1>5. SumFunctionOnSet(f, T) = f[e] + SumFunctionOnSet(f, S)
  BY <1>2, <1>3, Zenon
<1>6. SumFunctionOnSet(f, T) = SumFunctionOnSet(f, S) + f[e]
  BY <1>4, <1>5
<1> QED
  BY <1>6 DEF T

\* The sum depends on the rows that are added only.
LEMMA SumAgree ==
    ASSUME NEW S, IsFiniteSet(S), NEW f, NEW h, \A x \in S : f[x] = h[x]
    PROVE  SumFunctionOnSet(f, S) = SumFunctionOnSet(h, S)
<1> DEFINE B == {s \in SUBSET S : SumFunctionOnSet(f, s) # SumFunctionOnSet(h, s)}
<1>1. SUFFICES ASSUME B # {} PROVE FALSE
  <2>1. S \in SUBSET S
    OBVIOUS
  <2> QED
    BY <2>1
<1>2. PICK s \in B : \A u \in B : u \subseteq s => u = s
  <2>1. B \subseteq SUBSET S
    OBVIOUS
  <2> HIDE DEF B
  <2> QED
    BY <1>1, <2>1, SmallestSubset
<1>3. s \subseteq S /\ IsFiniteSet(s) /\ SumFunctionOnSet(f, s) # SumFunctionOnSet(h, s)
  BY <1>2, FS_Subset
<1>4. s # {}
  BY <1>3, SumEmpty
<1>5. s \ {Taken(s)} \subseteq s /\ s \ {Taken(s)} # s /\ Taken(s) \in S
  BY <1>3, <1>4, NextIsMember
<1>6. SumFunctionOnSet(f, s \ {Taken(s)}) = SumFunctionOnSet(h, s \ {Taken(s)})
  <2>1. s \ {Taken(s)} \in SUBSET S /\ s \ {Taken(s)} \notin B
    BY <1>2, <1>3, <1>5
  <2> QED
    BY <2>1
<1>7. /\ SumFunctionOnSet(f, s) = f[Taken(s)] + SumFunctionOnSet(f, s \ {Taken(s)})
      /\ SumFunctionOnSet(h, s) = h[Taken(s)] + SumFunctionOnSet(h, s \ {Taken(s)})
  BY <1>3, <1>4, SumStep
<1> QED
  BY <1>3, <1>5, <1>6, <1>7, Zenon

\* What no row owes is owed by none: sums of natural numbers are natural.
LEMMA SumNat ==
    ASSUME NEW S, IsFiniteSet(S), NEW f, \A x \in S : f[x] \in Nat
    PROVE  SumFunctionOnSet(f, S) \in Nat
<1> DEFINE B == {s \in SUBSET S : SumFunctionOnSet(f, s) \notin Nat}
<1>1. SUFFICES ASSUME B # {} PROVE FALSE
  <2>1. S \in SUBSET S
    OBVIOUS
  <2> QED
    BY <2>1
<1>2. PICK s \in B : \A u \in B : u \subseteq s => u = s
  <2>1. B \subseteq SUBSET S
    OBVIOUS
  <2> HIDE DEF B
  <2> QED
    BY <1>1, <2>1, SmallestSubset
<1>3. s \subseteq S /\ IsFiniteSet(s) /\ SumFunctionOnSet(f, s) \notin Nat
  BY <1>2, FS_Subset
<1>4. s # {}
  BY <1>3, SumEmpty
<1>5. s \ {Taken(s)} \subseteq s /\ s \ {Taken(s)} # s /\ Taken(s) \in S
  BY <1>3, <1>4, NextIsMember
<1>6. SumFunctionOnSet(f, s \ {Taken(s)}) \in Nat
  <2>1. s \ {Taken(s)} \in SUBSET S /\ s \ {Taken(s)} \notin B
    BY <1>2, <1>3, <1>5
  <2> QED
    BY <2>1
<1>7. SumFunctionOnSet(f, s) = f[Taken(s)] + SumFunctionOnSet(f, s \ {Taken(s)})
  BY <1>3, <1>4, SumStep
<1> QED
  BY <1>3, <1>5, <1>6, <1>7

\* No row is more than all of them.
LEMMA SumCovers ==
    ASSUME NEW S, IsFiniteSet(S), NEW f, \A x \in S : f[x] \in Nat, NEW e \in S
    PROVE  f[e] <= SumFunctionOnSet(f, S)
<1>1. SumFunctionOnSet(f, S) = f[e] + SumFunctionOnSet(f, S \ {e})
  <2>1. \A x \in S : f[x] \in Int
    OBVIOUS
  <2> QED
    BY <2>1, SumRemove
<1>2. SumFunctionOnSet(f, S \ {e}) \in Nat
  <2>1. IsFiniteSet(S \ {e})
    BY FS_Subset
  <2> QED
    BY <2>1, SumNat
<1> QED
  BY <1>1, <1>2

\* One row changes its amount.
LEMMA SumReplace ==
    ASSUME NEW S, IsFiniteSet(S), NEW e \in S, NEW f, \A x \in S : f[x] \in Int,
           NEW h, h[e] \in Int, \A x \in S \ {e} : h[x] = f[x]
    PROVE  SumFunctionOnSet(h, S) = SumFunctionOnSet(f, S) - f[e] + h[e]
<1>1. SumFunctionOnSet(f, S) = f[e] + SumFunctionOnSet(f, S \ {e})
  BY SumRemove
<1>2. SumFunctionOnSet(h, S) = h[e] + SumFunctionOnSet(h, S \ {e})
  <2>1. \A x \in S : h[x] \in Int
    OBVIOUS
  <2> QED
    BY <2>1, SumRemove
<1>3. IsFiniteSet(S \ {e}) /\ \A x \in S \ {e} : f[x] \in Int
  BY FS_Subset
<1>4. SumFunctionOnSet(h, S \ {e}) = SumFunctionOnSet(f, S \ {e})
  BY <1>3, SumAgree
<1>5. SumFunctionOnSet(f, S \ {e}) \in Int
  BY <1>3, SumType
<1> QED
  BY <1>1, <1>2, <1>4, <1>5

\* A row joins those that are added up; the others keep their amounts.
LEMMA SumEnters ==
    ASSUME NEW S, IsFiniteSet(S), NEW f, NEW h, \A x \in S : f[x] \in Int /\ h[x] = f[x],
           NEW e, e \notin S, h[e] \in Int
    PROVE  SumFunctionOnSet(h, S \cup {e}) = SumFunctionOnSet(f, S) + h[e]
<1>1. SumFunctionOnSet(h, S \cup {e}) = SumFunctionOnSet(h, S) + h[e]
  <2>1. \A x \in S : h[x] \in Int
    OBVIOUS
  <2> QED
    BY <2>1, SumAdd
<1>2. SumFunctionOnSet(f, S) = SumFunctionOnSet(h, S)
  <2>1. \A x \in S : f[x] = h[x]
    OBVIOUS
  <2> QED
    BY <2>1, SumAgree
<1> QED
  BY <1>1, <1>2

\* A row leaves those that are added up.
LEMMA SumLeaves ==
    ASSUME NEW S, IsFiniteSet(S), NEW f, NEW h, \A x \in S : f[x] \in Int,
           NEW e \in S, \A x \in S \ {e} : h[x] = f[x]
    PROVE  SumFunctionOnSet(h, S \ {e}) = SumFunctionOnSet(f, S) - f[e]
<1>1. SumFunctionOnSet(f, S) = f[e] + SumFunctionOnSet(f, S \ {e})
  BY SumRemove
<1>2. IsFiniteSet(S \ {e}) /\ \A x \in S \ {e} : f[x] \in Int /\ f[x] = h[x]
  BY FS_Subset
<1>3. SumFunctionOnSet(f, S \ {e}) = SumFunctionOnSet(h, S \ {e})
  BY <1>2, SumAgree
<1>4. SumFunctionOnSet(f, S \ {e}) \in Int
  BY <1>2, SumType
<1> QED
  BY <1>1, <1>3, <1>4

\* The sum of two amounts of each row.
LEMMA SumPlus ==
    ASSUME NEW S, IsFiniteSet(S), NEW f, NEW g, NEW h,
           \A x \in S : f[x] \in Int /\ g[x] \in Int /\ h[x] = f[x] + g[x]
    PROVE  SumFunctionOnSet(h, S) = SumFunctionOnSet(f, S) + SumFunctionOnSet(g, S)
<1> DEFINE Fails(s) == SumFunctionOnSet(h, s) # SumFunctionOnSet(f, s) + SumFunctionOnSet(g, s)
           B == {s \in SUBSET S : Fails(s)}
<1>1. SUFFICES ASSUME B # {} PROVE FALSE
  OBVIOUS
<1>2. PICK T \in B : \A U \in B : U \subseteq T => U = T
  <2>1. B \subseteq SUBSET S
    OBVIOUS
  <2> HIDE DEF B
  <2> QED
    BY <1>1, <2>1, SmallestSubset
<1>3. T \subseteq S /\ IsFiniteSet(T) /\ Fails(T)
  BY <1>2, FS_Subset
<1>4. T # {}
  BY <1>3, SumEmpty
<1>5. Taken(T) \in T
  BY <1>4, NextIsMember
<1> DEFINE x == Taken(T)
           U == T \ {x}
<1>6. ~Fails(U) /\ IsFiniteSet(U) /\ U \subseteq S
  <2>1. U \subseteq S /\ U # T
    BY <1>3, <1>5
  <2>2. U \notin B
    BY <1>2, <2>1
  <2> QED
    BY <1>3, <2>1, <2>2, FS_Subset
<1>7. /\ SumFunctionOnSet(f, T) = f[x] + SumFunctionOnSet(f, U)
      /\ SumFunctionOnSet(g, T) = g[x] + SumFunctionOnSet(g, U)
      /\ SumFunctionOnSet(h, T) = h[x] + SumFunctionOnSet(h, U)
  BY <1>3, <1>4, SumStep
<1>8. SumFunctionOnSet(f, U) \in Int /\ SumFunctionOnSet(g, U) \in Int
  BY <1>6, SumType
<1>9. f[x] \in Int /\ g[x] \in Int /\ h[x] = f[x] + g[x]
  BY <1>3, <1>5
<1> HIDE DEF x, U
<1> QED
  BY <1>3, <1>6, <1>7, <1>8, <1>9

\* Rows that add nothing.
LEMMA SumZero ==
    ASSUME NEW S, IsFiniteSet(S), NEW f, \A x \in S : f[x] = 0
    PROVE  SumFunctionOnSet(f, S) = 0
<1> DEFINE total == SumFunctionOnSet(f, S)
<1>1. \A x \in S : f[x] \in Int /\ f[x] \in Int /\ f[x] = f[x] + f[x]
  OBVIOUS
<1>2. total = total + total
  BY <1>1, SumPlus
<1>3. total \in Int
  BY <1>1, SumType
<1> HIDE DEF total
<1>4. total = 0
  BY <1>2, <1>3
<1> QED
  BY <1>4 DEF total

=============================================================================
