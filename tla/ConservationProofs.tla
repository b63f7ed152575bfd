-------------------------- MODULE ConservationProofs --------------------------
(***************************************************************************)
(* Neither allocator loses memory: every byte that the chunks of a pool    *)
(* offer has a place (NoByteLost), and what malloc, its clients and their  *)
(* out-of-memory handler have adds up (Conserved), at every moment, for    *)
(* any number of threads and any sizes.                                    *)
(*                                                                         *)
(* Both add up over a set whose elements come and go.  The sums are those  *)
(* of MapThenSumSet, which takes the elements in an order of its choice;   *)
(* the first part shows by induction over the finite set, in the form that *)
(* a smallest counterexample is none, that the order does not matter and   *)
(* how a sum changes.  The second part counts the bytes of the pool, place *)
(* by place, over each action; the third is about the system allocator.    *)
(***************************************************************************)
EXTENDS MinAllocatorProofs, MCBlockAllocator, WellFoundedInduction

\* The element MapThenSumSet takes first, and the equation of its recursive function.
First(s) == CHOOSE x \in s : TRUE
Rest(s) == s \ {First(s)}
Adds(g, f, T) == g = [s \in SUBSET T |-> IF s = {} THEN 0 ELSE f[First(s)] + g[Rest(s)]]

SumOf(f, T) == MapThenSumSet(LAMBDA x : f[x], T)

\* The sum is a choice among the solutions of the equation.
LEMMA Unfolded ==
  ASSUME NEW f, NEW T
  PROVE  SumOf(f, T) = (CHOOSE g : Adds(g, f, T))[T]
<1>1. SumOf(f, T)
        = (CHOOSE g : g = [s \in SUBSET T |->
             IF s = {} THEN 0
             ELSE f[CHOOSE x \in s : TRUE] + g[s \ {CHOOSE x \in s : TRUE}]])[T]
  BY DEF SumOf, MapThenSumSet, MapThenFoldSet
<1> QED BY <1>1 DEF Adds, First, Rest

\* Taking out the first element leaves less.
LEMMA FirstIn ==
  ASSUME NEW s, s # {}
  PROVE  First(s) \in s /\ Rest(s) \subseteq s /\ Rest(s) # s
BY DEF First, Rest

\* A set of subsets of a finite set has a smallest member.
LEMMA Smallest ==
  ASSUME NEW T, IsFiniteSet(T), NEW B, B \subseteq SUBSET T, B # {}
  PROVE  \E s \in B : \A u \in B : u \subseteq s => u = s
<1>1. IsWellFoundedOn(StrictSubsetOrdering(T), FiniteSubsetsOf(T))
  BY FS_StrictSubsetOrderingWellFounded
<1>2. FiniteSubsetsOf(T) = SUBSET T
  BY FS_FiniteSubsetsOfFinite
<1>3. \E s \in B : \A u \in B : ~(<<u, s>> \in StrictSubsetOrdering(T))
  <2> DEFINE R == StrictSubsetOrdering(T)
             S == SUBSET T
  <2>1. IsWellFoundedOn(R, S)
    BY <1>1, <1>2
  <2> HIDE DEF R, S
  <2>2. B \subseteq S
    BY DEF S
  <2>3. \E s \in B : \A u \in B : ~(<<u, s>> \in R)
    BY <2>1, <2>2, WFMin
  <2> QED BY <2>3 DEF R
<1>4. PICK s \in B : \A u \in B : ~(<<u, s>> \in StrictSubsetOrdering(T))
  BY <1>3
<1>5. ASSUME NEW u \in B, u \subseteq s, u # s PROVE FALSE
  <2>1. <<u, s>> \in StrictSubsetOrdering(T)
    BY <1>5 DEF StrictSubsetOrdering
  <2> QED BY <1>4, <1>5, <2>1
<1> QED BY <1>4, <1>5

\* The equation has one solution, whatever larger set it is solved for.
LEMMA OneSolution ==
  ASSUME NEW f, NEW T, IsFiniteSet(T), NEW U \in SUBSET T, NEW g, NEW h,
         Adds(g, f, T), Adds(h, f, U), NEW v \in SUBSET U
  PROVE  g[v] = h[v]
<1> DEFINE B == {s \in SUBSET U : g[s] # h[s]}
<1> SUFFICES ASSUME B # {} PROVE FALSE
  OBVIOUS
<1>0. IsFiniteSet(U)
  BY FS_Subset
<1>1. PICK s \in B : \A u \in B : u \subseteq s => u = s
  <2>1. B \subseteq SUBSET U
    OBVIOUS
  <2> HIDE DEF B
  <2> QED BY <1>0, <2>1, Smallest
<1>2. s \in SUBSET T /\ s \in SUBSET U
  OBVIOUS
<1>3. /\ g[s] = IF s = {} THEN 0 ELSE f[First(s)] + g[Rest(s)]
      /\ h[s] = IF s = {} THEN 0 ELSE f[First(s)] + h[Rest(s)]
  BY <1>2 DEF Adds
<1>4. s # {}
  BY <1>3
<1>5. Rest(s) \notin B /\ Rest(s) \in SUBSET U
  BY <1>1, <1>2, <1>4, FirstIn
<1>6. g[Rest(s)] = h[Rest(s)]
  BY <1>5
<1> QED BY <1>3, <1>4, <1>6

\* The equation has a solution.
LEMMA Solvable ==
  ASSUME NEW f, NEW T, IsFiniteSet(T)
  PROVE  \E g : Adds(g, f, T)
<1> DEFINE B == {s \in SUBSET T : ~\E g : Adds(g, f, s)}
<1> SUFFICES ASSUME B # {} PROVE FALSE
  BY T \in SUBSET T
<1>1. PICK s \in B : \A u \in B : u \subseteq s => u = s
  <2>1. B \subseteq SUBSET T
    OBVIOUS
  <2> HIDE DEF B
  <2> QED BY <2>1, Smallest
<1> DEFINE G(u) == CHOOSE g : Adds(g, f, u)
<1>2. ASSUME NEW u \in SUBSET s, u # s PROVE Adds(G(u), f, u)
  <2>1. u \in SUBSET T /\ u \notin B
    BY <1>1, <1>2
  <2>2. \E g : Adds(g, f, u)
    BY <2>1
  <2> QED BY <2>2
<1> DEFINE h == [u \in SUBSET s |-> IF u = {} THEN 0 ELSE f[First(u)] + G(Rest(u))[Rest(u)]]
<1>3. ASSUME NEW u \in SUBSET s, u # {} PROVE h[Rest(u)] = G(Rest(u))[Rest(u)]
  <2> DEFINE w == Rest(u)
  <2>1. w \in SUBSET s /\ w # s
    BY <1>3, FirstIn
  <2>2. Adds(G(w), f, w)
    BY <1>2, <2>1
  <2>3. G(w)[w] = IF w = {} THEN 0 ELSE f[First(w)] + G(w)[Rest(w)]
    <3> HIDE DEF w, G
    <3> QED BY <2>2 DEF Adds
  <2>4. h[w] = IF w = {} THEN 0 ELSE f[First(w)] + G(Rest(w))[Rest(w)]
    <3> HIDE DEF w, G
    <3> QED BY <2>1
  <2>5. CASE w = {}
    <3> HIDE DEF w, G, h
    <3> QED BY <2>3, <2>4, <2>5 DEF w
  <2>6. CASE w # {}
    <3>1. Rest(w) \in SUBSET w /\ Rest(w) \in SUBSET s /\ Rest(w) # s
      <4> HIDE DEF w
      <4> QED BY <2>1, <2>6, FirstIn
    <3>2. Adds(G(Rest(w)), f, Rest(w))
      BY <1>2, <3>1
    <3>3. IsFiniteSet(w)
      <4>1. w \in SUBSET T
        BY <2>1
      <4> HIDE DEF w
      <4> QED BY <4>1, FS_Subset
    <3>4. Rest(w) \in SUBSET Rest(w)
      OBVIOUS
    <3>5. G(w)[Rest(w)] = G(Rest(w))[Rest(w)]
      <4> HIDE DEF w, G
      <4> QED BY <2>2, <3>1, <3>2, <3>3, <3>4, OneSolution
    <3> HIDE DEF w, G, h
    <3> QED BY <2>3, <2>4, <2>6, <3>5 DEF w
  <2> QED BY <2>5, <2>6
<1>4. \A u \in SUBSET s : h[u] = IF u = {} THEN 0 ELSE f[First(u)] + h[Rest(u)]
  <2> SUFFICES ASSUME NEW u \in SUBSET s
               PROVE  h[u] = IF u = {} THEN 0 ELSE f[First(u)] + h[Rest(u)]
    OBVIOUS
  <2>1. h[u] = IF u = {} THEN 0 ELSE f[First(u)] + G(Rest(u))[Rest(u)]
    <3> HIDE DEF G
    <3> QED OBVIOUS
  <2>2. u # {} => h[Rest(u)] = G(Rest(u))[Rest(u)]
    BY <1>3
  <2> HIDE DEF h, G
  <2> QED BY <2>1, <2>2
<1>5. Adds(h, f, s)
  <2>1. h = [u \in SUBSET s |-> h[u]]
    <3> HIDE DEF G
    <3> QED OBVIOUS
  <2> HIDE DEF h
  <2>2. h = [u \in SUBSET s |-> IF u = {} THEN 0 ELSE f[First(u)] + h[Rest(u)]]
    BY <1>4, <2>1
  <2> QED BY <2>2 DEF Adds
<1> QED BY <1>5

\* A solution for T knows the sum over every subset of T.
LEMMA SumSolves ==
  ASSUME NEW f, NEW T, IsFiniteSet(T), NEW g, Adds(g, f, T), NEW U \in SUBSET T
  PROVE  SumOf(f, U) = g[U]
<1>1. IsFiniteSet(U)
  BY FS_Subset
<1>2. \E h : Adds(h, f, U)
  BY <1>1, Solvable
<1>3. ASSUME NEW h, Adds(h, f, U) PROVE g[U] = h[U]
  <2>1. U \in SUBSET U
    OBVIOUS
  <2> QED BY <1>3, <2>1, OneSolution
<1>4. SumOf(f, U) = (CHOOSE h : Adds(h, f, U))[U]
  BY Unfolded
<1> QED BY <1>2, <1>3, <1>4

\* The recursion of the sum.
LEMMA SumByFirst ==
  ASSUME NEW f, NEW T, IsFiniteSet(T)
  PROVE  SumOf(f, T) = IF T = {} THEN 0 ELSE f[First(T)] + SumOf(f, Rest(T))
<1>1. PICK g : Adds(g, f, T)
  BY Solvable
<1>2. SumOf(f, T) = g[T]
  BY <1>1, SumSolves
<1>3. g[T] = IF T = {} THEN 0 ELSE f[First(T)] + g[Rest(T)]
  BY <1>1 DEF Adds
<1>4. T # {} => SumOf(f, Rest(T)) = g[Rest(T)]
  BY <1>1, FirstIn, SumSolves
<1> QED BY <1>2, <1>3, <1>4

\* Nothing adds up to 0.
LEMMA SumOverNone == ASSUME NEW f PROVE SumOf(f, {}) = 0
BY SumByFirst, FS_EmptySet

\* What is summed over.
Summable(f, T) == IsFiniteSet(T) /\ \A x \in T : f[x] \in Int

\* Parts of what can be summed can be summed.
LEMMA SubSummable ==
  ASSUME NEW f, NEW T, Summable(f, T), NEW U \in SUBSET T
  PROVE  Summable(f, U)
BY FS_Subset DEF Summable

\* Sums of integers are integers.
LEMMA SumTyped ==
  ASSUME NEW f, NEW T, Summable(f, T)
  PROVE  SumOf(f, T) \in Int
<1> DEFINE B == {s \in SUBSET T : SumOf(f, s) \notin Int}
<1> SUFFICES ASSUME B # {} PROVE FALSE
  BY T \in SUBSET T
<1>1. PICK s \in B : \A u \in B : u \subseteq s => u = s
  <2>1. B \subseteq SUBSET T
    OBVIOUS
  <2> HIDE DEF B
  <2> QED BY <2>1, Smallest DEF Summable
<1>2. s \in SUBSET T /\ SumOf(f, s) \notin Int
  OBVIOUS
<1>3. SumOf(f, s) = IF s = {} THEN 0 ELSE f[First(s)] + SumOf(f, Rest(s))
  BY <1>2, SubSummable, SumByFirst DEF Summable
<1>4. s # {}
  BY <1>2, <1>3
<1>5. First(s) \in T /\ Rest(s) \in SUBSET T /\ Rest(s) # s /\ Rest(s) \subseteq s
  BY <1>2, <1>4, FirstIn
<1>6. SumOf(f, Rest(s)) \in Int
  BY <1>1, <1>5
<1>7. f[First(s)] \in Int
  BY <1>5 DEF Summable
<1> QED BY <1>2, <1>3, <1>4, <1>6, <1>7

\* Any element may be taken out first.
LEMMA SumTakeOut ==
  ASSUME NEW f, NEW T, Summable(f, T), NEW x \in T
  PROVE  SumOf(f, T) = f[x] + SumOf(f, T \ {x})
<1> DEFINE B == {s \in SUBSET T : \E y \in s : SumOf(f, s) # f[y] + SumOf(f, s \ {y})}
<1> SUFFICES ASSUME B # {} PROVE FALSE
  BY T \in SUBSET T
<1>1. PICK s \in B : \A u \in B : u \subseteq s => u = s
  <2>1. B \subseteq SUBSET T
    OBVIOUS
  <2> HIDE DEF B
  <2> QED BY <2>1, Smallest DEF Summable
<1>2. PICK y \in s : SumOf(f, s) # f[y] + SumOf(f, s \ {y})
  OBVIOUS
<1> DEFINE z == First(s)
<1>3. s \in SUBSET T /\ s # {} /\ z \in s /\ y \in T /\ z \in T
  BY FirstIn
<1>4. SumOf(f, s) = f[z] + SumOf(f, s \ {z})
  <2>1. IsFiniteSet(s)
    BY <1>3, SubSummable DEF Summable
  <2> QED BY <1>3, <2>1, SumByFirst DEF Rest
<1> HIDE DEF z
<1>5. y # z
  BY <1>2, <1>4
<1>6. ASSUME NEW u \in SUBSET s, u # s, NEW v \in u
      PROVE  SumOf(f, u) = f[v] + SumOf(f, u \ {v})
  <2>1. u \in SUBSET T /\ u \notin B
    BY <1>1, <1>6
  <2> QED BY <1>6, <2>1
<1>7. SumOf(f, s \ {z}) = f[y] + SumOf(f, (s \ {z}) \ {y})
  <2>1. s \ {z} \in SUBSET s /\ s \ {z} # s /\ y \in s \ {z}
    BY <1>3, <1>5
  <2> QED BY <1>6, <2>1
<1>8. SumOf(f, s \ {y}) = f[z] + SumOf(f, (s \ {y}) \ {z})
  <2>1. s \ {y} \in SUBSET s /\ s \ {y} # s /\ z \in s \ {y}
    BY <1>3, <1>5
  <2> QED BY <1>6, <2>1
<1>9. (s \ {z}) \ {y} = (s \ {y}) \ {z}
  OBVIOUS
<1>10. f[y] \in Int /\ f[z] \in Int /\ SumOf(f, (s \ {y}) \ {z}) \in Int
  <2>1. (s \ {y}) \ {z} \in SUBSET T
    BY <1>3
  <2> QED BY <1>3, <2>1, SubSummable, SumTyped DEF Summable
<1> DEFINE a == SumOf(f, (s \ {y}) \ {z})
<1>11. SumOf(f, s) = f[z] + (f[y] + a) /\ f[y] + SumOf(f, s \ {y}) = f[y] + (f[z] + a)
  BY <1>4, <1>7, <1>8, <1>9
<1>12. a \in Int
  BY <1>10
<1> HIDE DEF a
<1>13. f[z] + (f[y] + a) = f[y] + (f[z] + a)
  BY <1>10, <1>12
<1> QED BY <1>2, <1>11, <1>13

\* The sum over a set and one more element.
LEMMA SumPutIn ==
  ASSUME NEW f, NEW T, NEW x, x \notin T, Summable(f, T \cup {x})
  PROVE  SumOf(f, T \cup {x}) = SumOf(f, T) + f[x]
<1>1. (T \cup {x}) \ {x} = T
  OBVIOUS
<1>2. SumOf(f, T \cup {x}) = f[x] + SumOf(f, T)
  BY <1>1, SumTakeOut
<1>3. f[x] \in Int /\ SumOf(f, T) \in Int
  BY SubSummable, SumTyped DEF Summable
<1> QED BY <1>2, <1>3

\* Only the values on the set matter.
LEMMA SumSame ==
  ASSUME NEW f, NEW h, NEW T, IsFiniteSet(T), \A x \in T : f[x] = h[x]
  PROVE  SumOf(f, T) = SumOf(h, T)
<1> DEFINE B == {s \in SUBSET T : SumOf(f, s) # SumOf(h, s)}
<1> SUFFICES ASSUME B # {} PROVE FALSE
  BY T \in SUBSET T
<1>1. PICK s \in B : \A u \in B : u \subseteq s => u = s
  <2>1. B \subseteq SUBSET T
    OBVIOUS
  <2> HIDE DEF B
  <2> QED BY <2>1, Smallest
<1>2. s \in SUBSET T /\ SumOf(f, s) # SumOf(h, s)
  OBVIOUS
<1>3. IsFiniteSet(s)
  BY <1>2, FS_Subset
<1>4. /\ SumOf(f, s) = IF s = {} THEN 0 ELSE f[First(s)] + SumOf(f, Rest(s))
      /\ SumOf(h, s) = IF s = {} THEN 0 ELSE h[First(s)] + SumOf(h, Rest(s))
  BY <1>3, SumByFirst
<1>5. s # {}
  BY <1>2, <1>4
<1>6. First(s) \in T /\ Rest(s) \in SUBSET T /\ Rest(s) # s /\ Rest(s) \subseteq s
  BY <1>2, <1>5, FirstIn
<1>7. SumOf(f, Rest(s)) = SumOf(h, Rest(s))
  BY <1>1, <1>6
<1> QED BY <1>2, <1>4, <1>5, <1>6, <1>7

\* One value changes.
LEMMA SumChange ==
  ASSUME NEW f, NEW h, NEW T, Summable(f, T), Summable(h, T), NEW x \in T,
         \A y \in T : y # x => h[y] = f[y]
  PROVE  SumOf(h, T) = SumOf(f, T) - f[x] + h[x]
<1>1. SumOf(f, T) = f[x] + SumOf(f, T \ {x})
  BY SumTakeOut
<1>2. SumOf(h, T) = h[x] + SumOf(h, T \ {x})
  BY SumTakeOut
<1>3. SumOf(h, T \ {x}) = SumOf(f, T \ {x})
  BY FS_RemoveElement, SumSame DEF Summable
<1>4. SumOf(f, T \ {x}) \in Int /\ f[x] \in Int /\ h[x] \in Int
  BY SubSummable, SumTyped DEF Summable
<1> QED BY <1>1, <1>2, <1>3, <1>4

\* The sum over two sets without a common element.
LEMMA SumUnion ==
  ASSUME NEW f, NEW S, NEW T, Summable(f, S), Summable(f, T), S \cap T = {}
  PROVE  /\ Summable(f, S \cup T)
         /\ SumOf(f, S \cup T) = SumOf(f, S) + SumOf(f, T)
<1>0. Summable(f, S \cup T)
  BY FS_Union DEF Summable
<1> DEFINE B == {s \in SUBSET T : SumOf(f, S \cup s) # SumOf(f, S) + SumOf(f, s)}
<1>1. ASSUME B # {} PROVE FALSE
  <2>1. PICK s \in B : \A u \in B : u \subseteq s => u = s
    <3>1. B \subseteq SUBSET T
      OBVIOUS
    <3> HIDE DEF B
    <3> QED BY <1>1, <3>1, Smallest DEF Summable
  <2>2. s \in SUBSET T /\ SumOf(f, S \cup s) # SumOf(f, S) + SumOf(f, s)
    OBVIOUS
  <2>3. SumOf(f, S) \in Int /\ Summable(f, s)
    BY <2>2, SumTyped, SubSummable
  <2>4. s # {}
    <3>1. ASSUME s = {} PROVE FALSE
      <4>1. SumOf(f, s) = 0 /\ S \cup s = S
        BY <3>1, SumOverNone
      <4>2. SumOf(f, S \cup s) = SumOf(f, S)
        BY <4>1
      <4> QED BY <2>2, <2>3, <4>1, <4>2
    <3> QED BY <3>1
  <2>5. PICK x \in s : TRUE
    BY <2>4
  <2> DEFINE r == s \ {x}
  <2>6. r \in SUBSET T /\ r # s /\ r \subseteq s /\ (S \cup s) \ {x} = S \cup r
    BY <2>2, <2>5
  <2>7. SumOf(f, S \cup r) = SumOf(f, S) + SumOf(f, r)
    BY <2>1, <2>6
  <2>8. SumOf(f, s) = f[x] + SumOf(f, r)
    BY <2>3, <2>5, SumTakeOut
  <2>9. SumOf(f, S \cup s) = f[x] + SumOf(f, S \cup r)
    <3>1. S \cup s \in SUBSET (S \cup T) /\ x \in S \cup s
      BY <2>2, <2>5
    <3>2. Summable(f, S \cup s)
      BY <1>0, <3>1, SubSummable
    <3> QED BY <2>6, <3>1, <3>2, SumTakeOut
  <2>10. f[x] \in Int /\ SumOf(f, r) \in Int
    BY <2>3, <2>5, <2>6, SubSummable, SumTyped DEF Summable
  <2> HIDE DEF r
  <2> QED BY <2>2, <2>3, <2>7, <2>8, <2>9, <2>10
<1>2. T \in SUBSET T
  OBVIOUS
<1> QED BY <1>0, <1>1, <1>2

\* The sum over the values of a function that takes no value twice.
LEMMA SumImage ==
  ASSUME NEW f, NEW S, IsFiniteSet(S), NEW h, NEW g,
         \A x, y \in S : h[x] = h[y] => x = y,
         \A x \in S : g[x] = f[h[x]] /\ g[x] \in Int
  PROVE  LET T == {h[x] : x \in S}
         IN  Summable(f, T) /\ SumOf(f, T) = SumOf(g, S)
<1> DEFINE T == {h[x] : x \in S}
           Im(s) == {h[x] : x \in s}
<1>0. Summable(f, T)
  <2>1. IsFiniteSet(T)
    <3> DEFINE e == [x \in S |-> h[x]]
    <3>1. e \in Surjection(S, T)
      BY DEF Surjection
    <3> HIDE DEF e, T
    <3> QED BY <3>1, FS_Surjection
  <2> QED BY <2>1 DEF Summable
<1> DEFINE B == {s \in SUBSET S : SumOf(f, Im(s)) # SumOf(g, s)}
<1>1. ASSUME B # {} PROVE FALSE
  <2>1. PICK s \in B : \A u \in B : u \subseteq s => u = s
    <3>1. B \subseteq SUBSET S
      OBVIOUS
    <3> HIDE DEF B
    <3> QED BY <1>1, <3>1, Smallest
  <2>2. s \in SUBSET S /\ SumOf(f, Im(s)) # SumOf(g, s)
    OBVIOUS
  <2>3. s # {}
    <3>1. ASSUME s = {} PROVE FALSE
      <4>1. Im(s) = {} /\ SumOf(g, s) = 0
        BY <3>1, SumOverNone
      <4>2. SumOf(f, Im(s)) = 0
        BY <4>1, SumOverNone
      <4> QED BY <2>2, <4>1, <4>2
    <3> QED BY <3>1
  <2>4. PICK x \in s : TRUE
    BY <2>3
  <2> DEFINE r == s \ {x}
  <2>5. r \in SUBSET S /\ r # s /\ r \subseteq s
    BY <2>2, <2>4
  <2>6. SumOf(f, Im(r)) = SumOf(g, r)
    BY <2>1, <2>5
  <2>7. Im(r) = Im(s) \ {h[x]} /\ h[x] \in Im(s) /\ Im(s) \in SUBSET T
    BY <2>2, <2>4
  <2>8. Summable(g, s)
    BY <2>2, FS_Subset DEF Summable
  <2>9. SumOf(g, s) = g[x] + SumOf(g, r)
    BY <2>4, <2>8, SumTakeOut
  <2>10. SumOf(f, Im(s)) = f[h[x]] + SumOf(f, Im(r))
    <3> HIDE DEF Im, T
    <3> QED BY <1>0, <2>7, SubSummable, SumTakeOut
  <2>11. f[h[x]] = g[x]
    BY <2>2, <2>4
  <2> HIDE DEF Im, r
  <2> QED BY <2>2, <2>6, <2>9, <2>10, <2>11
<1>2. S \in SUBSET S
  OBVIOUS
<1>3. SumOf(f, T) = SumOf(g, S)
  BY <1>1, <1>2
<1> QED BY <1>0, <1>3

\* The sum over a set in parts.
LEMMA SumParts ==
  ASSUME NEW f, NEW K, IsFiniteSet(K), NEW P, NEW g,
         \A j, k \in K : j # k => P[j] \cap P[k] = {},
         \A k \in K : Summable(f, P[k]) /\ g[k] = SumOf(f, P[k])
  PROVE  LET T == UNION {P[k] : k \in K}
         IN  Summable(f, T) /\ SumOf(f, T) = SumOf(g, K)
<1> DEFINE U(s) == UNION {P[k] : k \in s}
           B == {s \in SUBSET K : ~(Summable(f, U(s)) /\ SumOf(f, U(s)) = SumOf(g, s))}
<1>1. ASSUME B # {} PROVE FALSE
  <2>1. PICK s \in B : \A u \in B : u \subseteq s => u = s
    <3>1. B \subseteq SUBSET K
      OBVIOUS
    <3> HIDE DEF B
    <3> QED BY <1>1, <3>1, Smallest
  <2>2. s \in SUBSET K /\ ~(Summable(f, U(s)) /\ SumOf(f, U(s)) = SumOf(g, s))
    OBVIOUS
  <2>3. s # {}
    <3>1. ASSUME s = {} PROVE FALSE
      <4>1. U(s) = {} /\ SumOf(g, s) = 0
        BY <3>1, SumOverNone
      <4>2. SumOf(f, {}) = 0 /\ Summable(f, {})
        BY SumOverNone, FS_EmptySet DEF Summable
      <4> HIDE DEF U
      <4> QED BY <2>2, <4>1, <4>2
    <3> QED BY <3>1
  <2>4. PICK x \in s : TRUE
    BY <2>3
  <2> DEFINE r == s \ {x}
  <2>5. r \in SUBSET K /\ r # s /\ r \subseteq s
    BY <2>2, <2>4
  <2>6. Summable(f, U(r)) /\ SumOf(f, U(r)) = SumOf(g, r)
    BY <2>1, <2>5
  <2>7. U(s) = U(r) \cup P[x] /\ U(r) \cap P[x] = {}
    BY <2>2, <2>4
  <2>8. Summable(f, P[x]) /\ g[x] = SumOf(f, P[x])
    BY <2>2, <2>4
  <2>9. Summable(f, U(s)) /\ SumOf(f, U(s)) = SumOf(f, U(r)) + SumOf(f, P[x])
    <3> HIDE DEF U, r
    <3> QED BY <2>6, <2>7, <2>8, SumUnion
  <2>10. Summable(g, s)
    <3>1. \A k \in s : g[k] \in Int
      BY <2>2, SumTyped
    <3> QED BY <2>2, <3>1, FS_Subset DEF Summable
  <2>11. SumOf(g, s) = g[x] + SumOf(g, r)
    BY <2>4, <2>10, SumTakeOut
  <2>12. SumOf(f, P[x]) \in Int /\ SumOf(f, U(r)) \in Int
    BY <2>6, <2>8, SumTyped
  <2> HIDE DEF U, r
  <2> QED BY <2>2, <2>6, <2>8, <2>9, <2>11, <2>12
<1>2. K \in SUBSET K
  OBVIOUS
<1> QED BY <1>1, <1>2

\* Equal summands.
LEMMA SumEqual ==
  ASSUME NEW f, NEW S, IsFiniteSet(S), NEW c \in Int, \A x \in S : f[x] = c
  PROVE  SumOf(f, S) = Cardinality(S) * c
<1> DEFINE B == {s \in SUBSET S : SumOf(f, s) # Cardinality(s) * c}
<1>1. ASSUME B # {} PROVE FALSE
  <2>1. PICK s \in B : \A u \in B : u \subseteq s => u = s
    <3>1. B \subseteq SUBSET S
      OBVIOUS
    <3> HIDE DEF B
    <3> QED BY <1>1, <3>1, Smallest
  <2>2. s \in SUBSET S /\ SumOf(f, s) # Cardinality(s) * c
    OBVIOUS
  <2>3. s # {}
    <3>1. ASSUME s = {} PROVE FALSE
      <4>1. SumOf(f, s) = 0 /\ Cardinality(s) = 0
        BY <3>1, SumOverNone, FS_EmptySet
      <4> QED BY <2>2, <4>1
    <3> QED BY <3>1
  <2>4. PICK x \in s : TRUE
    BY <2>3
  <2> DEFINE r == s \ {x}
  <2>5. r \in SUBSET S /\ r # s /\ r \subseteq s
    BY <2>2, <2>4
  <2>6. SumOf(f, r) = Cardinality(r) * c
    BY <2>1, <2>5
  <2>7. Summable(f, s) /\ IsFiniteSet(s) /\ f[x] = c
    BY <2>2, <2>4, FS_Subset DEF Summable
  <2>8. SumOf(f, s) = f[x] + SumOf(f, r)
    BY <2>4, <2>7, SumTakeOut
  <2>9. Cardinality(r) = Cardinality(s) - 1 /\ Cardinality(s) \in Nat
    BY <2>4, <2>7, FS_RemoveElement, FS_CardinalityType
  <2> DEFINE n == Cardinality(s)
  <2>10. SumOf(f, s) = c + (n - 1) * c /\ n \in Nat
    BY <2>6, <2>7, <2>8, <2>9
  <2>11. SumOf(f, s) # n * c
    BY <2>2
  <2> HIDE DEF n
  <2>12. c + (n - 1) * c = n * c
    BY <2>10
  <2> QED BY <2>10, <2>11, <2>12
<1>2. S \in SUBSET S
  OBVIOUS
<1> QED BY <1>1, <1>2

\* What is zero outside a part need not be summed there.
LEMMA SumNonzero ==
  ASSUME NEW f, NEW T, Summable(f, T), NEW S \in SUBSET T, \A x \in T \ S : f[x] = 0
  PROVE  SumOf(f, T) = SumOf(f, S)
<1> DEFINE Z == T \ S
<1>1. Summable(f, S) /\ Summable(f, Z) /\ S \cap Z = {} /\ S \cup Z = T
  <2>1. Z \in SUBSET T
    OBVIOUS
  <2> QED BY <2>1, SubSummable
<1>2. SumOf(f, Z) = 0
  <2>1. SumOf(f, Z) = Cardinality(Z) * 0
    <3>1. \A x \in Z : f[x] = 0
      OBVIOUS
    <3> HIDE DEF Z
    <3> QED BY <1>1, <3>1, SumEqual DEF Summable
  <2>2. Cardinality(Z) \in Nat
    BY <1>1, FS_CardinalityType DEF Summable
  <2> HIDE DEF Z
  <2> QED BY <2>1, <2>2
<1>3. SumOf(f, S \cup Z) = SumOf(f, S) + SumOf(f, Z)
  <2> HIDE DEF Z
  <2> QED BY <1>1, SumUnion
<1>4. SumOf(f, S) \in Int
  BY <1>1, SumTyped
<1>5. SumOf(f, T) = SumOf(f, S) + SumOf(f, Z)
  BY <1>1, <1>3
<1> HIDE DEF Z
<1> QED BY <1>2, <1>4, <1>5
-----------------------------------------------------------------------------
(***************************************************************************)
(* The bytes of the pool.                                                  *)
(***************************************************************************)
\* The bytes of the pool, place by place: on each free list, with each thread and
\* with each client.
ClassBytes(lists) == [k \in Classes |-> Len(lists[k]) * ClassSize(k)]
PoolBytes(real) == IF real > MaxBytes THEN 0 ELSE Capacity(real)
ThreadBytes == [t \in Threads |-> IF t \in Carriers THEN PoolBytes(need[t]) ELSE 0]
ClientBytes == [b \in live |-> PoolBytes(b.real)]

Listed(lists) == SumOf(ClassBytes(lists), Classes)
BytesCarried == SumOf(ThreadBytes, Threads)
BytesLent == SumOf(ClientBytes, live)

BytesCounted == thrown \/ Listed(free_list) + BytesLeft + BytesCarried + BytesLent = heap_size

ByteInv == IsFiniteSet(live) /\ BytesCounted

\* The counts are numbers.
LEMMA PoolBytesTyped == ASSUME NEW n \in Nat PROVE PoolBytes(n) \in Nat
BY Rounded DEF PoolBytes, Capacity

\* There are finitely many size classes.
LEMMA ClassesFinite == IsFiniteSet(Classes)
<1>1. MaxBytes \div Align \in Nat
  BY PoolAssumption, Quotient
<1> QED BY <1>1, FS_Interval DEF Classes

\* What the free lists hold is a number.
LEMMA ListedTyped ==
  ASSUME NEW lists \in [Classes -> Seq(Nat)]
  PROVE  ClassBytes(lists) \in [Classes -> Int] /\ Listed(lists) \in Int
<1>1. ASSUME NEW k \in Classes PROVE Len(lists[k]) * ClassSize(k) \in Int
  BY ClassSizes
<1>2. ClassBytes(lists) \in [Classes -> Int]
  BY <1>1 DEF ClassBytes
<1> QED BY <1>2, ClassesFinite, SumTyped DEF Summable, Listed

\* One list changes.
LEMMA ListChanges ==
  ASSUME NEW lists \in [Classes -> Seq(Nat)], NEW k \in Classes, NEW s \in Seq(Nat)
  PROVE  Listed([lists EXCEPT ![k] = s])
           = Listed(lists) - Len(lists[k]) * ClassSize(k) + Len(s) * ClassSize(k)
<1> DEFINE v == Len(s) * ClassSize(k)
           new == [lists EXCEPT ![k] = s]
<1>1. v \in Int
  BY ClassSizes
<1>2. ClassBytes(new) \in [Classes -> Int]
  <2>1. ASSUME NEW j \in Classes PROVE Len(new[j]) * ClassSize(j) \in Int
    BY ClassSizes
  <2> HIDE DEF new
  <2> QED BY <2>1 DEF ClassBytes
<1>3. /\ ClassBytes(lists)[k] = Len(lists[k]) * ClassSize(k) /\ ClassBytes(new)[k] = v
      /\ \A j \in Classes : j # k => ClassBytes(new)[j] = ClassBytes(lists)[j]
  BY DEF ClassBytes
<1>4. Summable(ClassBytes(lists), Classes) /\ Summable(ClassBytes(new), Classes)
  <2> HIDE DEF new
  <2> QED BY <1>2, ListedTyped, ClassesFinite DEF Summable
<1>5. Listed(new) = Listed(lists) - Len(lists[k]) * ClassSize(k) + v
  <2> HIDE DEF new, v
  <2> QED BY <1>3, <1>4, SumChange DEF Listed
<1> QED BY <1>5

\* deallocate: a block goes to the front of its list.
LEMMA ListedPush ==
  ASSUME NEW lists \in [Classes -> Seq(Nat)], NEW k \in Classes, NEW addr \in Nat
  PROVE  Listed(Push(lists, k, addr)) = Listed(lists) + ClassSize(k)
<1> DEFINE s == <<addr>> \o lists[k]
<1>1. s \in Seq(Nat) /\ Len(s) = Len(lists[k]) + 1 /\ Len(lists[k]) \in Nat
  OBVIOUS
<1>2. Push(lists, k, addr) = [lists EXCEPT ![k] = s]
  BY DEF Push
<1> HIDE DEF s
<1>3. Listed(Push(lists, k, addr))
        = Listed(lists) - Len(lists[k]) * ClassSize(k) + Len(s) * ClassSize(k)
  BY <1>1, <1>2, ListChanges
<1> DEFINE n == Len(lists[k])
           c == ClassSize(k)
<1>4. Len(s) * c = n * c + c /\ n * c \in Nat /\ c \in Nat
  <2>1. c \in Nat /\ n \in Nat /\ Len(s) = n + 1
    BY <1>1, ClassSizes
  <2> HIDE DEF c, n
  <2> QED BY <2>1
<1>5. Listed(lists) \in Int
  BY ListedTyped
<1> DEFINE m == n * c
           l == Listed(lists)
<1>6. Listed(Push(lists, k, addr)) = l - m + (m + c)
  BY <1>3, <1>4
<1>7. l \in Int /\ m \in Nat /\ c \in Nat
  BY <1>4, <1>5
<1> HIDE DEF m, l, c
<1>8. l - m + (m + c) = l + c
  BY <1>7
<1> QED BY <1>6, <1>8 DEF l, c

\* allocate: the first block leaves its list.
LEMMA ListedPop ==
  ASSUME NEW lists \in [Classes -> Seq(Nat)], NEW k \in Classes, lists[k] # <<>>
  PROVE  Listed([lists EXCEPT ![k] = Tail(@)]) = Listed(lists) - ClassSize(k)
<1> DEFINE s == Tail(lists[k])
<1>1. s \in Seq(Nat) /\ Len(s) = Len(lists[k]) - 1 /\ Len(lists[k]) \in Nat
  OBVIOUS
<1>2. [lists EXCEPT ![k] = Tail(@)] = [lists EXCEPT ![k] = s]
  OBVIOUS
<1> HIDE DEF s
<1>3. Listed([lists EXCEPT ![k] = Tail(@)])
        = Listed(lists) - Len(lists[k]) * ClassSize(k) + Len(s) * ClassSize(k)
  BY <1>1, <1>2, ListChanges
<1> DEFINE n == Len(lists[k])
           c == ClassSize(k)
<1>4. Len(s) * c = n * c - c /\ n * c \in Int /\ c \in Nat
  <2>1. c \in Nat /\ n \in Nat /\ Len(s) = n - 1
    BY <1>1, ClassSizes
  <2> HIDE DEF c, n
  <2> QED BY <2>1
<1>5. Listed(lists) \in Int
  BY ListedTyped
<1> DEFINE m == n * c
           l == Listed(lists)
<1>6. Listed([lists EXCEPT ![k] = Tail(@)]) = l - m + (m - c)
  BY <1>3, <1>4
<1>7. l \in Int /\ m \in Int /\ c \in Nat
  BY <1>4, <1>5
<1> HIDE DEF m, l, c
<1>8. l - m + (m - c) = l - c
  BY <1>7
<1> QED BY <1>6, <1>8 DEF l, c

\* fill_list: an empty list gets all blocks but one.
LEMMA ListedRefill ==
  ASSUME NEW lists \in [Classes -> Seq(Nat)], NEW k \in Classes, NEW addr \in Nat,
         NEW n \in Nat \ {0}, lists[k] = <<>>
  PROVE  Listed(Refill(lists, k, addr, n)) = Listed(lists) + (n - 1) * ClassSize(k)
<1>1. Listed(lists) \in Int /\ ClassSize(k) \in Nat /\ k \in Nat
  BY ListedTyped, ClassSizes
<1>2. CASE n = 1
  BY <1>1, <1>2 DEF Refill
<1>3. CASE n # 1
  <2> DEFINE s == [i \in 1..n - 1 |-> addr + i * ClassSize(k)]
  <2>1. s \in Seq(Nat) /\ Len(s) = n - 1
    <3>1. \A i \in 1..n - 1 : addr + i * ClassSize(k) \in Nat
      <4>1. \A i \in 1..n - 1 : i \in Nat
        OBVIOUS
      <4> QED BY <1>1, <4>1, BlockAddress
    <3>2. n - 1 \in Nat
      OBVIOUS
    <3> QED BY <3>1, <3>2
  <2>2. Refill(lists, k, addr, n) = [lists EXCEPT ![k] = s]
    BY <1>3 DEF Refill
  <2> HIDE DEF s
  <2>3. Listed(Refill(lists, k, addr, n))
          = Listed(lists) - Len(lists[k]) * ClassSize(k) + Len(s) * ClassSize(k)
    BY <2>1, <2>2, ListChanges
  <2>4. Len(lists[k]) * ClassSize(k) = 0
    BY <1>1
  <2>5. (n - 1) * ClassSize(k) \in Int
    BY <1>1
  <2> QED BY <1>1, <2>1, <2>3, <2>4, <2>5
<1> QED BY <1>2, <1>3

\* What threads and clients have is a number.
LEMMA CarriedTyped ==
  ASSUME TypeOK
  PROVE  Summable(ThreadBytes, Threads) /\ BytesCarried \in Int
<1>1. \A t \in Threads : ThreadBytes[t] \in Int
  BY Types, PoolBytesTyped DEF ThreadBytes
<1> QED BY <1>1, PoolAssumption, SumTyped DEF Summable, BytesCarried

LEMMA LentTyped ==
  ASSUME TypeOK, IsFiniteSet(live)
  PROVE  Summable(ClientBytes, live) /\ BytesLent \in Int
<1>1. \A b \in live : ClientBytes[b] \in Int
  BY Types, PoolBytesTyped DEF ClientBytes
<1> QED BY <1>1, SumTyped DEF Summable, BytesLent

LEMMA SumsTyped ==
  ASSUME PoolInv, IsFiniteSet(live)
  PROVE  /\ Listed(free_list) \in Int /\ BytesCarried \in Int /\ BytesLent \in Int
         /\ BytesLeft \in Nat /\ heap_size \in Nat
BY Types, ListedTyped, CarriedTyped, LentTyped, ReserveNow DEF PoolInv

\* The bytes of a thread at a step of its own.
LEMMA CarriedChanges ==
  ASSUME PoolInv, PoolInv', NEW t \in Threads, CallAlloc(t) \/ CallFree(t) \/ InCall(t)
  PROVE  /\ BytesCarried \in Int /\ ThreadBytes[t] \in Int /\ ThreadBytes'[t] \in Int
         /\ BytesCarried' = BytesCarried - ThreadBytes[t] + ThreadBytes'[t]
<1>1. \A u \in Threads : u # t => ThreadBytes'[u] = ThreadBytes[u]
  BY OthersStay DEF ThreadBytes, Carriers
<1>2. Summable(ThreadBytes, Threads) /\ BytesCarried \in Int
  BY CarriedTyped DEF PoolInv
<1>3. Summable(ThreadBytes', Threads)
  <2>1. TypeOK => Summable(ThreadBytes, Threads)
    BY CarriedTyped
  <2>2. (TypeOK => Summable(ThreadBytes, Threads))'
    BY CarriedTyped, PTL
  <2> QED BY <2>2 DEF PoolInv
<1> QED BY <1>1, <1>2, <1>3, SumChange DEF BytesCarried, Summable

\* A thread carries the bytes of its block, or none.
LEMMA ThreadBytesNow ==
  ASSUME NEW t \in Threads
  PROVE  /\ block[t] = Null \/ pc[t] = "a_unlink" => ThreadBytes[t] = 0
         /\ block'[t] = Null \/ pc'[t] = "a_unlink" => ThreadBytes'[t] = 0
         /\ block[t] # Null /\ pc[t] # "a_unlink" => ThreadBytes[t] = PoolBytes(need[t])
         /\ block'[t] # Null /\ pc'[t] # "a_unlink" => ThreadBytes'[t] = PoolBytes(need'[t])
BY DEF ThreadBytes, Carriers, Null

\* A client gets a block, and gives one up.
LEMMA LentMore ==
  ASSUME TypeOK, IsFiniteSet(live), NEW b, b \notin live, b.real \in Nat, live' = live \cup {b}
  PROVE  IsFiniteSet(live') /\ BytesLent' = BytesLent + PoolBytes(b.real)
<1> DEFINE f == ClientBytes
           h == ClientBytes'
<1>1. \A c \in live : h[c] = f[c]
  BY DEF ClientBytes
<1>2. h[b] = PoolBytes(b.real) /\ h[b] \in Int
  BY PoolBytesTyped DEF ClientBytes
<1>3. Summable(f, live)
  BY LentTyped
<1> HIDE DEF f, h
<1>4. Summable(h, live \cup {b}) /\ IsFiniteSet(live')
  BY <1>1, <1>2, <1>3, FS_AddElement DEF Summable
<1>5. SumOf(h, live \cup {b}) = SumOf(h, live) + h[b]
  BY <1>4, SumPutIn
<1>6. SumOf(h, live) = SumOf(f, live)
  BY <1>1, SumSame
<1> QED BY <1>2, <1>4, <1>5, <1>6 DEF BytesLent, f, h

\* A client gives up a block.
LEMMA LentLess ==
  ASSUME TypeOK, IsFiniteSet(live), NEW b \in live, live' = live \ {b}
  PROVE  IsFiniteSet(live') /\ BytesLent = BytesLent' + PoolBytes(b.real) /\ BytesLent' \in Int
<1> DEFINE f == ClientBytes
           h == ClientBytes'
<1>1. \A c \in live' : h[c] = f[c]
  BY DEF ClientBytes
<1>2. f[b] = PoolBytes(b.real) /\ f[b] \in Int
  BY Types, PoolBytesTyped DEF ClientBytes
<1>3. Summable(f, live)
  BY LentTyped
<1> HIDE DEF f, h
<1>4. IsFiniteSet(live')
  BY FS_RemoveElement
<1>5. SumOf(f, live) = f[b] + SumOf(f, live')
  BY <1>3, SumTakeOut
<1>6. SumOf(h, live') = SumOf(f, live')
  BY <1>1, <1>4, SumSame
<1>7. SumOf(f, live') \in Int
  BY <1>3, SubSummable, SumTyped
<1>8. BytesLent = SumOf(f, live) /\ BytesLent' = SumOf(h, live')
  BY DEF BytesLent, f, h
<1> QED BY <1>2, <1>4, <1>5, <1>6, <1>7, <1>8

\* A pool no refill of which has thrown.
Going == PoolInv /\ Books /\ Tiled /\ ByteInv /\ ~thrown

\* What the steps below need of it.
LEMMA GoingOn ==
  ASSUME Going
  PROVE  /\ PoolInv /\ TypeOK /\ Books /\ Tiled /\ Sound /\ ~thrown /\ IsFiniteSet(live)
         /\ pc \in [Threads -> Pcs] /\ block \in [Threads -> Nat] /\ need \in [Threads -> Nat]
         /\ Listed(free_list) + BytesLeft + BytesCarried + BytesLent = heap_size
BY Types DEF Going, ByteInv, BytesCounted, Sound, PoolInv

\* Steps that move no byte of the pool.
LEMMA StillCounted ==
  ASSUME Going, PoolInv', NEW t \in Threads,
         \/ CallAlloc(t) \/ PassToMalloc(t) \/ AllocBig(t) \/ AllocBigFails(t)
         \/ ReadHead(t) \/ AllocUnlock(t) \/ FreeBig(t) \/ FreeUnlock(t)
  PROVE  ByteInv'
<1>1. UNCHANGED <<free_list, free_begin, free_end, heap_size, live>>
  BY DEF CallAlloc, PassToMalloc, AllocBig, AllocBigFails, ReadHead, AllocUnlock, FreeBig,
         FreeUnlock, poolVars
<1>2. ThreadBytes'[t] = ThreadBytes[t]
  <2>0. /\ pc \in [Threads -> Pcs] /\ block \in [Threads -> Nat] /\ need \in [Threads -> Nat]
        /\ Where /\ brk \in Nat /\ MaxBytes \in Nat
    BY GoingOn, Types, PoolAssumption DEF Books
  <2>1. CASE CallAlloc(t) \/ PassToMalloc(t) \/ AllocBigFails(t) \/ FreeUnlock(t)
    <3>1. block[t] = Null /\ block'[t] = Null
      BY <2>0, <2>1 DEF CallAlloc, PassToMalloc, AllocBigFails, FreeUnlock, Goto, Where
    <3> QED BY <3>1, ThreadBytesNow
  <2>2. CASE ReadHead(t)
    <3>1. block[t] = Null /\ pc'[t] = "a_unlink"
      BY <2>0, <2>2 DEF ReadHead, Goto, Where
    <3> QED BY <3>1, ThreadBytesNow
  <2>3. CASE AllocUnlock(t)
    <3>1. block'[t] = block[t] /\ need'[t] = need[t] /\ pc[t] # "a_unlink" /\ pc'[t] # "a_unlink"
      BY <2>0, <2>3 DEF AllocUnlock, Goto
    <3> QED BY <3>1, ThreadBytesNow
  <2>4. CASE AllocBig(t)
    <3>1. block[t] = Null /\ need'[t] = need[t] /\ need[t] > MaxBytes
      BY <2>0, <2>4 DEF AllocBig, Goto, Where
    <3>2. ThreadBytes'[t] = 0
      BY <3>1, ThreadBytesNow DEF PoolBytes, ThreadBytes
    <3> QED BY <3>1, <3>2, ThreadBytesNow
  <2>5. CASE FreeBig(t)
    <3>1. block'[t] = Null /\ need[t] > MaxBytes
      BY <2>0, <2>5 DEF FreeBig, Deliver
    <3>2. ThreadBytes[t] = 0
      BY <3>1 DEF PoolBytes, ThreadBytes
    <3> QED BY <3>1, <3>2, ThreadBytesNow
  <2> QED BY <2>1, <2>2, <2>3, <2>4, <2>5
<1>3. BytesCarried' = BytesCarried
  <2>1. /\ BytesCarried \in Int /\ ThreadBytes[t] \in Int
        /\ BytesCarried' = BytesCarried - ThreadBytes[t] + ThreadBytes'[t]
    BY GoingOn, CarriedChanges DEF InCall
  <2> QED BY <1>2, <2>1
<1>4. BytesLent' = BytesLent /\ BytesLeft' = BytesLeft /\ Listed(free_list') = Listed(free_list)
  BY <1>1 DEF BytesLent, ClientBytes, BytesLeft
<1> QED BY <1>1, <1>3, <1>4, GoingOn DEF ByteInv, BytesCounted

\* A block moves from its list to the thread that has read its address.
LEMMA UnlinkCounted ==
  ASSUME Going, PoolInv', NEW t \in Threads, Unlink(t)
  PROVE  ByteInv'
<1> DEFINE k == Class(t)
<1>1. UNCHANGED <<free_begin, free_end, heap_size, live, block, need, thrown>>
  BY DEF Unlink
<1>2. /\ pc[t] = "a_unlink" /\ pc'[t] = "a_unlock" /\ block'[t] # Null /\ k \in Classes
      /\ free_list[k] # <<>> /\ free_list' = [free_list EXCEPT ![k] = Tail(@)]
  BY GoingOn, HeadOf, UnlinkFits DEF Unlink, Goto
<1>3. ThreadBytes[t] = 0 /\ ThreadBytes'[t] = ClassSize(k)
  <2>1. need[t] <= MaxBytes /\ need[t] \in Nat /\ MaxBytes \in Nat
    BY <1>2, GoingOn, PoolAssumption DEF Books, Where
  <2>2. PoolBytes(need[t]) = ClassSize(k)
    BY <1>2, <2>1, GoingOn, SmallCapacity DEF PoolBytes, SmallNeed
  <2> QED BY <1>1, <1>2, <2>2, ThreadBytesNow
<1>4. Listed(free_list') = Listed(free_list) - ClassSize(k) /\ ClassSize(k) \in Nat
  BY <1>2, GoingOn, ListedPop, ClassSizes DEF TypeOK
<1>5. BytesCarried' = BytesCarried + ClassSize(k)
  BY <1>3, <1>4, GoingOn, CarriedChanges DEF InCall
<1>6. BytesLent' = BytesLent /\ BytesLeft' = BytesLeft
  BY <1>1 DEF BytesLent, ClientBytes, BytesLeft
<1>7. Listed(free_list') + BytesLeft' + BytesCarried' + BytesLent' = heap_size'
  <2> DEFINE l == Listed(free_list)
             c == ClassSize(k)
  <2>1. l \in Int /\ BytesCarried \in Int /\ BytesLent \in Int /\ BytesLeft \in Nat /\ c \in Nat
    BY <1>4, GoingOn, SumsTyped
  <2>2. l + BytesLeft + BytesCarried + BytesLent = heap_size
    BY GoingOn
  <2>3. Listed(free_list') = l - c /\ BytesCarried' = BytesCarried + c
    BY <1>4, <1>5
  <2> HIDE DEF l, c
  <2> QED BY <1>1, <1>6, <2>1, <2>2, <2>3
<1> QED BY <1>1, <1>7, GoingOn DEF ByteInv, BytesCounted

\* A block moves from the thread to its list.
LEMMA FreeSmallCounted ==
  ASSUME Going, PoolInv', NEW t \in Threads, FreeSmall(t)
  PROVE  ByteInv'
<1> DEFINE k == Class(t)
<1>1. UNCHANGED <<free_begin, free_end, heap_size, live, need, thrown>>
  BY DEF FreeSmall
<1>2. /\ pc[t] = "f_lock" /\ block'[t] = Null /\ block[t] # Null /\ SmallNeed(t)
      /\ free_list' = Push(free_list, k, block[t]) /\ block[t] \in Nat
  BY GoingOn DEF FreeSmall, Goto, Deliver, Tiled, CarriersCarry
<1>3. k \in Classes /\ PoolBytes(need[t]) = ClassSize(k)
  <2>1. need[t] \in Nat /\ MaxBytes \in Nat
    BY GoingOn, PoolAssumption
  <2> QED BY <1>2, <2>1, GoingOn, SmallCapacity DEF PoolBytes, SmallNeed
<1>4. ThreadBytes[t] = ClassSize(k) /\ ThreadBytes'[t] = 0
  BY <1>2, <1>3, ThreadBytesNow
<1>5. Listed(free_list') = Listed(free_list) + ClassSize(k) /\ ClassSize(k) \in Nat
  BY <1>2, <1>3, GoingOn, ListedPush, ClassSizes DEF TypeOK
<1>6. BytesCarried' = BytesCarried - ClassSize(k)
  BY <1>4, <1>5, GoingOn, CarriedChanges DEF InCall
<1>7. BytesLent' = BytesLent /\ BytesLeft' = BytesLeft
  BY <1>1 DEF BytesLent, ClientBytes, BytesLeft
<1>8. Listed(free_list') + BytesLeft' + BytesCarried' + BytesLent' = heap_size'
  <2> DEFINE l == Listed(free_list)
             c == ClassSize(k)
  <2>1. l \in Int /\ BytesCarried \in Int /\ BytesLent \in Int /\ BytesLeft \in Nat /\ c \in Nat
    BY <1>5, GoingOn, SumsTyped
  <2>2. l + BytesLeft + BytesCarried + BytesLent = heap_size
    BY GoingOn
  <2>3. Listed(free_list') = l + c /\ BytesCarried' = BytesCarried - c
    BY <1>5, <1>6
  <2> HIDE DEF l, c
  <2> QED BY <1>1, <1>7, <2>1, <2>2, <2>3
<1> QED BY <1>1, <1>8, GoingOn DEF ByteInv, BytesCounted

\* What a thread hands to its client is not with a client already.
LEMMA NewToClients ==
  ASSUME PoolInv, Books, Tiled, NEW t \in Threads, StoreHeader(t)
  PROVE  [addr |-> block[t], real |-> need[t]] \notin live
<1> SUFFICES ASSUME NEW b \in live, b.addr = block[t] PROVE FALSE
  OBVIOUS
<1> DEFINE p == ThreadPiece(t, block[t], need[t])
           q == ClientPiece(b)
<1>1. p \in Tiles /\ q \in Tiles
  <2>1. t \in Carriers
    BY DEF StoreHeader, Goto, Carriers, Tiled, CarriersCarry
  <2> QED BY <2>1 DEF Tiles, Owners, Carried, Clients
<1>2. /\ p.lo = block[t] /\ p.own[1] = "thread" /\ p.own # <<"link", 0>>
      /\ q.lo = block[t] /\ q.own[1] = "client" /\ q.own # <<"link", 0>>
  BY ThreadParts, ClientParts
<1> HIDE DEF p, q
<1>3. p # q
  BY <1>2
<1> QED BY <1>1, <1>2, <1>3, SameStart DEF Tiled

\* A block moves from the thread to its client.
LEMMA StoreHeaderCounted ==
  ASSUME Going, PoolInv', NEW t \in Threads, StoreHeader(t)
  PROVE  ByteInv'
<1> DEFINE b == [addr |-> block[t], real |-> need[t]]
           v == PoolBytes(need[t])
<1>1. /\ UNCHANGED <<free_list, free_begin, free_end, heap_size, need, thrown>>
      /\ live' = live \cup {b}
  BY DEF StoreHeader, poolVars
<1>2. pc[t] = "a_header" /\ block'[t] = Null /\ block[t] # Null
  BY GoingOn DEF StoreHeader, Goto, Deliver, Tiled, CarriersCarry
<1>3. v \in Nat /\ b.real = need[t] /\ b.real \in Nat /\ b \notin live
  BY GoingOn, PoolBytesTyped, NewToClients
<1>4. ThreadBytes[t] = v /\ ThreadBytes'[t] = 0
  BY <1>2, ThreadBytesNow
<1> HIDE DEF b
<1>5. IsFiniteSet(live') /\ BytesLent' = BytesLent + v
  BY <1>1, <1>3, GoingOn, LentMore
<1> HIDE DEF v
<1>6. BytesCarried' = BytesCarried - v
  BY <1>3, <1>4, GoingOn, CarriedChanges DEF InCall
<1>7. Listed(free_list') = Listed(free_list) /\ BytesLeft' = BytesLeft
  BY <1>1 DEF BytesLeft
<1>8. Listed(free_list') + BytesLeft' + BytesCarried' + BytesLent' = heap_size'
  <2> DEFINE l == Listed(free_list)
  <2>1. l \in Int /\ BytesCarried \in Int /\ BytesLent \in Int /\ BytesLeft \in Nat
    BY GoingOn, SumsTyped
  <2>2. l + BytesLeft + BytesCarried + BytesLent = heap_size
    BY GoingOn
  <2>3. Listed(free_list') = l
    BY <1>7
  <2> HIDE DEF l
  <2> QED BY <1>1, <1>3, <1>5, <1>6, <1>7, <2>1, <2>2, <2>3
<1> QED BY <1>5, <1>8 DEF ByteInv, BytesCounted

\* A block moves from its client to the thread that frees it.
LEMMA CallFreeCounted ==
  ASSUME Going, PoolInv', NEW t \in Threads, CallFree(t)
  PROVE  ByteInv'
<1>1. PICK b \in live : live' = live \ {b} /\ need'[t] = b.real /\ block'[t] = b.addr
  BY GoingOn DEF CallFree, Deliver
<1> DEFINE v == PoolBytes(b.real)
<1>2. UNCHANGED <<free_list, free_begin, free_end, heap_size, thrown>>
  BY DEF CallFree, poolVars
<1>3. pc[t] = "idle" /\ pc'[t] = "f_lock" /\ block[t] = Null /\ block'[t] # Null
  BY GoingOn, CallFreeFits DEF CallFree, Goto, Books, Where
<1>4. v \in Nat
  BY GoingOn, Types, PoolBytesTyped
<1>5. ThreadBytes[t] = 0 /\ ThreadBytes'[t] = v
  BY <1>1, <1>3, ThreadBytesNow
<1>6. IsFiniteSet(live') /\ BytesLent = BytesLent' + v /\ BytesLent' \in Int
  BY <1>1, GoingOn, LentLess
<1> HIDE DEF v
<1>7. BytesCarried' = BytesCarried + v
  BY <1>4, <1>5, GoingOn, CarriedChanges
<1>8. Listed(free_list') = Listed(free_list) /\ BytesLeft' = BytesLeft
  BY <1>2 DEF BytesLeft
<1>9. Listed(free_list') + BytesLeft' + BytesCarried' + BytesLent' = heap_size'
  <2> DEFINE l == Listed(free_list)
  <2>1. l \in Int /\ BytesCarried \in Int /\ BytesLent \in Int /\ BytesLeft \in Nat
    BY GoingOn, SumsTyped
  <2>2. l + BytesLeft + BytesCarried + BytesLent = heap_size
    BY GoingOn
  <2>3. Listed(free_list') = l
    BY <1>8
  <2> HIDE DEF l
  <2> QED BY <1>2, <1>4, <1>6, <1>7, <1>8, <2>1, <2>2, <2>3
<1> QED BY <1>6, <1>9 DEF ByteInv, BytesCounted

\* Blocks cut from one place: one goes to the thread, the others on its free list.
LEMMA CarveCounted ==
  ASSUME Going, PoolInv', NEW t \in Threads, Carve(t)
  PROVE  ByteInv'
<1> DEFINE k == Class(t)
           n == ObjectsFromReserve(ROUND_UP(need[t]))
           c == ClassSize(k)
<1>1. /\ UNCHANGED <<free_end, heap_size, live, need, thrown>>
      /\ pc[t] = "a_lock" /\ pc'[t] = "a_unlock" /\ block[t] = Null /\ block'[t] # Null
      /\ SmallNeed(t) /\ free_list[k] = <<>> /\ BytesLeft >= ROUND_UP(need[t])
      /\ free_begin' = free_begin + ROUND_UP(need[t]) * n
      /\ free_list' = Refill(free_list, k, free_begin, n)
  BY GoingOn, CarveFits DEF Carve, Goto, Books, Where
<1>2. /\ k \in Classes /\ ROUND_UP(need[t]) = c /\ c \in Nat \ {0} /\ PoolBytes(need[t]) = c
  <2>1. need[t] \in Nat \ {0} /\ MaxBytes \in Nat
    BY <1>1, GoingOn, ClassOf, PoolAssumption DEF PoolInv
  <2>2. k \in Classes /\ Capacity(need[t]) = c
    BY <1>1, GoingOn, SmallCapacity
  <2>3. ROUND_UP(need[t]) = c
    BY <2>1, RoundsUp DEF Class
  <2>4. PoolBytes(need[t]) = c
    BY <1>1, <2>1, <2>2 DEF PoolBytes, SmallNeed
  <2> QED BY <2>2, <2>3, <2>4, ClassSizes
<1>3. n \in Nat \ {0} /\ free_begin \in Nat /\ free_end \in Nat
  BY <1>1, <1>2, GoingOn, FromReserve, ReserveNow
<1>4. ThreadBytes[t] = 0 /\ ThreadBytes'[t] = c
  BY <1>1, <1>2, ThreadBytesNow
<1>5. Listed(free_list') = Listed(free_list) + (n - 1) * c
  <2> HIDE DEF n
  <2> QED BY <1>1, <1>2, <1>3, GoingOn, ListedRefill DEF TypeOK
<1>6. BytesLent' = BytesLent
  BY <1>1 DEF BytesLent, ClientBytes
<1>7. BytesLeft' = BytesLeft - c * n
  <2>1. BytesLeft' = free_end - (free_begin + c * n)
    BY <1>1, <1>2 DEF BytesLeft
  <2>2. BytesLeft = free_end - free_begin
    BY DEF BytesLeft
  <2>3. c * n \in Int
    <3> HIDE DEF c, n
    <3> QED BY <1>2, <1>3
  <2> DEFINE m == c * n
  <2> HIDE DEF c, n, m
  <2>4. free_end - (free_begin + m) = free_end - free_begin - m
    BY <1>3, <2>3 DEF m
  <2> QED BY <2>1, <2>2, <2>4 DEF m
<1> HIDE DEF c, n
<1>8. BytesCarried' = BytesCarried + c
  BY <1>2, <1>4, GoingOn, CarriedChanges DEF InCall
<1>9. Listed(free_list') + BytesLeft' + BytesCarried' + BytesLent' = heap_size'
  <2> DEFINE l == Listed(free_list)
             m == c * n
  <2>1. l \in Int /\ BytesCarried \in Int /\ BytesLent \in Int /\ BytesLeft \in Nat
    BY GoingOn, SumsTyped
  <2>2. l + BytesLeft + BytesCarried + BytesLent = heap_size
    BY GoingOn
  <2>3. (n - 1) * c = m - c /\ m \in Int
    BY <1>2, <1>3
  <2>4. Listed(free_list') = l + (m - c) /\ BytesLeft' = BytesLeft - m
    BY <1>5, <1>7, <2>3
  <2> HIDE DEF l, m
  <2> QED BY <1>1, <1>2, <1>6, <1>8, <2>1, <2>2, <2>3, <2>4
<1> QED BY <1>1, <1>9, GoingOn DEF ByteInv, BytesCounted

\* The rest of a reserve goes on a free list, all of it, and nothing else changes.
LEMMA LeftoverCounted ==
  ASSUME Going, NEW t \in Threads, pc[t] \notin {"idle", "exited"}, SmallNeed(t),
         free_list[Class(t)] = <<>>, BytesLeft < ROUND_UP(need[t])
  PROVE  /\ PushLeftover(free_list) \in [Classes -> Seq(Nat)]
         /\ PushLeftover(free_list)[Class(t)] = <<>>
         /\ Listed(PushLeftover(free_list)) = Listed(free_list) + BytesLeft
<1>1. /\ PushLeftover(free_list) \in [Classes -> Seq(Nat)] /\ BytesLeft \in Nat
      /\ free_list \in [Classes -> Seq(Nat)] /\ free_begin \in Nat /\ Listed(free_list) \in Int
  BY GoingOn, LeftoverTyped, ReserveNow, SumsTyped, Types
<1>2. CASE BytesLeft > 0
  <2> DEFINE j == GET_FREELIST_IDX(BytesLeft)
  <2>1. j \in Classes /\ j # Class(t) /\ ClassSize(j) = BytesLeft
    BY <1>2, GoingOn, Leftover DEF Tiled
  <2>2. PushLeftover(free_list) = Push(free_list, j, free_begin)
    BY <1>2 DEF PushLeftover
  <2> HIDE DEF j
  <2>3. Listed(PushLeftover(free_list)) = Listed(free_list) + BytesLeft
    BY <1>1, <2>1, <2>2, ListedPush
  <2>4. PushLeftover(free_list)[Class(t)] = free_list[Class(t)]
    <3>1. Class(t) \in Classes
      BY GoingOn, SmallCapacity
    <3> QED BY <1>1, <2>1, <2>2, <3>1 DEF Push
  <2> QED BY <1>1, <2>3, <2>4
<1>3. CASE ~(BytesLeft > 0)
  BY <1>1, <1>3 DEF PushLeftover
<1> QED BY <1>2, <1>3

\* A chunk: its rest over what is cut becomes the reserve, the old reserve is listed.
LEMMA GrowCounted ==
  ASSUME Going, PoolInv', NEW t \in Threads, Grow(t)
  PROVE  ByteInv'
<1> DEFINE k == Class(t)
           n == OnceFillNum
           c == ClassSize(k)
           get == BytesToGet(ROUND_UP(need[t]))
           begin == brk + PtrSize
           lists == PushLeftover(free_list)
<1>1. /\ UNCHANGED <<live, need, thrown>>
      /\ pc[t] = "a_lock" /\ pc'[t] = "a_unlock" /\ block[t] = Null /\ block'[t] # Null
      /\ SmallNeed(t) /\ free_list[k] = <<>> /\ BytesLeft < ROUND_UP(need[t])
      /\ free_begin' = begin + ROUND_UP(need[t]) * n /\ free_end' = begin + get
      /\ heap_size' = heap_size + get
      /\ free_list' = Refill(lists, k, begin, n)
  BY GoingOn, GrowFits DEF Grow, Goto, Books, Where
<1>2. /\ k \in Classes /\ ROUND_UP(need[t]) = c /\ c \in Nat \ {0} /\ PoolBytes(need[t]) = c
  <2>1. need[t] \in Nat \ {0} /\ MaxBytes \in Nat
    BY <1>1, GoingOn, ClassOf, PoolAssumption DEF PoolInv
  <2>2. k \in Classes /\ Capacity(need[t]) = c
    BY <1>1, GoingOn, SmallCapacity
  <2>3. ROUND_UP(need[t]) = c
    BY <2>1, RoundsUp DEF Class
  <2>4. PoolBytes(need[t]) = c
    BY <1>1, <2>1, <2>2 DEF PoolBytes, SmallNeed
  <2> QED BY <2>2, <2>3, <2>4, ClassSizes
<1>3. n \in Nat \ {0} /\ begin \in Nat /\ get \in Nat
  <2>1. n \in Nat \ {0} /\ PtrSize \in Nat /\ brk \in Nat
    BY GoingOn, Types, PoolAssumption
  <2>2. get = BytesToGet(c)
    BY <1>2
  <2>3. get \in Nat
    <3> HIDE DEF c
    <3> QED BY <1>2, <2>2, GoingOn, Chunk
  <2> HIDE DEF n, get
  <2> QED BY <2>1, <2>3
<1>4. ThreadBytes[t] = 0 /\ ThreadBytes'[t] = c
  BY <1>1, <1>2, ThreadBytesNow
<1>5. Listed(free_list') = Listed(free_list) + BytesLeft + (n - 1) * c
  <2>1. /\ lists \in [Classes -> Seq(Nat)] /\ lists[k] = <<>>
        /\ Listed(lists) = Listed(free_list) + BytesLeft
    BY <1>1, GoingOn, LeftoverCounted
  <2> HIDE DEF lists, begin
  <2>2. Listed(Refill(lists, k, begin, n)) = Listed(lists) + (n - 1) * c
    BY <1>2, <1>3, <2>1, ListedRefill
  <2> QED BY <1>1, <2>1, <2>2
<1>6. BytesLent' = BytesLent
  BY <1>1 DEF BytesLent, ClientBytes
<1>7. BytesLeft' = get - c * n
  <2>1. BytesLeft' = (begin + get) - (begin + c * n)
    BY <1>1, <1>2 DEF BytesLeft
  <2>2. c * n \in Int
    <3> HIDE DEF c
    <3> QED BY <1>2, <1>3
  <2> DEFINE m == c * n
  <2> HIDE DEF c, m, begin, get
  <2>3. (begin + get) - (begin + m) = get - m
    BY <1>3, <2>2 DEF m
  <2> QED BY <2>1, <2>3 DEF m
<1> HIDE DEF c, n, get
<1>8. BytesCarried' = BytesCarried + c
  BY <1>2, <1>4, GoingOn, CarriedChanges DEF InCall
<1>9. Listed(free_list') + BytesLeft' + BytesCarried' + BytesLent' = heap_size'
  <2> DEFINE l == Listed(free_list)
             m == c * n
  <2>1. l \in Int /\ BytesCarried \in Int /\ BytesLent \in Int /\ BytesLeft \in Nat
    BY GoingOn, SumsTyped
  <2>2. l + BytesLeft + BytesCarried + BytesLent = heap_size
    BY GoingOn
  <2>3. (n - 1) * c = m - c /\ m \in Int
    BY <1>2, <1>3
  <2>4. Listed(free_list') = l + BytesLeft + (m - c) /\ BytesLeft' = get - m
    BY <1>5, <1>7, <2>3
  <2>5. c \in Int /\ get \in Int /\ heap_size \in Int
    BY <1>2, <1>3, <2>1, <2>2
  <2> HIDE DEF l, m
  <2>6. (l + BytesLeft + (m - c)) + (get - m) + (BytesCarried + c) + BytesLent = heap_size + get
    BY <2>1, <2>2, <2>3, <2>5
  <2> QED BY <1>1, <1>6, <1>8, <2>4, <2>6
<1> QED BY <1>1, <1>9, GoingOn DEF ByteInv, BytesCounted

\* Steps of no thread.
LEMMA IdleCounted ==
  ASSUME Going, Destroy \/ UNCHANGED vars
  PROVE  ByteInv'
<1>1. UNCHANGED <<free_list, free_begin, free_end, heap_size, live, need, block, thrown>>
  BY DEF Destroy, vars
<1>2. Carriers' = Carriers
  <2>1. CASE Destroy
    <3>1. \A t \in Threads : pc[t] # "a_unlink" /\ pc'[t] # "a_unlink"
      BY <2>1 DEF Destroy
    <3> QED BY <1>1, <3>1 DEF Carriers
  <2>2. CASE UNCHANGED vars
    BY <2>2 DEF vars, Carriers
  <2> QED BY <2>1, <2>2
<1>3. BytesCarried' = BytesCarried /\ BytesLent' = BytesLent /\ BytesLeft' = BytesLeft
      /\ Listed(free_list') = Listed(free_list)
  BY <1>1, <1>2 DEF BytesCarried, ThreadBytes, BytesLent, ClientBytes, BytesLeft
<1> QED BY <1>1, <1>3, GoingOn DEF ByteInv, BytesCounted

\* Clients have finitely many blocks.
LEMMA StepFinite ==
  ASSUME IsFiniteSet(live), [Next]_vars
  PROVE  IsFiniteSet(live')
<1>1. ASSUME NEW t \in Threads, StoreHeader(t) PROVE IsFiniteSet(live')
  BY <1>1, FS_AddElement DEF StoreHeader
<1>2. ASSUME NEW t \in Threads, CallFree(t) PROVE IsFiniteSet(live')
  BY <1>2, FS_RemoveElement DEF CallFree
<1>3. CASE live' = live
  BY <1>3
<1> QED BY <1>1, <1>2, <1>3 DEF Next, Destroy, InCall, CallAlloc, PassToMalloc, AllocBig,
     AllocBigFails, ReadHead, Unlink, Carve, Grow, GrowFails, AllocUnlock, FreeSmall,
     FreeBig, FreeUnlock, vars

\* Every step keeps the count.
LEMMA StepByteInv ==
  ASSUME PoolInv, PoolInv', Books, TilesInv, ByteInv, [Next]_vars
  PROVE  ByteInv'
<1>1. IsFiniteSet(live')
  BY StepFinite DEF ByteInv
<1>2. CASE thrown'
  BY <1>1, <1>2 DEF ByteInv, BytesCounted
<1>3. CASE ~thrown'
  <2>1. ~thrown
    BY <1>3 DEF Next, Destroy, CallAlloc, CallFree, InCall, PassToMalloc, AllocBig, AllocBigFails,
         ReadHead, Unlink, Carve, Grow, GrowFails, AllocUnlock, StoreHeader, FreeSmall, FreeBig,
         FreeUnlock, vars
  <2>2. Going
    BY <2>1 DEF Going, TilesInv, Sound
  <2>3. ASSUME NEW t \in Threads, CallAlloc(t) \/ CallFree(t) \/ InCall(t) PROVE ByteInv'
    <3>1. ~GrowFails(t)
      BY <1>3 DEF GrowFails
    <3>2. CASE \/ CallAlloc(t) \/ PassToMalloc(t) \/ AllocBig(t) \/ AllocBigFails(t)
               \/ ReadHead(t) \/ AllocUnlock(t) \/ FreeBig(t) \/ FreeUnlock(t)
      BY <2>2, <3>2, StillCounted
    <3>3. CASE Unlink(t) \/ FreeSmall(t) \/ StoreHeader(t) \/ CallFree(t) \/ Carve(t) \/ Grow(t)
      BY <2>2, <3>3, UnlinkCounted, FreeSmallCounted, StoreHeaderCounted, CallFreeCounted,
         CarveCounted, GrowCounted
    <3> QED BY <2>3, <3>1, <3>2, <3>3 DEF InCall
  <2> QED BY <2>2, <2>3, IdleCounted DEF Next
<1> QED BY <1>2, <1>3

\* The pool starts with nothing.
LEMMA InitByteInv == Init => ByteInv
<1> SUFFICES ASSUME Init PROVE ByteInv
  OBVIOUS
<1>1. live = {} /\ BytesLeft = 0 /\ heap_size = 0
  BY DEF Init, BytesLeft, Null
<1>2. ASSUME NEW f, NEW T, IsFiniteSet(T), \A x \in T : f[x] = 0 PROVE SumOf(f, T) = 0
  <2>1. SumOf(f, T) = Cardinality(T) * 0 /\ Cardinality(T) \in Nat
    BY <1>2, SumEqual, FS_CardinalityType
  <2> QED BY <2>1
<1>3. Listed(free_list) = 0
  <2>1. \A k \in Classes : ClassBytes(free_list)[k] = 0
    BY ClassSizes DEF Init, ClassBytes
  <2> QED BY <1>2, <2>1, ClassesFinite DEF Listed
<1>4. BytesCarried = 0
  <2>1. \A t \in Threads : ThreadBytes[t] = 0
    BY DEF Init, ThreadBytes, Carriers
  <2> QED BY <1>2, <2>1, PoolAssumption DEF BytesCarried
<1>5. BytesLent = 0 /\ IsFiniteSet(live)
  BY <1>1, SumOverNone, FS_EmptySet DEF BytesLent
<1> QED BY <1>1, <1>3, <1>4, <1>5 DEF ByteInv, BytesCounted

LEMMA Counting == Spec => []ByteInv
<1>1. PoolInv /\ PoolInv' /\ Books /\ TilesInv /\ ByteInv /\ [Next]_vars => ByteInv'
  BY StepByteInv
<1> QED BY <1>1, InitByteInv, PoolInvariance, BooksInvariance, Tiling, PTL DEF Spec

\* The sum of NoByteLost is the sum of a function.
LEMMA Bridge ==
  ASSUME NEW T, IsFiniteSet(T)
  PROVE  MapThenSumSet(LAMBDA p : p.hi - p.lo, T) = SumOf([p \in T |-> p.hi - p.lo], T)
<1> DEFINE f == [p \in T |-> p.hi - p.lo]
           Eq(g) == g = [s \in SUBSET T |-> IF s = {} THEN 0
                           ELSE (First(s).hi - First(s).lo) + g[Rest(s)]]
<1>1. MapThenSumSet(LAMBDA p : p.hi - p.lo, T)
        = (CHOOSE g : g = [s \in SUBSET T |->
             IF s = {} THEN 0
             ELSE ((CHOOSE x \in s : TRUE).hi - (CHOOSE x \in s : TRUE).lo)
                  + g[s \ {CHOOSE x \in s : TRUE}]])[T]
  BY DEF MapThenSumSet, MapThenFoldSet
<1>2. MapThenSumSet(LAMBDA p : p.hi - p.lo, T) = (CHOOSE g : Eq(g))[T]
  BY <1>1 DEF First, Rest
<1>3. ASSUME NEW s \in SUBSET T, s # {} PROVE f[First(s)] = First(s).hi - First(s).lo
  <2>1. First(s) \in T
    BY <1>3, FirstIn
  <2> QED BY <2>1
<1>4. ASSUME NEW g PROVE Eq(g) <=> Adds(g, f, T)
  <2> DEFINE a == [s \in SUBSET T |-> IF s = {} THEN 0
                     ELSE (First(s).hi - First(s).lo) + g[Rest(s)]]
             b == [s \in SUBSET T |-> IF s = {} THEN 0 ELSE f[First(s)] + g[Rest(s)]]
  <2>1. a = b
    <3> HIDE DEF f
    <3> QED BY <1>3
  <2>2. (Eq(g) <=> g = a) /\ (Adds(g, f, T) <=> g = b)
    <3> HIDE DEF f
    <3> QED BY DEF Adds
  <2> HIDE DEF a, b, Eq, f
  <2> QED BY <2>1, <2>2
<1> DEFINE G == CHOOSE g : Eq(g)
<1>5. Adds(G, f, T)
  <2>1. \E g : Adds(g, f, T)
    <3> HIDE DEF f
    <3> QED BY Solvable
  <2>2. \E g : Eq(g)
    BY <1>4, <2>1
  <2>3. Eq(G)
    <3> HIDE DEF Eq
    <3> QED BY <2>2
  <2> HIDE DEF G, Eq, f
  <2> QED BY <1>4, <2>3
<1>6. SumOf(f, T) = G[T]
  <2> HIDE DEF f, G
  <2>1. T \in SUBSET T
    OBVIOUS
  <2> QED BY <1>5, <2>1, SumSolves
<1>7. MapThenSumSet(LAMBDA p : p.hi - p.lo, T) = G[T]
  BY <1>2
<1> QED BY <1>6, <1>7

\* The bytes of a piece.
Width == [p \in PoolPieces |-> p.hi - p.lo]

\* Blocks of the pool are those whose size does not exceed MaxBytes.
LEMMA SmallIff ==
  ASSUME NEW n \in Nat \ {0}
  PROVE  Capacity(n) \in Nat /\ (Capacity(n) <= MaxBytes <=> n <= MaxBytes)
<1>1. MaxBytes \in Nat /\ ROUND_UP(n) \in Nat
  BY PoolAssumption, Rounded
<1>2. ASSUME n <= MaxBytes PROVE ROUND_UP(n) <= MaxBytes
  <2> DEFINE k == GET_FREELIST_IDX(n)
  <2>1. k \in Classes /\ ClassSize(k) = ROUND_UP(n)
    BY <1>2, HasClass, RoundsUp
  <2> HIDE DEF k
  <2>2. ClassSize(k) <= MaxBytes
    BY <2>1, ClassFits
  <2> QED BY <2>1, <2>2
<1> QED BY <1>1, <1>2 DEF Capacity

\* Pieces of one kind, each given by its index.
LEMMA KindTotal ==
  ASSUME NEW S, IsFiniteSet(S), NEW h, NEW g,
         \A x, y \in S : h[x] = h[y] => x = y,
         \A x \in S : /\ h[x] \in PoolPieces
                      /\ g[x] = h[x].hi - h[x].lo /\ g[x] \in Int
  PROVE  LET T == {h[x] : x \in S}
         IN  Summable(Width, T) /\ SumOf(Width, T) = SumOf(g, S)
<1>1. \A x \in S : g[x] = Width[h[x]] /\ g[x] \in Int
  BY DEF Width
<1> QED BY <1>1, SumImage

\* The pieces of each kind have the bytes that are counted in that place.
LEMMA FreeTotal ==
  ASSUME TypeOK
  PROVE  Summable(Width, FreePieces) /\ SumOf(Width, FreePieces) = Listed(free_list)
<1> DEFINE At(k) == [i \in 1..Len(free_list[k]) |->
                       [owner |-> <<"free", k, i>>, lo |-> free_list[k][i],
                        hi |-> free_list[k][i] + ClassSize(k)]]
           P == [k \in Classes |-> {[owner |-> <<"free", k, i>>, lo |-> free_list[k][i],
                                     hi |-> free_list[k][i] + ClassSize(k)] :
                                       i \in 1..Len(free_list[k])}]
           g == ClassBytes(free_list)
<1>1. FreePieces = UNION {P[k] : k \in Classes}
  BY DEF FreePieces
<1>2. \A j, k \in Classes : j # k => P[j] \cap P[k] = {}
  <2>1. ASSUME NEW j \in Classes, NEW k \in Classes, NEW p \in P[j], p \in P[k] PROVE j = k
    <3>1. ASSUME NEW l \in Classes, p \in P[l] PROVE p.owner[2] = l
      <4>1. PICK i \in 1..Len(free_list[l]) :
              p = [owner |-> <<"free", l, i>>, lo |-> free_list[l][i],
                   hi |-> free_list[l][i] + ClassSize(l)]
        BY <3>1
      <4>2. p.owner = <<"free", l, i>>
        BY <4>1
      <4> QED BY <4>2
    <3> HIDE DEF P
    <3> QED BY <2>1, <3>1
  <2> HIDE DEF P
  <2> QED BY <2>1
<1>3. ASSUME NEW k \in Classes PROVE Summable(Width, P[k]) /\ g[k] = SumOf(Width, P[k])
  <2> DEFINE n == Len(free_list[k])
             c == ClassSize(k)
             S == 1..n
             h == At(k)
             w == [i \in S |-> c]
  <2>1. n \in Nat /\ c \in Nat /\ \A i \in S : free_list[k][i] \in Nat
    BY Types, ClassSizes
  <2>2. IsFiniteSet(S) /\ Cardinality(S) = n
    <3> HIDE DEF n
    <3> QED BY <2>1, FS_Interval
  <2>3. \A x, y \in S : h[x] = h[y] => x = y
    <3>1. \A x \in S : h[x].owner[3] = x
      OBVIOUS
    <3> HIDE DEF h
    <3> QED BY <3>1
  <2>4. ASSUME NEW x \in S
        PROVE h[x] \in PoolPieces /\ w[x] = h[x].hi - h[x].lo /\ w[x] \in Int
    <3>1. h[x] \in P[k]
      OBVIOUS
    <3>2. h[x] \in PoolPieces
      <4> HIDE DEF h, P
      <4> QED BY <1>1, <3>1 DEF PoolPieces
    <3>3. h[x].hi = free_list[k][x] + c /\ h[x].lo = free_list[k][x] /\ w[x] = c
      OBVIOUS
    <3> HIDE DEF h, c, w
    <3> QED BY <2>1, <3>2, <3>3
  <2>5. P[k] = {h[x] : x \in S}
    OBVIOUS
  <2>6. Summable(Width, P[k]) /\ SumOf(Width, P[k]) = SumOf(w, S)
    <3> HIDE DEF h, w, S, P
    <3> QED BY <2>2, <2>3, <2>4, <2>5, KindTotal
  <2>7. SumOf(w, S) = n * c
    <3>1. (\A x \in S : w[x] = c) /\ c \in Int
      BY <2>1
    <3> HIDE DEF w, S, c, n
    <3>2. SumOf(w, S) = Cardinality(S) * c
      BY <2>2, <3>1, SumEqual
    <3> QED BY <2>2, <3>2
  <2>8. g[k] = n * c
    BY DEF ClassBytes
  <2> HIDE DEF P, n, c, g
  <2> QED BY <2>6, <2>7, <2>8
<1>4. Summable(Width, FreePieces) /\ SumOf(Width, FreePieces) = SumOf(g, Classes)
  <2> HIDE DEF P, g
  <2> QED BY <1>1, <1>2, <1>3, ClassesFinite, SumParts
<1> QED BY <1>4 DEF Listed

\* The reserve is one piece, or none.
LEMMA ReserveTotal ==
  ASSUME TypeOK
  PROVE  Summable(Width, ReservePieces) /\ SumOf(Width, ReservePieces) = BytesLeft
<1>1. free_begin \in Nat /\ free_end \in Nat
  BY Types
<1>2. CASE free_begin = free_end
  <2>1. ReservePieces = {} /\ BytesLeft = 0
    BY <1>1, <1>2 DEF ReservePieces, BytesLeft
  <2> QED BY <2>1, SumOverNone, FS_EmptySet DEF Summable
<1>3. CASE free_begin # free_end
  <2> DEFINE r == [owner |-> <<"reserve">>, lo |-> free_begin, hi |-> free_end]
  <2>1. ReservePieces = {r} /\ r.hi - r.lo = BytesLeft /\ BytesLeft \in Int
    BY <1>1, <1>3 DEF ReservePieces, BytesLeft
  <2> HIDE DEF r
  <2>2. Width[r] = BytesLeft
    BY <2>1 DEF Width, PoolPieces
  <2>3. IsFiniteSet({r}) /\ Cardinality({r}) = 1
    BY FS_Singleton
  <2>4. SumOf(Width, {r}) = 1 * BytesLeft
    BY <2>1, <2>2, <2>3, SumEqual
  <2> QED BY <2>1, <2>2, <2>3, <2>4 DEF Summable
<1> QED BY <1>2, <1>3

\* Who has blocks of the pool, and these blocks.
SmallCarriers == {t \in Carriers : need[t] <= MaxBytes}
SmallLive == {b \in live : b.real <= MaxBytes}
SmallCarried == {p \in CarriedPieces : p.hi - p.lo <= MaxBytes}
SmallLent == {p \in LivePieces : p.hi - p.lo <= MaxBytes}

\* One piece for each thread that carries a block of the pool.
LEMMA CarriedTotal ==
  ASSUME PoolInv, Books
  PROVE  Summable(Width, SmallCarried) /\ SumOf(Width, SmallCarried) = BytesCarried
<1> DEFINE h == [t \in Threads |-> [owner |-> <<"thread", t>>, lo |-> block[t],
                                    hi |-> block[t] + Capacity(need[t])]]
           S == SmallCarriers
<1>1. ASSUME NEW t \in Carriers
      PROVE  /\ block[t] \in Nat /\ need[t] \in Nat \ {0} /\ t \in Threads
             /\ h[t].hi - h[t].lo = Capacity(need[t]) /\ Capacity(need[t]) \in Nat
             /\ Capacity(need[t]) <= MaxBytes <=> need[t] <= MaxBytes
  <2>1. pc[t] \notin {"idle", "exited"} /\ block[t] \in Nat
    BY Types DEF Carriers, Books, Where, PoolInv
  <2>2. need[t] \in Nat \ {0}
    BY <2>1, ClassOf DEF PoolInv, Carriers
  <2>3. Capacity(need[t]) \in Nat /\ (Capacity(need[t]) <= MaxBytes <=> need[t] <= MaxBytes)
    BY <2>2, SmallIff
  <2>4. h[t].hi = block[t] + Capacity(need[t]) /\ h[t].lo = block[t]
    BY DEF Carriers
  <2> HIDE DEF h
  <2> QED BY <2>1, <2>2, <2>3, <2>4 DEF Carriers
<1>2. CarriedPieces = {h[t] : t \in Carriers}
  BY DEF CarriedPieces, Carriers
<1>3. SmallCarried = {h[t] : t \in S}
  <2> HIDE DEF h
  <2> QED BY <1>1, <1>2 DEF SmallCarried, SmallCarriers
<1>4. Summable(ThreadBytes, Threads) /\ S \in SUBSET Threads /\ IsFiniteSet(S)
  BY CarriedTyped, FS_Subset, PoolAssumption DEF PoolInv, SmallCarriers, Carriers
<1>5. \A x, y \in S : h[x] = h[y] => x = y
  <2>1. \A x \in S : h[x].owner[2] = x
    BY DEF SmallCarriers, Carriers
  <2> HIDE DEF h
  <2> QED BY <2>1
<1>6. ASSUME NEW x \in S
      PROVE  /\ h[x] \in PoolPieces
             /\ ThreadBytes[x] = h[x].hi - h[x].lo
             /\ ThreadBytes[x] \in Int
  <2>1. h[x] \in PoolPieces
    <3> HIDE DEF h
    <3> QED BY <1>3 DEF SmallCarried, PoolPieces
  <2>2. x \in Carriers /\ need[x] <= MaxBytes
    BY DEF SmallCarriers
  <2>3. need[x] \in Nat /\ MaxBytes \in Nat
    BY <1>1, <2>2, PoolAssumption
  <2>4. ThreadBytes[x] = Capacity(need[x])
    BY <2>2, <2>3 DEF ThreadBytes, PoolBytes, Carriers
  <2> HIDE DEF h
  <2> QED BY <1>1, <2>1, <2>2, <2>4
<1>7. Summable(Width, SmallCarried) /\ SumOf(Width, SmallCarried) = SumOf(ThreadBytes, S)
  <2> DEFINE g == ThreadBytes
  <2>1. /\ IsFiniteSet(S)
        /\ \A x, y \in S : h[x] = h[y] => x = y
        /\ \A x \in S : h[x] \in PoolPieces /\ g[x] = h[x].hi - h[x].lo /\ g[x] \in Int
    <3> HIDE DEF h, S
    <3> QED BY <1>4, <1>5, <1>6
  <2> DEFINE T == {h[x] : x \in S}
  <2>2. Summable(Width, T) /\ SumOf(Width, T) = SumOf(g, S)
    <3> HIDE DEF h, S, g
    <3> QED BY <2>1, KindTotal
  <2>3. SmallCarried = T
    BY <1>3
  <2> HIDE DEF T, h, S
  <2> QED BY <2>2, <2>3
<1>8. SumOf(ThreadBytes, Threads) = SumOf(ThreadBytes, S)
  <2>1. ASSUME NEW x \in Threads \ S PROVE ThreadBytes[x] = 0
    <3>1. CASE x \notin Carriers
      BY <3>1 DEF ThreadBytes
    <3>2. CASE x \in Carriers
      <4>1. need[x] \in Nat /\ MaxBytes \in Nat /\ ~(need[x] <= MaxBytes)
        BY <1>1, <3>2, PoolAssumption DEF SmallCarriers
      <4> QED BY <4>1 DEF ThreadBytes, PoolBytes
    <3> QED BY <3>1, <3>2
  <2> HIDE DEF S
  <2> QED BY <1>4, <2>1, SumNonzero
<1> QED BY <1>7, <1>8 DEF BytesCarried

\* One piece for each block of a client, since no two are at one address.
LEMMA LentTotal ==
  ASSUME PoolInv, ClientsUnique, IsFiniteSet(live)
  PROVE  Summable(Width, SmallLent) /\ SumOf(Width, SmallLent) = BytesLent
<1> DEFINE h == [b \in live |-> [owner |-> <<"client">>, lo |-> b.addr,
                                 hi |-> b.addr + Capacity(b.real)]]
           S == SmallLive
<1>1. ASSUME NEW b \in live
      PROVE  /\ b.addr \in Nat /\ b.real \in Nat \ {0}
             /\ h[b].lo = b.addr
             /\ h[b].hi - h[b].lo = Capacity(b.real) /\ Capacity(b.real) \in Nat
             /\ Capacity(b.real) <= MaxBytes <=> b.real <= MaxBytes
  <2>1. b.addr \in Nat /\ b.real \in Nat \ {0}
    BY Types DEF PoolInv, Sized
  <2>2. Capacity(b.real) \in Nat /\ (Capacity(b.real) <= MaxBytes <=> b.real <= MaxBytes)
    BY <2>1, SmallIff
  <2>3. h[b].hi = b.addr + Capacity(b.real) /\ h[b].lo = b.addr
    OBVIOUS
  <2> HIDE DEF h
  <2> QED BY <2>1, <2>2, <2>3
<1>2. LivePieces = {h[b] : b \in live}
  BY DEF LivePieces
<1>3. SmallLent = {h[b] : b \in S}
  <2> HIDE DEF h
  <2> QED BY <1>1, <1>2 DEF SmallLent, SmallLive
<1>4. Summable(ClientBytes, live) /\ S \in SUBSET live /\ IsFiniteSet(S)
  <2>1. \A b \in live : ClientBytes[b] \in Int
    <3> HIDE DEF h
    <3> QED BY <1>1, PoolBytesTyped DEF ClientBytes
  <2> QED BY <2>1, FS_Subset DEF SmallLive, Summable
<1>5. \A x, y \in S : h[x] = h[y] => x = y
  <2> HIDE DEF h
  <2> QED BY <1>1 DEF ClientsUnique, SmallLive
<1>6. ASSUME NEW x \in S
      PROVE  /\ h[x] \in PoolPieces
             /\ ClientBytes[x] = h[x].hi - h[x].lo /\ ClientBytes[x] \in Int
  <2>1. h[x] \in PoolPieces
    <3> HIDE DEF h
    <3> QED BY <1>3 DEF SmallLent, PoolPieces
  <2>2. x \in live /\ x.real <= MaxBytes
    BY DEF SmallLive
  <2>3. x.real \in Nat /\ MaxBytes \in Nat
    BY <1>1, <2>2, PoolAssumption
  <2>4. ClientBytes[x] = Capacity(x.real)
    BY <2>2, <2>3 DEF ClientBytes, PoolBytes
  <2> HIDE DEF h
  <2> QED BY <1>1, <2>1, <2>2, <2>4
<1>7. Summable(Width, SmallLent) /\ SumOf(Width, SmallLent) = SumOf(ClientBytes, S)
  <2> DEFINE g == ClientBytes
  <2>1. /\ IsFiniteSet(S)
        /\ \A x, y \in S : h[x] = h[y] => x = y
        /\ \A x \in S : h[x] \in PoolPieces /\ g[x] = h[x].hi - h[x].lo /\ g[x] \in Int
    <3> HIDE DEF h, S
    <3> QED BY <1>4, <1>5, <1>6
  <2> DEFINE T == {h[x] : x \in S}
  <2>2. Summable(Width, T) /\ SumOf(Width, T) = SumOf(g, S)
    <3> HIDE DEF h, S, g
    <3> QED BY <2>1, KindTotal
  <2>3. SmallLent = T
    BY <1>3
  <2> HIDE DEF T, h, S
  <2> QED BY <2>2, <2>3
<1>8. SumOf(ClientBytes, live) = SumOf(ClientBytes, S)
  <2>1. ASSUME NEW x \in live \ S PROVE ClientBytes[x] = 0
    <3>1. x.real \in Nat /\ MaxBytes \in Nat /\ ~(x.real <= MaxBytes)
      BY <1>1, PoolAssumption DEF SmallLive
    <3> QED BY <3>1 DEF ClientBytes, PoolBytes
  <2> HIDE DEF S
  <2> QED BY <1>4, <2>1, SumNonzero
<1> QED BY <1>7, <1>8 DEF BytesLent

\* The widths of the pieces of the pool are what is counted place by place.
LEMMA PoolTotal ==
  ASSUME PoolInv, Books, ClientsUnique, IsFiniteSet(live)
  PROVE  MapThenSumSet(LAMBDA p : p.hi - p.lo, PoolPieces)
           = Listed(free_list) + BytesLeft + BytesCarried + BytesLent
<1> DEFINE A == FreePieces
           B == ReservePieces
           C == SmallCarried
           D == SmallLent
<1>1. PoolPieces = ((A \cup B) \cup C) \cup D
  BY DEF PoolPieces, SmallCarried, SmallLent
<1>2. A \cap B = {} /\ (A \cup B) \cap C = {} /\ ((A \cup B) \cup C) \cap D = {}
  <2>1. \A p \in A : p.owner[1] = "free"
    BY DEF FreePieces
  <2>2. \A p \in B : p.owner[1] = "reserve"
    BY DEF ReservePieces
  <2>3. \A p \in C : p.owner[1] = "thread"
    BY DEF SmallCarried, CarriedPieces
  <2>4. \A p \in D : p.owner[1] = "client"
    BY DEF SmallLent, LivePieces
  <2> HIDE DEF A, B, C, D
  <2> QED BY <2>1, <2>2, <2>3, <2>4
<1>3. /\ Summable(Width, A) /\ SumOf(Width, A) = Listed(free_list)
      /\ Summable(Width, B) /\ SumOf(Width, B) = BytesLeft
      /\ Summable(Width, C) /\ SumOf(Width, C) = BytesCarried
      /\ Summable(Width, D) /\ SumOf(Width, D) = BytesLent
  BY FreeTotal, ReserveTotal, CarriedTotal, LentTotal DEF PoolInv
<1> HIDE DEF A, B, C, D
<1>4. Summable(Width, A \cup B) /\ SumOf(Width, A \cup B) = Listed(free_list) + BytesLeft
  BY <1>2, <1>3, SumUnion
<1>5. /\ Summable(Width, (A \cup B) \cup C)
      /\ SumOf(Width, (A \cup B) \cup C) = Listed(free_list) + BytesLeft + BytesCarried
  BY <1>2, <1>3, <1>4, SumUnion
<1>6. /\ Summable(Width, PoolPieces)
      /\ SumOf(Width, PoolPieces) = Listed(free_list) + BytesLeft + BytesCarried + BytesLent
  BY <1>1, <1>2, <1>3, <1>5, SumUnion
<1>7. MapThenSumSet(LAMBDA p : p.hi - p.lo, PoolPieces) = SumOf(Width, PoolPieces)
  BY <1>6, Bridge DEF Width, Summable
<1> QED BY <1>6, <1>7

\* No byte of a chunk is lost, whatever sizes are asked for and however many threads
\* share the pool: it is on a free list, in the reserve, under way or with a client,
\* until a refill throws (memallocator.cc:79-224).
THEOREM NoneLost == Spec => []NoByteLost
<1>1. PoolInv /\ Books /\ TilesInv /\ ByteInv => NoByteLost
  <2> SUFFICES ASSUME PoolInv, Books, TilesInv, ByteInv, ~thrown
               PROVE  MapThenSumSet(LAMBDA p : p.hi - p.lo, PoolPieces) = heap_size
    BY DEF NoByteLost
  <2>1. ClientsUnique
    BY DEF TilesInv, Sound, Tiled
  <2> QED BY <2>1, PoolTotal DEF ByteInv, BytesCounted
<1> QED BY <1>1, Counting, Tiling, PoolInvariance, BooksInvariance, PTL
-----------------------------------------------------------------------------
\* The system allocator (MCBlockAllocator), with callers of its own.

BInv == Blocks!TypeOK /\ Blocks!Conserved

\* Conserved, with the sum by name.
Balanced == avail + reserve + SumOf(owned, Callers) = Memory

\* Its sum is the sum of this module.
LEMMA Total == Blocks!Conserved <=> Balanced
<1>1. Blocks!MapThenSumSet(LAMBDA t : owned[t], Callers) = SumOf(owned, Callers)
  BY DEF SumOf, MapThenSumSet, MapThenFoldSet, Blocks!MapThenSumSet, Blocks!MapThenFoldSet
<1> QED BY <1>1 DEF Blocks!Conserved, Balanced

\* BlocksAssumption, in terms of this module.
LEMMA Amounts == IsFiniteSet(Callers) /\ Memory \in Nat /\ Sizes \subseteq Nat \ {0}
<1>1. IsFiniteSet(Callers)
  BY BlocksAssumption DEF Blocks!MemoryAssumption, IsFiniteSet, Blocks!IsFiniteSet
<1> QED BY <1>1, BlocksAssumption DEF Blocks!MemoryAssumption

LEMMA TotalNow == Blocks!Conserved' <=> Balanced'
BY Total, PTL

\* Units move between malloc, the reserve and one caller.
LEMMA BlockChanged ==
  ASSUME Blocks!TypeOK, Blocks!Conserved,
         NEW t \in Callers, NEW n \in Nat, owned' = [owned EXCEPT ![t] = n],
         avail' \in Nat, reserve' \in Nat, avail' + reserve' + n = avail + reserve + owned[t]
  PROVE  Blocks!Conserved'
<1>1. /\ owned \in [Callers -> Nat] /\ owned' \in [Callers -> Nat] /\ IsFiniteSet(Callers)
      /\ owned'[t] = n /\ \A u \in Callers : u # t => owned'[u] = owned[u]
  BY Amounts DEF Blocks!TypeOK
<1>2. Summable(owned, Callers) /\ Summable(owned', Callers)
  BY <1>1 DEF Summable
<1>3. SumOf(owned', Callers) = SumOf(owned, Callers) - owned[t] + n
  <2> DEFINE now == owned'
  <2>1. /\ Summable(now, Callers) /\ now[t] = n
        /\ \A u \in Callers : u # t => now[u] = owned[u]
    BY <1>1, <1>2
  <2> HIDE DEF now
  <2>2. SumOf(now, Callers) = SumOf(owned, Callers) - owned[t] + now[t]
    BY <1>2, <2>1, SumChange
  <2> QED BY <2>1, <2>2 DEF now
<1> DEFINE s == SumOf(owned, Callers)
<1>4. s \in Int /\ avail \in Nat /\ reserve \in Nat /\ owned[t] \in Nat
  BY <1>1, <1>2, SumTyped DEF Blocks!TypeOK
<1>5. avail + reserve + s = Memory
  BY Total DEF Balanced
<1>6. avail' + reserve' + (s - owned[t] + n) = Memory
  <2> HIDE DEF s
  <2> QED BY <1>4, <1>5
<1> QED BY <1>3, <1>6, TotalNow DEF Balanced

\* At the start malloc has everything.
LEMMA InitBInv == Blocks!Init => BInv
<1> SUFFICES ASSUME Blocks!Init PROVE BInv
  OBVIOUS
<1>1. Blocks!TypeOK
  BY Amounts DEF Blocks!Init, Blocks!TypeOK
<1>2. SumOf(owned, Callers) = Cardinality(Callers) * 0 /\ Cardinality(Callers) \in Nat
  BY Amounts, SumEqual, FS_CardinalityType DEF Blocks!Init
<1>3. Blocks!Conserved
  BY <1>2, Amounts, Total DEF Blocks!Init, Balanced
<1> QED BY <1>1, <1>3 DEF BInv

\* Steps that move nothing.
LEMMA StillBInv ==
  ASSUME BInv, UNCHANGED <<handler, avail, reserve, owned>>, Blocks!TypeOK'
  PROVE  BInv'
<1>1. Blocks!Conserved'
  BY Total, TotalNow DEF BInv, Balanced
<1> QED BY <1>1 DEF BInv

\* Every step of a caller keeps the balance.
LEMMA StepBInv == BInv /\ [Blocks!Next]_(Blocks!vars) => BInv'
<1> SUFFICES ASSUME BInv, [Blocks!Next]_(Blocks!vars) PROVE BInv'
  OBVIOUS
<1> USE DEF Blocks!TypeOK, Blocks!Goto
<1>0. /\ Blocks!TypeOK /\ Blocks!Conserved
      /\ \A t \in Callers : avail \in Nat /\ reserve \in Nat /\ owned[t] \in Nat /\ ask[t] \in Nat
  BY DEF BInv
<1>1. ASSUME NEW t \in Callers, Blocks!Call(t) PROVE BInv'
  <2>1. UNCHANGED <<handler, avail, reserve, owned>> /\ Blocks!TypeOK'
    BY <1>0, <1>1, Amounts DEF Blocks!Call
  <2> QED BY <2>1, StillBInv
<1>2. ASSUME NEW t \in Callers, Blocks!TryFails(t) \/ Blocks!TestHandler(t) \/ Blocks!CallNull(t)
      PROVE  BInv'
  <2>1. UNCHANGED <<handler, avail, reserve, owned>> /\ Blocks!TypeOK'
    BY <1>0, <1>2 DEF Blocks!TryFails, Blocks!TestHandler, Blocks!CallNull, Blocks!AfterTest
  <2> QED BY <2>1, StillBInv
<1>3. ASSUME NEW t \in Callers, Blocks!Throw(t) PROVE BInv'
  <2>1. UNCHANGED <<handler, avail, reserve, owned>> /\ Blocks!TypeOK'
    BY <1>0, <1>3 DEF Blocks!Throw, Blocks!OwnedOnThrow
  <2> QED BY <2>1, StillBInv
<1>4. ASSUME NEW t \in Callers, Blocks!TryFits(t) PROVE BInv'
  <2>1. /\ avail' \in Nat /\ avail' + ask[t] = avail + owned[t]
        /\ UNCHANGED <<handler, reserve, ask>> /\ owned' = [owned EXCEPT ![t] = ask[t]]
    BY <1>0, <1>4 DEF Blocks!TryFits, Blocks!Fits, Blocks!AvailAfter
  <2>2. reserve' \in Nat /\ avail' + reserve' + ask[t] = avail + reserve + owned[t]
    BY <1>0, <2>1
  <2>3. Blocks!Conserved'
    BY <1>0, <2>1, <2>2, BlockChanged
  <2>4. Blocks!TypeOK'
    BY <1>0, <1>4, <2>1 DEF Blocks!TryFits
  <2> QED BY <2>3, <2>4 DEF BInv
<1>5. ASSUME NEW t \in Callers, Blocks!CallHandler(t) PROVE BInv'
  <2>1. UNCHANGED <<owned, ask>> /\ at' = [at EXCEPT ![t] = "try"]
    BY <1>5 DEF Blocks!CallHandler, Blocks!AfterHandler
  <2>2. CASE reserve > 0
    <3>1. /\ avail' \in Nat /\ reserve' \in Nat /\ avail' + reserve' = avail + reserve
          /\ handler' = handler /\ handler # Blocks!NULL
      BY <1>0, <1>5, <2>2 DEF Blocks!CallHandler
    <3>2. Blocks!TypeOK'
      BY <1>0, <2>1, <3>1
    <3>3. Blocks!Conserved'
      <4>1. owned' = [owned EXCEPT ![t] = owned[t]]
        BY <1>0, <2>1
      <4>2. avail' + reserve' + owned[t] = avail + reserve + owned[t]
        BY <3>1
      <4> QED BY <1>0, <3>1, <4>1, <4>2, BlockChanged
    <3> QED BY <3>2, <3>3 DEF BInv
  <2>3. CASE ~(reserve > 0)
    <3>1. reserve = 0 /\ UNCHANGED <<reserve, avail>> /\ handler' = Blocks!NULL
      BY <1>0, <1>5, <2>3 DEF Blocks!CallHandler
    <3>2. Blocks!TypeOK'
      BY <1>0, <2>1, <3>1
    <3>3. Blocks!Conserved'
      BY <1>0, <2>1, <3>1, Total, TotalNow DEF Balanced
    <3> QED BY <3>2, <3>3 DEF BInv
  <2> QED BY <2>2, <2>3
<1>6. ASSUME NEW t \in Callers, Blocks!Deallocate(t) \/ Blocks!SetNewHandler(t) PROVE BInv'
  <2>1. /\ owned' = [owned EXCEPT ![t] = 0] /\ UNCHANGED <<ask, at>>
        /\ \/ avail' = avail + owned[t] /\ reserve' = reserve /\ handler' = handler
           \/ avail' = avail /\ reserve' = reserve + owned[t] /\ handler' = Blocks!ReleaseReserve
    BY <1>6 DEF Blocks!Deallocate, Blocks!SetNewHandler
  <2>2. avail' \in Nat /\ reserve' \in Nat /\ avail' + reserve' + 0 = avail + reserve + owned[t]
    BY <1>0, <2>1
  <2>3. Blocks!Conserved'
    BY <1>0, <2>1, <2>2, BlockChanged
  <2>4. Blocks!TypeOK'
    BY <1>0, <2>1, <2>2 DEF Blocks!NULL, Blocks!ReleaseReserve
  <2> QED BY <2>3, <2>4 DEF BInv
<1>7. CASE UNCHANGED Blocks!vars
  <2>1. UNCHANGED <<handler, avail, reserve, owned>> /\ Blocks!TypeOK'
    BY <1>0, <1>7 DEF Blocks!vars
  <2> QED BY <2>1, StillBInv
<1> QED BY <1>1, <1>2, <1>3, <1>4, <1>5, <1>6, <1>7 DEF Blocks!Next, Blocks!InCall

\* No unit of memory is lost or invented over failed attempts, handler calls and
\* bad_alloc (memallocator.cc:21-65), for any number of callers and any sizes.
THEOREM MemoryConserved == Blocks!Spec => []Conserved
<1>1. BInv => Conserved
  BY DEF BInv, Conserved
<1> QED BY <1>1, InitBInv, StepBInv, PTL DEF Blocks!Spec

\* A call the handler has helped goes back to malloc, and finds there what it needs.
Helped == \A t \in helped : t \in Callers /\ at[t] = "try" /\ Blocks!Fits(t)

LEMMA StepHelped == BInv /\ Helped /\ [MCNext]_mcVars => Helped'
<1> SUFFICES ASSUME BInv, Helped, [MCNext]_mcVars PROVE Helped'
  OBVIOUS
<1>0. at \in [Callers -> {"idle", "try", "test", "call", "crashed"}]
  BY DEF BInv, Blocks!TypeOK
<1>1. CASE UNCHANGED mcVars
  BY <1>1 DEF Helped, mcVars, Blocks!vars, Blocks!Fits
<1>2. CASE MCNext
  <2> SUFFICES ASSUME NEW t \in helped' PROVE t \in Callers /\ at'[t] = "try" /\ Blocks!Fits(t)'
    BY DEF Helped
  <2>1. /\ t \in Callers /\ Blocks!Fits(t)' /\ at'[t] \in {"try", "test", "call"}
        /\ Blocks!CallHandler(t) \/ t \in helped
    BY <1>2 DEF MCNext, InLoop
  <2>2. CASE Blocks!CallHandler(t)
    BY <1>0, <2>1, <2>2 DEF Blocks!CallHandler, Blocks!Goto, Blocks!AfterHandler
  <2>3. CASE t \in helped
    <3>1. at[t] = "try" /\ Blocks!Fits(t)
      BY <2>3 DEF Helped
    <3>2. PICK u \in Callers : Blocks!Call(u) \/ Blocks!InCall(u) \/ Blocks!Deallocate(u)
                                 \/ Blocks!SetNewHandler(u)
      BY <1>2 DEF MCNext, Blocks!Next
    <3>3. CASE Blocks!TryFits(u) \/ Blocks!TryFails(u)
      BY <1>0, <2>1, <3>1, <3>3 DEF Blocks!TryFits, Blocks!TryFails, Blocks!Goto
    <3>4. CASE Blocks!Call(u) \/ Blocks!TestHandler(u) \/ Blocks!Throw(u) \/ Blocks!CallHandler(u)
      BY <1>0, <2>1, <3>1, <3>4 DEF Blocks!Call, Blocks!TestHandler, Blocks!Throw, Blocks!CallHandler,
           Blocks!Goto
    <3>5. CASE Blocks!CallNull(u) \/ Blocks!Deallocate(u) \/ Blocks!SetNewHandler(u)
      BY <1>0, <2>1, <3>1, <3>5 DEF Blocks!CallNull, Blocks!Deallocate, Blocks!SetNewHandler
    <3> QED BY <2>1, <3>2, <3>3, <3>4, <3>5 DEF Blocks!InCall
  <2> QED BY <2>1, <2>2, <2>3
<1> QED BY <1>1, <1>2

\* What the handler has freed is used (out_of_mem_malloc, out_of_mem_realloc,
\* memallocator.cc:23-45): no call throws, or calls the handler again, while malloc
\* has had what it asks for ever since the handler ran for it, however many callers
\* compete for the memory.
THEOREM HandlerHelps == BlocksRun => HandlerNotInVain
<1>1. MCInit => BInv /\ Helped
  BY InitBInv DEF MCInit, Helped
<1>2. BInv /\ [MCNext]_mcVars => BInv'
  BY StepBInv DEF MCNext, mcVars
<1>3. BInv /\ Helped /\ [MCNext]_mcVars
        => [\A t \in Callers : Blocks!Throw(t) \/ Blocks!CallHandler(t) => t \notin helped]_mcVars
  BY DEF Helped, Blocks!Throw, Blocks!CallHandler, Blocks!Goto
<1> QED BY <1>1, <1>2, <1>3, StepHelped, PTL DEF BlocksRun, HandlerNotInVain
==============================================================================
