--------------------------------- MODULE Sums ---------------------------------
(***************************************************************************)
(* Facts about SumFunctionOnSet, the sum the models are built from: of no   *)
(* elements, of one element more, of functions that agree.  The sum is      *)
(* defined by recursion over sets.  Induction is by smallest counterexample *)
(* (SmallestSet), which quantifies over sets only.                          *)
(***************************************************************************)
EXTENDS Integers, FiniteSets, Functions, FiniteSetTheorems, TLAPS

\* the element the recursion takes first
One(s) == CHOOSE x \in s : TRUE

\* g is what the recursion computes for the subsets of S
Solves(g, f, S) ==
    g = [s \in SUBSET S |-> IF s = {} THEN 0 ELSE f[One(s)] + g[s \ {One(s)}]]

-----------------------------------------------------------------------------
\* A set of subsets of a finite set that is not empty has a smallest member.
LEMMA SmallestSet ==
    ASSUME NEW S, IsFiniteSet(S), NEW Bad, Bad \subseteq SUBSET S, Bad # {}
    PROVE  \E T \in Bad : \A U \in Bad : U \subseteq T => U = T
<1> DEFINE R == StrictSubsetOrdering(S)
<1>1. IsWellFoundedOn(R, SUBSET S)
  BY FS_StrictSubsetOrderingWellFounded, FS_FiniteSubsetsOfFinite
<1>2. PICK T \in Bad : \A U \in Bad : <<U, T>> \notin R
  <2> HIDE DEF R
  <2> QED BY <1>1, WFMin
<1>3. ASSUME NEW U \in Bad, U \subseteq T PROVE U = T
  BY <1>2, <1>3 DEF StrictSubsetOrdering
<1> QED BY <1>3

\* The element taken first is an element.
LEMMA OneIsIn == ASSUME NEW s, s # {} PROVE One(s) \in s
BY DEF One

\* What the recursion computes for a set does not depend on the set it began with.
LEMMA SolutionsAgree ==
    ASSUME NEW f, NEW A, NEW B, NEW g, NEW h, Solves(g, f, A), Solves(h, f, B),
           NEW C, IsFiniteSet(C), C \subseteq A, C \subseteq B
    PROVE  g[C] = h[C]
<1> DEFINE Bad == {T \in SUBSET C : g[T] # h[T]}
<1> SUFFICES ASSUME Bad # {} PROVE FALSE
  OBVIOUS
<1>1. PICK T \in Bad : \A U \in Bad : U \subseteq T => U = T
  <2>1. Bad \subseteq SUBSET C
    OBVIOUS
  <2> HIDE DEF Bad
  <2> QED BY <2>1, SmallestSet
<1>2. /\ g[T] = IF T = {} THEN 0 ELSE f[One(T)] + g[T \ {One(T)}]
      /\ h[T] = IF T = {} THEN 0 ELSE f[One(T)] + h[T \ {One(T)}]
  <2>1. T \in SUBSET A /\ T \in SUBSET B
    OBVIOUS
  <2> QED BY <2>1 DEF Solves
<1>3. CASE T = {}
  BY <1>2, <1>3
<1>4. CASE T # {}
  <2> DEFINE U == T \ {One(T)}
  <2>1. U \in SUBSET C /\ U \subseteq T /\ U # T
    BY <1>4, OneIsIn
  <2>2. U \notin Bad
    BY <1>1, <2>1
  <2>3. g[U] = h[U]
    BY <2>1, <2>2
  <2> QED BY <1>2, <1>4, <2>3
<1> QED BY <1>3, <1>4

\* The recursion computes something for every finite set.
LEMMA SolutionExists ==
    ASSUME NEW f, NEW S, IsFiniteSet(S)
    PROVE  \E g : Solves(g, f, S)
<1> DEFINE Bad == {T \in SUBSET S : ~ \E g : Solves(g, f, T)}
<1> SUFFICES ASSUME Bad # {} PROVE FALSE
  OBVIOUS
<1>1. PICK T \in Bad : \A U \in Bad : U \subseteq T => U = T
  <2>1. Bad \subseteq SUBSET S
    OBVIOUS
  <2> HIDE DEF Bad
  <2> QED BY <2>1, SmallestSet
<1> DEFINE Rest(s) == s \ {One(s)}
           Of(s) == CHOOSE g : Solves(g, f, s)
           G == [s \in SUBSET T |-> IF s = {} THEN 0 ELSE f[One(s)] + Of(Rest(s))[Rest(s)]]
<1>2. ASSUME NEW s \in SUBSET T, s # {}
      PROVE  Rest(s) \in SUBSET T /\ Rest(s) # T /\ IsFiniteSet(Rest(s)) /\ Solves(Of(Rest(s)), f, Rest(s))
  <2>1. Rest(s) \in SUBSET T /\ Rest(s) # T /\ Rest(s) \in SUBSET S
    BY <1>2, OneIsIn
  <2>2. IsFiniteSet(Rest(s))
    BY <2>1, FS_Subset
  <2>3. \E g : Solves(g, f, Rest(s))
    BY <1>1, <2>1
  <2> HIDE DEF Rest
  <2> QED BY <2>1, <2>2, <2>3
<1>3. ASSUME NEW s \in SUBSET T, s # {} PROVE G[Rest(s)] = Of(Rest(s))[Rest(s)]
  <2> DEFINE U == Rest(s)
  <2>1. /\ U \in SUBSET T /\ Solves(Of(U), f, U)
    BY <1>2, <1>3
  <2>2. Of(U)[U] = IF U = {} THEN 0 ELSE f[One(U)] + Of(U)[Rest(U)]
    <3> HIDE DEF U, Of
    <3> QED BY <2>1 DEF Solves
  <2>3. G[U] = IF U = {} THEN 0 ELSE f[One(U)] + Of(Rest(U))[Rest(U)]
    <3> HIDE DEF U, Of, Rest
    <3> QED BY <2>1
  <2>4. U # {} => Of(U)[Rest(U)] = Of(Rest(U))[Rest(U)]
    <3> SUFFICES ASSUME U # {} PROVE Of(U)[Rest(U)] = Of(Rest(U))[Rest(U)]
      OBVIOUS
    <3>1. IsFiniteSet(Rest(U)) /\ Solves(Of(Rest(U)), f, Rest(U))
      <4> HIDE DEF U, Rest, Of
      <4> QED BY <2>1, <1>2
    <3>2. Rest(U) \subseteq U
      OBVIOUS
    <3> HIDE DEF U, Of, Rest
    <3> QED BY <2>1, <3>1, <3>2, SolutionsAgree
  <2> HIDE DEF U, Of, Rest, G
  <2>5. G[U] = Of(U)[U]
    BY <2>2, <2>3, <2>4
  <2> QED BY <2>5 DEF U
<1>4. Solves(G, f, T)
  <2>1. ASSUME NEW s \in SUBSET T
        PROVE  G[s] = IF s = {} THEN 0 ELSE f[One(s)] + G[Rest(s)]
    <3> HIDE DEF Of, Rest
    <3>1. G[s] = IF s = {} THEN 0 ELSE f[One(s)] + Of(Rest(s))[Rest(s)]
      OBVIOUS
    <3> HIDE DEF G
    <3> QED BY <3>1, <1>3
  <2>2. G = [s \in SUBSET T |-> G[s]]
    <3> HIDE DEF Of, Rest
    <3> QED OBVIOUS
  <2>3. [s \in SUBSET T |-> G[s]] = [s \in SUBSET T |-> IF s = {} THEN 0 ELSE f[One(s)] + G[Rest(s)]]
    <3> HIDE DEF G, Rest
    <3> QED BY <2>1
  <2>4. G = [s \in SUBSET T |-> IF s = {} THEN 0 ELSE f[One(s)] + G[Rest(s)]]
    <3> HIDE DEF G, Rest
    <3> QED BY <2>2, <2>3
  <2> HIDE DEF G
  <2> QED BY <2>4 DEF Solves
<1> HIDE DEF G, Of
<1> QED BY <1>4

\* The sum over a set is what the recursion computes, on whichever larger set it began.
LEMMA SumIs ==
    ASSUME NEW f, NEW A, NEW g, Solves(g, f, A),
           NEW S, IsFiniteSet(S), S \subseteq A
    PROVE  SumFunctionOnSet(f, S) = g[S]
<1> DEFINE h == CHOOSE h : Solves(h, f, S)
<1>1. SumFunctionOnSet(f, S) = h[S]
  BY DEF SumFunctionOnSet, FoldFunctionOnSet, MapThenFoldSet, Solves, One
<1>2. Solves(h, f, S)
  BY SolutionExists
<1>3. S \subseteq S
  OBVIOUS
<1> HIDE DEF h
<1>4. h[S] = g[S]
  BY <1>2, <1>3, SolutionsAgree
<1> QED BY <1>1, <1>4

\* The sum over nothing is 0, and over more it is the value of the element taken
\* first and the sum over the rest.
LEMMA SumSteps ==
    ASSUME NEW f, NEW S, IsFiniteSet(S)
    PROVE  SumFunctionOnSet(f, S) =
               IF S = {} THEN 0 ELSE f[One(S)] + SumFunctionOnSet(f, S \ {One(S)})
<1>1. PICK g : Solves(g, f, S)
  BY SolutionExists
<1>2. S \in SUBSET S /\ IsFiniteSet(S \ {One(S)}) /\ S \ {One(S)} \subseteq S
  BY FS_RemoveElement
<1>3. SumFunctionOnSet(f, S) = g[S]
  BY <1>1, <1>2, SumIs
<1>4. SumFunctionOnSet(f, S \ {One(S)}) = g[S \ {One(S)}]
  BY <1>1, <1>2, SumIs
<1>5. g[S] = IF S = {} THEN 0 ELSE f[One(S)] + g[S \ {One(S)}]
  BY <1>1, <1>2 DEF Solves
<1> QED BY <1>3, <1>4, <1>5

\* A sum of integers is an integer.
LEMMA SumIsInt ==
    ASSUME NEW f, NEW S, IsFiniteSet(S), \A x \in S : f[x] \in Int
    PROVE  SumFunctionOnSet(f, S) \in Int
<1> DEFINE Bad == {T \in SUBSET S : SumFunctionOnSet(f, T) \notin Int}
<1> SUFFICES ASSUME Bad # {} PROVE FALSE
  OBVIOUS
<1>1. PICK T \in Bad : \A U \in Bad : U \subseteq T => U = T
  <2>1. Bad \subseteq SUBSET S
    OBVIOUS
  <2> HIDE DEF Bad
  <2> QED BY <2>1, SmallestSet
<1>2. IsFiniteSet(T)
  BY FS_Subset
<1>3. SumFunctionOnSet(f, T) =
          IF T = {} THEN 0 ELSE f[One(T)] + SumFunctionOnSet(f, T \ {One(T)})
  BY <1>2, SumSteps
<1>4. T # {}
  BY <1>3
<1>5. One(T) \in S /\ T \ {One(T)} \in SUBSET S /\ T \ {One(T)} # T
  BY <1>4, OneIsIn
<1>6. SumFunctionOnSet(f, T \ {One(T)}) \in Int
  BY <1>1, <1>5
<1> QED BY <1>3, <1>4, <1>5, <1>6

\* Any element may be taken first.
LEMMA SumTakes ==
    ASSUME NEW f, NEW S, IsFiniteSet(S), \A x \in S : f[x] \in Int, NEW x \in S
    PROVE  SumFunctionOnSet(f, S) = f[x] + SumFunctionOnSet(f, S \ {x})
<1> DEFINE Sum(T) == SumFunctionOnSet(f, T)
           Bad == {T \in SUBSET S : \E y \in T : Sum(T) # f[y] + Sum(T \ {y})}
<1> SUFFICES ASSUME Bad # {} PROVE FALSE
  OBVIOUS
<1>1. PICK T \in Bad : \A U \in Bad : U \subseteq T => U = T
  <2>1. Bad \subseteq SUBSET S
    OBVIOUS
  <2> HIDE DEF Bad
  <2> QED BY <2>1, SmallestSet
<1>2. PICK y \in T : Sum(T) # f[y] + Sum(T \ {y})
  OBVIOUS
<1> DEFINE p == One(T)
<1>3. p \in T
  BY <1>2, OneIsIn
<1>4. /\ IsFiniteSet(T) /\ IsFiniteSet(T \ {y}) /\ IsFiniteSet((T \ {y}) \ {p})
      /\ f[y] \in Int /\ f[p] \in Int
  BY <1>2, <1>3, FS_Subset, FS_RemoveElement
<1>5. Sum(T) = f[p] + Sum(T \ {p})
  <2>1. T # {}
    BY <1>2
  <2> QED BY <1>4, <2>1, SumSteps
<1>6. p # y
  BY <1>2, <1>5
<1>7. Sum(T \ {p}) = f[y] + Sum((T \ {p}) \ {y})
  <2>1. T \ {p} \notin Bad /\ T \ {p} \in SUBSET S /\ y \in T \ {p}
    BY <1>1, <1>2, <1>3, <1>6
  <2> HIDE DEF Sum, p
  <2> QED BY <2>1
<1>8. Sum(T \ {y}) = f[p] + Sum((T \ {y}) \ {p})
  <2>1. T \ {y} \notin Bad /\ T \ {y} \in SUBSET S /\ p \in T \ {y}
    BY <1>1, <1>2, <1>3, <1>6
  <2> HIDE DEF Sum, p
  <2> QED BY <2>1
<1>9. Sum((T \ {y}) \ {p}) \in Int
  BY <1>4, SumIsInt
<1>10. (T \ {p}) \ {y} = (T \ {y}) \ {p}
  OBVIOUS
<1>11. Sum(T \ {p}) = f[y] + Sum((T \ {y}) \ {p})
  BY <1>7, <1>10
<1>12. \A a, b, c \in Int : b + (a + c) = a + (b + c)
  OBVIOUS
<1> HIDE DEF Sum, p, Bad
<1>13. f[p] + (f[y] + Sum((T \ {y}) \ {p})) = f[y] + (f[p] + Sum((T \ {y}) \ {p}))
  BY <1>4, <1>9, <1>12
<1> QED BY <1>2, <1>5, <1>8, <1>11, <1>13

\* Functions that agree on a set have the same sum over it.
LEMMA SumAgrees ==
    ASSUME NEW f, NEW g, NEW S, IsFiniteSet(S), \A x \in S : f[x] = g[x]
    PROVE  SumFunctionOnSet(f, S) = SumFunctionOnSet(g, S)
<1> DEFINE Bad == {T \in SUBSET S : SumFunctionOnSet(f, T) # SumFunctionOnSet(g, T)}
<1> SUFFICES ASSUME Bad # {} PROVE FALSE
  OBVIOUS
<1>1. PICK T \in Bad : \A U \in Bad : U \subseteq T => U = T
  <2>1. Bad \subseteq SUBSET S
    OBVIOUS
  <2> HIDE DEF Bad
  <2> QED BY <2>1, SmallestSet
<1>2. IsFiniteSet(T)
  BY FS_Subset
<1>3. /\ SumFunctionOnSet(f, T) =
            IF T = {} THEN 0 ELSE f[One(T)] + SumFunctionOnSet(f, T \ {One(T)})
      /\ SumFunctionOnSet(g, T) =
            IF T = {} THEN 0 ELSE g[One(T)] + SumFunctionOnSet(g, T \ {One(T)})
  BY <1>2, SumSteps
<1>4. T # {}
  BY <1>3
<1>5. One(T) \in S /\ T \ {One(T)} \in SUBSET S /\ T \ {One(T)} # T
  BY <1>4, OneIsIn
<1>6. SumFunctionOnSet(f, T \ {One(T)}) = SumFunctionOnSet(g, T \ {One(T)})
  BY <1>1, <1>5
<1> QED BY <1>3, <1>4, <1>5, <1>6

-----------------------------------------------------------------------------
\* What the models write: the sum of the values of a function.  Of nothing it is 0, ...
THEOREM SumOfNothing == ASSUME NEW f, DOMAIN f = {} PROVE SumFunction(f) = 0
BY SumSteps, FS_EmptySet DEF SumFunction

\* ... of zeros it is 0, ...
THEOREM SumOfZeros ==
    ASSUME NEW f, IsFiniteSet(DOMAIN f), \A x \in DOMAIN f : f[x] = 0
    PROVE  SumFunction(f) = 0
<1> DEFINE S == DOMAIN f
           Bad == {T \in SUBSET S : SumFunctionOnSet(f, T) # 0}
<1>1. ASSUME Bad # {} PROVE FALSE
  <2>1. PICK T \in Bad : \A U \in Bad : U \subseteq T => U = T
    <3>1. Bad \subseteq SUBSET S
      OBVIOUS
    <3> HIDE DEF Bad
    <3> QED BY <1>1, <3>1, SmallestSet
  <2>2. IsFiniteSet(T)
    BY FS_Subset
  <2>3. SumFunctionOnSet(f, T) =
            IF T = {} THEN 0 ELSE f[One(T)] + SumFunctionOnSet(f, T \ {One(T)})
    BY <2>2, SumSteps
  <2>4. T # {}
    BY <2>3
  <2>5. One(T) \in S /\ T \ {One(T)} \in SUBSET S /\ T \ {One(T)} # T
    BY <2>4, OneIsIn
  <2>6. SumFunctionOnSet(f, T \ {One(T)}) = 0
    BY <2>1, <2>5
  <2> QED BY <2>3, <2>4, <2>5, <2>6
<1>2. S \notin Bad
  BY <1>1
<1> QED BY <1>2 DEF SumFunction

\* ... of integers it is an integer, ...
THEOREM SumOfInts ==
    ASSUME NEW f, IsFiniteSet(DOMAIN f), \A x \in DOMAIN f : f[x] \in Int
    PROVE  SumFunction(f) \in Int
BY SumIsInt DEF SumFunction

\* ... and an argument more adds its value.
THEOREM SumOfOneMore ==
    ASSUME NEW S, IsFiniteSet(S), NEW x, x \notin S, NEW f, NEW g,
           DOMAIN f = S, DOMAIN g = S \cup {x},
           \A y \in S : f[y] \in Int /\ g[y] = f[y], g[x] \in Int
    PROVE  SumFunction(g) = SumFunction(f) + g[x]
<1>1. IsFiniteSet(S \cup {x})
  BY FS_AddElement
<1>2. SumFunctionOnSet(g, S \cup {x}) = g[x] + SumFunctionOnSet(g, (S \cup {x}) \ {x})
  <2>1. x \in S \cup {x} /\ \A y \in S \cup {x} : g[y] \in Int
    OBVIOUS
  <2> QED BY <1>1, <2>1, SumTakes
<1>3. (S \cup {x}) \ {x} = S
  OBVIOUS
<1>4. SumFunctionOnSet(g, S) = SumFunctionOnSet(f, S)
  BY SumAgrees
<1>5. SumFunctionOnSet(f, S) \in Int
  BY SumIsInt
<1>6. SumFunctionOnSet(g, S \cup {x}) = g[x] + SumFunctionOnSet(f, S)
  BY <1>2, <1>3, <1>4
<1>7. \A a, b \in Int : a + b = b + a
  OBVIOUS
<1>8. SumFunctionOnSet(g, S \cup {x}) = SumFunctionOnSet(f, S) + g[x]
  BY <1>5, <1>6, <1>7
<1> QED BY <1>8 DEF SumFunction

\* Another value for one argument changes the sum by as much.
THEOREM SumOfOneChanged ==
    ASSUME NEW S, IsFiniteSet(S), NEW x \in S, NEW f, NEW g, DOMAIN f = S, DOMAIN g = S,
           \A y \in S : f[y] \in Int /\ g[y] \in Int, \A y \in S \ {x} : g[y] = f[y]
    PROVE  SumFunction(g) = SumFunction(f) + (g[x] - f[x])
<1> DEFINE rest == SumFunctionOnSet(f, S \ {x})
<1>1. IsFiniteSet(S \ {x})
  BY FS_RemoveElement
<1>2. SumFunctionOnSet(g, S \ {x}) = rest
  BY <1>1, SumAgrees
<1>3. SumFunction(f) = f[x] + rest
  BY SumTakes DEF SumFunction
<1>4. SumFunction(g) = g[x] + rest
  BY <1>2, SumTakes DEF SumFunction
<1>5. rest \in Int
  BY <1>1, SumIsInt
<1> HIDE DEF rest
<1> QED BY <1>3, <1>4, <1>5

\* If some of the values are one higher, the sum is higher by how many they are.
THEOREM SumOfRaised ==
    ASSUME NEW S, IsFiniteSet(S), NEW new, new \subseteq S, NEW f, NEW g, DOMAIN f = S,
           DOMAIN g = S, \A x \in S : f[x] \in Int,
           \A x \in S : g[x] = IF x \in new THEN f[x] + 1 ELSE f[x]
    PROVE  SumFunction(g) = SumFunction(f) + Cardinality(new)
<1> DEFINE Bad == {T \in SUBSET S :
                     SumFunctionOnSet(g, T) # SumFunctionOnSet(f, T) + Cardinality(new \cap T)}
<1>1. ASSUME Bad # {} PROVE FALSE
  <2>1. PICK T \in Bad : \A U \in Bad : U \subseteq T => U = T
    <3>1. Bad \subseteq SUBSET S
      OBVIOUS
    <3> HIDE DEF Bad
    <3> QED BY <1>1, <3>1, SmallestSet
  <2>2. IsFiniteSet(T)
    BY FS_Subset
  <2>3. T # {}
    <3> SUFFICES ASSUME T = {} PROVE FALSE
      OBVIOUS
    <3>1. SumFunctionOnSet(g, T) = 0 /\ SumFunctionOnSet(f, T) = 0
      BY <2>2, SumSteps
    <3>2. new \cap T = {} /\ Cardinality({}) = 0
      BY FS_EmptySet
    <3> QED BY <3>1, <3>2
  <2> DEFINE x == One(T)
             U == T \ {x}
  <2>4. x \in T /\ x \in S /\ U \in SUBSET S /\ U # T /\ U \subseteq T
    BY <2>3, OneIsIn
  <2>5. SumFunctionOnSet(g, U) = SumFunctionOnSet(f, U) + Cardinality(new \cap U)
    BY <2>1, <2>4
  <2>6. IsFiniteSet(U) /\ IsFiniteSet(new \cap U) /\ Cardinality(new \cap U) \in Nat
    BY <2>2, <2>4, FS_Subset, FS_CardinalityType
  <2>7. SumFunctionOnSet(f, U) \in Int
    BY <2>6, <2>4, SumIsInt
  <2>8. /\ SumFunctionOnSet(g, T) = g[x] + SumFunctionOnSet(g, U)
        /\ SumFunctionOnSet(f, T) = f[x] + SumFunctionOnSet(f, U)
    BY <2>2, <2>3, SumSteps
  <2>9. Cardinality(new \cap T) = IF x \in new THEN Cardinality(new \cap U) + 1
                                  ELSE Cardinality(new \cap U)
    <3>1. new \cap T = IF x \in new THEN (new \cap U) \cup {x} ELSE new \cap U
      BY <2>4
    <3>2. x \notin new \cap U
      OBVIOUS
    <3> HIDE DEF x, U
    <3> QED BY <2>6, <3>1, <3>2, FS_AddElement
  <2>10. f[x] \in Int /\ g[x] = IF x \in new THEN f[x] + 1 ELSE f[x]
    BY <2>4
  <2> HIDE DEF x, U
  <2>11. SumFunctionOnSet(g, T) = SumFunctionOnSet(f, T) + Cardinality(new \cap T)
    BY <2>5, <2>6, <2>7, <2>8, <2>9, <2>10
  <2> QED BY <2>11
<1>2. S \notin Bad
  BY <1>1
<1>3. SumFunctionOnSet(g, S) = SumFunctionOnSet(f, S) + Cardinality(new \cap S)
  BY <1>2
<1>4. new \cap S = new
  OBVIOUS
<1> QED BY <1>3, <1>4 DEF SumFunction

\* In a finite set that is not empty, some element comes before no other one.
LEMMA LastOne ==
    ASSUME NEW D, IsFiniteSet(D), D # {}, NEW R, \A q \in D : <<q, q>> \notin R,
           \A p, q, r \in D : <<p, q>> \in R /\ <<q, r>> \in R => <<p, r>> \in R
    PROVE  \E q \in D : \A r \in D : <<q, r>> \notin R
<1> DEFINE Later(q) == {r \in D : <<q, r>> \in R}
           Bad == {Later(q) : q \in D}
<1>1. Bad \subseteq SUBSET D
  OBVIOUS
<1>2. Bad # {}
  <2>1. PICK d \in D : TRUE
    OBVIOUS
  <2> HIDE DEF Later
  <2>2. Later(d) \in Bad
    OBVIOUS
  <2> HIDE DEF Bad
  <2> QED BY <2>2
<1>3. PICK T \in Bad : \A U \in Bad : U \subseteq T => U = T
  <2> HIDE DEF Bad
  <2> QED BY <1>1, <1>2, SmallestSet
<1>4. PICK q \in D : T = Later(q)
  OBVIOUS
<1>5. ASSUME NEW r \in D, <<q, r>> \in R PROVE FALSE
  <2>1. Later(r) \subseteq T /\ Later(r) \in Bad
    BY <1>4, <1>5
  <2>2. r \in T /\ r \notin Later(r)
    BY <1>4, <1>5
  <2> QED BY <1>3, <2>1, <2>2
<1> QED BY <1>5

\* Of finitely many numbers one is the least and one the greatest.
LEMMA Extremes ==
    ASSUME NEW S \in SUBSET Int, S # {}, IsFiniteSet(S)
    PROVE  /\ \E n \in S : \A m \in S : n <= m
           /\ \E n \in S : \A m \in S : n >= m
<1> DEFINE Falls == {w \in S \X S : w[1] > w[2]}
           Rises == {w \in S \X S : w[1] < w[2]}
<1>1. PICK n \in S : \A m \in S : <<n, m>> \notin Falls
  <2>1. /\ \A p \in S : <<p, p>> \notin Falls
        /\ \A k, m, p \in S : <<k, m>> \in Falls /\ <<m, p>> \in Falls => <<k, p>> \in Falls
    OBVIOUS
  <2> HIDE DEF Falls
  <2> QED BY <2>1, LastOne
<1>2. PICK p \in S : \A m \in S : <<p, m>> \notin Rises
  <2>1. /\ \A q \in S : <<q, q>> \notin Rises
        /\ \A k, m, q \in S : <<k, m>> \in Rises /\ <<m, q>> \in Rises => <<k, q>> \in Rises
    OBVIOUS
  <2> HIDE DEF Rises
  <2> QED BY <2>1, LastOne
<1>3. ASSUME NEW m \in S PROVE n <= m /\ p >= m
  <2>1. (n > m => <<n, m>> \in Falls) /\ (p < m => <<p, m>> \in Rises)
    OBVIOUS
  <2> QED BY <1>1, <1>2, <2>1
<1> QED BY <1>3

\* A function on a finite set has finitely many values.
LEMMA FiniteImage ==
    ASSUME NEW f, IsFiniteSet(DOMAIN f) PROVE IsFiniteSet({f[x] : x \in DOMAIN f})
<1> DEFINE S == DOMAIN f
           T == {f[x] : x \in S}
           g == [x \in S |-> f[x]]
<1>1. g \in Surjection(S, T)
  BY DEF Surjection
<1> QED BY <1>1, FS_Surjection

\* in the order of the relation
Follows(s, R) == \A i, j \in DOMAIN s : i < j => <<s[i], s[j]>> \in R

\* What is finite can be put in an order in which any two have a place.
LEMMA RowExists ==
    ASSUME NEW S, IsFiniteSet(S), NEW R, \A p \in S : <<p, p>> \notin R,
           \A p, q, r \in S : <<p, q>> \in R /\ <<q, r>> \in R => <<p, r>> \in R,
           \A p, q \in S : p = q \/ <<p, q>> \in R \/ <<q, p>> \in R
    PROVE  \E s \in [1 .. Cardinality(S) -> S] : Follows(s, R)
<1> DEFINE Row(T) == \E s \in [1 .. Cardinality(T) -> T] : Follows(s, R)
           Bad == {T \in SUBSET S : ~Row(T)}
<1>0. ASSUME Bad # {} PROVE FALSE
  <2>1. PICK T \in Bad : \A U \in Bad : U \subseteq T => U = T
    <3>1. Bad \subseteq SUBSET S
      OBVIOUS
    <3> HIDE DEF Bad
    <3> QED BY <1>0, <3>1, SmallestSet
  <2>2. IsFiniteSet(T) /\ T \subseteq S
    BY FS_Subset
  <2>3. CASE T = {}
    <3>1. Cardinality(T) = 0
      BY <2>3, FS_EmptySet
    <3>2. [i \in {} |-> 0] \in [1 .. Cardinality(T) -> T] /\ Follows([i \in {} |-> 0], R)
      BY <3>1 DEF Follows
    <3> QED BY <3>2
  <2>4. CASE T # {}
    <3>1. PICK m \in T : \A n \in T : <<m, n>> \notin R
      <4>1. /\ \A p \in T : <<p, p>> \notin R
            /\ \A p, q, r \in T : <<p, q>> \in R /\ <<q, r>> \in R => <<p, r>> \in R
        BY <2>2
      <4> QED BY <2>2, <2>4, <4>1, LastOne
    <3> DEFINE U == T \ {m}
               k == Cardinality(T)
    <3>2. IsFiniteSet(U) /\ Cardinality(U) = k - 1 /\ k \in Nat
      BY <2>2, FS_RemoveElement, FS_CardinalityType
    <3>3. U \in SUBSET S /\ U \subseteq T /\ U # T
      BY <2>2
    <3>4. PICK s \in [1 .. Cardinality(U) -> U] : Follows(s, R)
      BY <2>1, <3>3
    <3> DEFINE t == [i \in 1 .. k |-> IF i = k THEN m ELSE s[i]]
    <3>5. ASSUME NEW i \in 1 .. k, i # k
          PROVE  i \in 1 .. k - 1 /\ s[i] \in U /\ <<s[i], m>> \in R
      <4>1. i \in 1 .. k - 1
        BY <3>2, <3>5
      <4>2. s[i] \in U
        BY <3>2, <3>4, <4>1
      <4> QED BY <2>2, <3>1, <4>1, <4>2
    <3>6. t \in [1 .. k -> T]
      BY <3>5
    <3>7. Follows(t, R)
      <4> SUFFICES ASSUME NEW i \in 1 .. k, NEW j \in 1 .. k, i < j PROVE <<t[i], t[j]>> \in R
        BY DEF Follows
      <4>1. i # k /\ i \in 1 .. k - 1
        BY <3>2
      <4>2. CASE j = k
        BY <3>5, <4>1, <4>2
      <4>3. CASE j # k
        <5>1. j \in 1 .. k - 1
          BY <3>5, <4>3
        <5>2. DOMAIN s = 1 .. k - 1
          BY <3>2, <3>4
        <5> QED BY <3>4, <4>1, <4>3, <5>1, <5>2 DEF Follows
      <4> QED BY <4>2, <4>3
    <3> QED BY <3>6, <3>7
  <2> QED BY <2>3, <2>4
<1>1. S \in SUBSET S /\ (Bad = {} => S \notin Bad)
  OBVIOUS
<1> QED BY <1>0, <1>1

\* Finitely many numbers can be put in order, the highest first.
LEMMA OrderExists ==
    ASSUME NEW S, IsFiniteSet(S), S \subseteq Int
    PROVE  \E s \in [1 .. Cardinality(S) -> S] : \A i, j \in DOMAIN s : i < j => s[i] > s[j]
<1> DEFINE R == {w \in S \X S : w[1] > w[2]}
<1>1. /\ \A p \in S : <<p, p>> \notin R
      /\ \A p, q, r \in S : <<p, q>> \in R /\ <<q, r>> \in R => <<p, r>> \in R
      /\ \A p, q \in S : p = q \/ <<p, q>> \in R \/ <<q, p>> \in R
      /\ \A p, q : <<p, q>> \in R => p > q
  OBVIOUS
<1> HIDE DEF R
<1>2. PICK s \in [1 .. Cardinality(S) -> S] : Follows(s, R)
  BY <1>1, RowExists
<1> QED BY <1>1, <1>2 DEF Follows
=============================================================================
