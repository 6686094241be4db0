----------------------------- MODULE BookFacts -----------------------------
(***************************************************************************)
(* What the proofs about the spot venue need of finite sets, of sums over  *)
(* them (the SumFunction of the Functions module, which the models use for *)
(* every total the code adds up in a loop) and of the levels of a book.    *)
(* Induction is by least elements: a nonempty set of naturals has a least  *)
(* one, hence a nonempty set of subsets of a finite set has one without a  *)
(* smaller one.                                                            *)
(***************************************************************************)
EXTENDS LimitOrderBook, FiniteSets, Functions, WellFoundedInduction, TLAPS

-----------------------------------------------------------------------------
(* Least elements and finite sets.                                         *)

\* Every nonempty set of natural numbers has a least element.
LEMMA LeastNatural ==
    ASSUME NEW T, T \subseteq Nat, T # {}
    PROVE  \E x \in T : \A y \in T : x <= y
  <1> DEFINE R == OpToRel(<, Nat)
  <1>1. \E x \in T : \A y \in T : ~ (<<y, x>> \in R)
    BY NatLessThanWellFounded, WFMin, Zenon
  <1>2. PICK x \in T : \A y \in T : ~ (<<y, x>> \in R)
    BY <1>1
  <1>3. \A y \in T : x <= y
    <2> SUFFICES ASSUME NEW y \in T, y < x PROVE FALSE
      BY SMT
    <2>1. <<y, x>> \in R
      BY DEF OpToRel
    <2> QED
      BY <1>2, <2>1
  <1> QED
    BY <1>3

\* n steps suffice to list the elements of T (and perhaps others).
Listed(T, n) ==
    \E f : DOMAIN f = 1..n /\ \A x \in T : \E i \in 1..n : f[i] = x

\* A set is finite when it is listed in some number of steps.
LEMMA FiniteIsListed ==
    ASSUME NEW S, IsFiniteSet(S)
    PROVE  \E n \in Nat : Listed(S, n)
  <1>1. PICK s \in Seq(S) : \A x \in S : \E i \in 1..Len(s) : s[i] = x
    BY DEF IsFiniteSet
  <1> QED
    BY <1>1 DEF Listed

\* Conversely, whatever else the list names.
LEMMA ListedIsFinite ==
    ASSUME NEW S, NEW n \in Nat, Listed(S, n)
    PROVE  IsFiniteSet(S)
  <1>1. PICK f : DOMAIN f = 1..n /\ \A x \in S : \E i \in 1..n : f[i] = x
    BY DEF Listed
  <1>2. CASE S = {}
    <2>1. << >> \in Seq(S)
      OBVIOUS
    <2> QED
      BY <1>2, <2>1 DEF IsFiniteSet
  <1>3. CASE S # {}
    <2>1. PICK e \in S : TRUE
      BY <1>3
    <2> DEFINE s == [i \in 1..n |-> IF f[i] \in S THEN f[i] ELSE e]
    <2>2. s \in Seq(S) /\ Len(s) = n
      OBVIOUS
    <2>3. \A x \in S : \E i \in 1..n : s[i] = x
      BY <1>1
    <2> QED
      BY <2>2, <2>3 DEF IsFiniteSet
  <1> QED
    BY <1>2, <1>3

\* The empty set is finite.
LEMMA EmptyIsFinite == IsFiniteSet({})
  <1>1. DOMAIN [i \in 1..0 |-> 0] = 1..0
    OBVIOUS
  <1>2. Listed({}, 0)
    BY <1>1 DEF Listed
  <1> QED
    BY <1>2, ListedIsFinite

\* A part of a finite set is finite.
LEMMA PartIsFinite ==
    ASSUME NEW S, IsFiniteSet(S), NEW T, T \subseteq S
    PROVE  IsFiniteSet(T)
  <1>1. PICK n \in Nat : Listed(S, n)
    BY FiniteIsListed
  <1>2. Listed(T, n)
    BY <1>1 DEF Listed
  <1> QED
    BY <1>2, ListedIsFinite

\* One element more leaves a set finite.
LEMMA OneMoreIsFinite ==
    ASSUME NEW S, IsFiniteSet(S), NEW y
    PROVE  IsFiniteSet(S \cup {y})
  <1>1. PICK n \in Nat : Listed(S, n)
    BY FiniteIsListed
  <1>2. PICK f : DOMAIN f = 1..n /\ \A x \in S : \E i \in 1..n : f[i] = x
    BY <1>1 DEF Listed
  <1> DEFINE g == [i \in 1..n + 1 |-> IF i = n + 1 THEN y ELSE f[i]]
  <1>3. ASSUME NEW x \in S \cup {y}
        PROVE  \E i \in 1..n + 1 : g[i] = x
    <2>1. CASE x = y
      <3>1. n + 1 \in 1..n + 1 /\ g[n + 1] = y
        OBVIOUS
      <3> QED
        BY <2>1, <3>1
    <2>2. CASE x # y
      <3>1. PICK i \in 1..n : f[i] = x
        BY <1>2, <2>2
      <3>2. i \in 1..n + 1 /\ g[i] = x
        BY <3>1
      <3> QED
        BY <3>2
    <2> QED
      BY <2>1, <2>2
  <1>4. DOMAIN g = 1..n + 1 /\ n + 1 \in Nat
    OBVIOUS
  <1>5. Listed(S \cup {y}, n + 1)
    <2> HIDE DEF g
    <2> QED
      BY <1>3, <1>4 DEF Listed
  <1> QED
    BY <1>4, <1>5, ListedIsFinite

\* A set of natural numbers with a bound is finite.
LEMMA BoundedIsFinite ==
    ASSUME NEW S \in SUBSET Nat, NEW m \in Nat, \A x \in S : x <= m
    PROVE  IsFiniteSet(S)
  <1> DEFINE f == [i \in 1..m + 1 |-> i - 1]
  <1>1. ASSUME NEW x \in S PROVE \E i \in 1..m + 1 : f[i] = x
    <2>1. x \in Nat /\ x <= m
      OBVIOUS
    <2>2. x + 1 \in 1..m + 1 /\ f[x + 1] = x
      BY <2>1
    <2> QED
      BY <2>2
  <1>2. DOMAIN f = 1..m + 1 /\ m + 1 \in Nat
    OBVIOUS
  <1>3. Listed(S, m + 1)
    <2> HIDE DEF f
    <2> QED
      BY <1>1, <1>2 DEF Listed
  <1> QED
    BY <1>2, <1>3, ListedIsFinite

\* A proper part of a set is listed in one step less.
LEMMA ProperPartListed ==
    ASSUME NEW T, NEW n \in Nat, Listed(T, n), NEW U, U \subseteq T, U # T
    PROVE  n # 0 /\ Listed(U, n - 1)
  <1>1. PICK f : DOMAIN f = 1..n /\ \A x \in T : \E i \in 1..n : f[i] = x
    BY DEF Listed
  <1>2. PICK x \in T : x \notin U
    OBVIOUS
  <1>3. PICK k \in 1..n : f[k] = x
    BY <1>1
  <1> DEFINE g == [i \in 1..n - 1 |-> IF i = k THEN f[n] ELSE f[i]]
  <1>4. n # 0 /\ DOMAIN g = 1..n - 1
    BY <1>3
  <1>5. ASSUME NEW y \in U PROVE \E i \in 1..n - 1 : g[i] = y
    <2>1. PICK j \in 1..n : f[j] = y
      BY <1>1
    <2>2. j # k
      BY <1>2, <1>3, <2>1
    <2>3. CASE j = n
      <3>1. k \in 1..n - 1 /\ g[k] = y
        BY <2>1, <2>2, <2>3
      <3> QED
        BY <3>1
    <2>4. CASE j # n
      <3>1. j \in 1..n - 1 /\ g[j] = y
        BY <2>1, <2>2, <2>4
      <3> QED
        BY <3>1
    <2> QED
      BY <2>3, <2>4
  <1> HIDE DEF g
  <1> QED
    BY <1>4, <1>5 DEF Listed

\* A nonempty set of subsets of a finite set has a member none of whose proper
\* subsets is a member.
LEMMA LeastSubset ==
    ASSUME NEW S, IsFiniteSet(S), NEW B \in SUBSET (SUBSET S), B # {}
    PROVE  \E T \in B : \A U \in B : U \subseteq T => U = T
  <1> DEFINE N == {n \in Nat : \E T \in B : Listed(T, n)}
  <1>1. N \subseteq Nat /\ N # {}
    <2>1. PICK n \in Nat : Listed(S, n)
      BY FiniteIsListed
    <2>2. PICK T \in B : TRUE
      OBVIOUS
    <2>3. Listed(T, n)
      BY <2>1, <2>2 DEF Listed
    <2> QED
      BY <2>3
  <1>2. PICK n \in N : \A m \in N : n <= m
    <2> HIDE DEF N
    <2> QED
      BY <1>1, LeastNatural
  <1>3. PICK T \in B : Listed(T, n)
    OBVIOUS
  <1>4. ASSUME NEW U \in B, U \subseteq T PROVE U = T
    <2> SUFFICES ASSUME U # T PROVE FALSE
      OBVIOUS
    <2>1. n \in Nat /\ n # 0 /\ Listed(U, n - 1)
      BY <1>3, <1>4, ProperPartListed
    <2>2. n - 1 \in N
      BY <2>1
    <2>3. n <= n - 1
      BY <1>2, <2>2
    <2> QED
      BY <2>1, <2>3
  <1> QED
    BY <1>4

-----------------------------------------------------------------------------
(* Sums over finite sets.                                                  *)

\* The element a sum takes first.
Chosen(T) == CHOOSE x \in T : TRUE

\* g adds f up over every subset of S, the chosen element first.
AddsUp(g, f, S) ==
    g = [T \in SUBSET S |-> IF T = {} THEN 0 ELSE f[Chosen(T)] + g[T \ {Chosen(T)}]]

\* The chosen element is one of the set's.
LEMMA ChosenIn ==
    ASSUME NEW T, T # {}
    PROVE  Chosen(T) \in T
  BY DEF Chosen

\* Such a function is 0 at the empty set and takes the chosen element elsewhere.
LEMMA AddsUpStep ==
    ASSUME NEW g, NEW f, NEW S, AddsUp(g, f, S), NEW T \in SUBSET S
    PROVE  /\ T = {} => g[T] = 0
           /\ T # {} => /\ g[T] = f[Chosen(T)] + g[T \ {Chosen(T)}]
                        /\ Chosen(T) \in T
  BY ChosenIn DEF AddsUp

\* Two such functions agree wherever both are defined.
LEMMA AddsUpUnique ==
    ASSUME NEW f, NEW S, IsFiniteSet(S), NEW Q \in SUBSET S,
           NEW g, AddsUp(g, f, S), NEW h, AddsUp(h, f, Q), NEW T \in SUBSET Q
    PROVE  g[T] = h[T]
  <1> DEFINE B == {U \in SUBSET Q : g[U] # h[U]}
  <1> SUFFICES ASSUME B # {} PROVE FALSE
    OBVIOUS
  <1>1. B \in SUBSET (SUBSET S)
    OBVIOUS
  <1>2. PICK U \in B : \A V \in B : V \subseteq U => V = U
    <2> HIDE DEF B
    <2> QED
      BY <1>1, LeastSubset
  <1>3. U \in SUBSET S /\ U \in SUBSET Q /\ g[U] # h[U]
    OBVIOUS
  <1>4. U # {}
    BY <1>3, AddsUpStep
  <1> DEFINE V == U \ {Chosen(U)}
  <1>5. Chosen(U) \in U /\ g[U] = f[Chosen(U)] + g[V] /\ h[U] = f[Chosen(U)] + h[V]
    BY <1>3, <1>4, AddsUpStep
  <1>6. V \subseteq U /\ V # U /\ V \in SUBSET Q
    BY <1>3, <1>5
  <1>7. g[V] = h[V]
    BY <1>2, <1>6
  <1> QED
    BY <1>3, <1>5, <1>7

\* Every finite set has such a function.
LEMMA AddsUpExists ==
    ASSUME NEW f, NEW S, IsFiniteSet(S)
    PROVE  \E g : AddsUp(g, f, S)
  <1> DEFINE B == {T \in SUBSET S : ~ \E g : AddsUp(g, f, T)}
  <1> SUFFICES ASSUME B # {} PROVE FALSE
    OBVIOUS
  <1>1. PICK T \in B : \A U \in B : U \subseteq T => U = T
    <2>1. B \in SUBSET (SUBSET S)
      OBVIOUS
    <2> HIDE DEF B
    <2> QED
      BY <2>1, LeastSubset
  <1>2. T \in SUBSET S /\ ~ \E g : AddsUp(g, f, T)
    OBVIOUS
  <1>3. ASSUME NEW U \in SUBSET T, U # T
        PROVE  \E g : AddsUp(g, f, U)
    BY <1>1, <1>2, <1>3
  <1> DEFINE H(U) == CHOOSE h : AddsUp(h, f, U)
             Rest(U) == U \ {Chosen(U)}
             G(U) == IF U = {} THEN 0 ELSE f[Chosen(U)] + H(Rest(U))[Rest(U)]
             g == [U \in SUBSET T |-> G(U)]
  <1>4. ASSUME NEW U \in SUBSET T, U # T
        PROVE  AddsUp(H(U), f, U)
    BY <1>3, <1>4, Zenon
  <1>5. ASSUME NEW U \in SUBSET T, U # {}
        PROVE  /\ Chosen(U) \in U
               /\ Rest(U) \in SUBSET T /\ Rest(U) # T /\ Rest(U) \subseteq U
    BY <1>5, ChosenIn
  <1>6. ASSUME NEW V \in SUBSET T, V # T
        PROVE  G(V) = H(V)[V]
    <2>1. AddsUp(H(V), f, V)
      BY <1>4, <1>6
    <2>2. CASE V = {}
      <3>1. G(V) = 0
        BY <2>2
      <3> HIDE DEF G, H
      <3>2. H(V)[V] = 0
        BY <2>1, <2>2, AddsUpStep
      <3> QED
        BY <3>1, <3>2
    <2>3. CASE V # {}
      <3>1. G(V) = f[Chosen(V)] + H(Rest(V))[Rest(V)]
        BY <2>3
      <3>2. Rest(V) \in SUBSET V /\ Rest(V) \in SUBSET T /\ Rest(V) # T
        BY <1>5, <2>3
      <3>3. AddsUp(H(Rest(V)), f, Rest(V))
        BY <1>4, <3>2
      <3>4. IsFiniteSet(V)
        BY <1>2, PartIsFinite
      <3> HIDE DEF G, H
      <3>5. H(V)[V] = f[Chosen(V)] + H(V)[Rest(V)]
        BY <2>1, <2>3, AddsUpStep
      <3> HIDE DEF Rest
      <3>6. H(V)[Rest(V)] = H(Rest(V))[Rest(V)]
        <4> DEFINE W == Rest(V)
                   a == H(V)
                   b == H(Rest(V))
        <4>1. AddsUp(a, f, V) /\ AddsUp(b, f, W) /\ W \in SUBSET V
          BY <2>1, <3>2, <3>3
        <4> HIDE DEF W, a, b
        <4>2. W \in SUBSET W
          OBVIOUS
        <4>3. a[W] = b[W]
          BY <3>4, <4>1, <4>2, AddsUpUnique
        <4> QED
          BY <4>3 DEF W, a, b
      <3> QED
        BY <3>1, <3>5, <3>6
    <2> QED
      BY <2>2, <2>3
  <1>7. ASSUME NEW U \in SUBSET T
        PROVE  g[U] = IF U = {} THEN 0 ELSE f[Chosen(U)] + g[Rest(U)]
    <2>1. CASE U = {}
      BY <2>1
    <2>2. CASE U # {}
      <3>1. Rest(U) \in SUBSET T /\ Rest(U) # T
        BY <1>5, <2>2
      <3>2. g[Rest(U)] = G(Rest(U)) /\ g[U] = G(U)
        BY <3>1
      <3>3. G(Rest(U)) = H(Rest(U))[Rest(U)]
        BY <1>6, <3>1
      <3>4. G(U) = f[Chosen(U)] + H(Rest(U))[Rest(U)]
        BY <2>2
      <3> HIDE DEF g, G, H, Rest
      <3> QED
        BY <2>2, <3>2, <3>3, <3>4
    <2> QED
      BY <2>1, <2>2
  <1>8. AddsUp(g, f, T)
    <2>1. g = [U \in SUBSET T |-> g[U]]
      OBVIOUS
    <2> HIDE DEF g
    <2>2. [U \in SUBSET T |-> g[U]]
            = [U \in SUBSET T |-> IF U = {} THEN 0 ELSE f[Chosen(U)] + g[Rest(U)]]
      BY <1>7
    <2> QED
      BY <2>1, <2>2 DEF AddsUp
  <1> QED
    BY <1>2, <1>8

\* The sum of the Functions module is the value of such a function.
LEMMA SumAddsUp ==
    ASSUME NEW f, NEW S, IsFiniteSet(S)
    PROVE  \E g : AddsUp(g, f, S) /\ SumFunctionOnSet(f, S) = g[S]
  <1> DEFINE g == CHOOSE h : AddsUp(h, f, S)
  <1>1. AddsUp(g, f, S)
    BY AddsUpExists
  <1>2. SumFunctionOnSet(f, S) = g[S]
    BY DEF SumFunctionOnSet, FoldFunctionOnSet, MapThenFoldSet, AddsUp, Chosen
  <1> QED
    BY <1>1, <1>2

-----------------------------------------------------------------------------
(* What a sum is used for.                                                 *)

\* The empty sum is 0.
LEMMA SumEmpty ==
    ASSUME NEW f
    PROVE  SumFunctionOnSet(f, {}) = 0
  <1>1. PICK g : AddsUp(g, f, {}) /\ SumFunctionOnSet(f, {}) = g[{}]
    BY SumAddsUp, EmptyIsFinite
  <1> QED
    BY <1>1, AddsUpStep

\* A sum starts with the chosen element.
LEMMA SumChosen ==
    ASSUME NEW f, NEW S, IsFiniteSet(S), S # {}
    PROVE  /\ Chosen(S) \in S /\ IsFiniteSet(S \ {Chosen(S)})
           /\ SumFunctionOnSet(f, S)
                = f[Chosen(S)] + SumFunctionOnSet(f, S \ {Chosen(S)})
  <1> DEFINE x == Chosen(S)
             Q == S \ {x}
  <1>1. x \in S /\ Q \in SUBSET S /\ IsFiniteSet(Q)
    BY ChosenIn, PartIsFinite
  <1>2. PICK g : AddsUp(g, f, S) /\ SumFunctionOnSet(f, S) = g[S]
    BY SumAddsUp
  <1>3. PICK h : AddsUp(h, f, Q) /\ SumFunctionOnSet(f, Q) = h[Q]
    BY <1>1, SumAddsUp
  <1>4. g[S] = f[x] + g[Q]
    BY <1>2, AddsUpStep
  <1>5. g[Q] = h[Q]
    <2> HIDE DEF Q, x
    <2>1. Q \in SUBSET Q
      OBVIOUS
    <2> QED
      BY <1>1, <1>2, <1>3, <2>1, AddsUpUnique
  <1> QED
    BY <1>1, <1>2, <1>3, <1>4, <1>5

\* A sum of integers is one, and a sum of naturals is one.
LEMMA SumType ==
    ASSUME NEW f, NEW S, IsFiniteSet(S), \A x \in S : f[x] \in Int
    PROVE  /\ SumFunctionOnSet(f, S) \in Int
           /\ (\A x \in S : f[x] >= 0) => SumFunctionOnSet(f, S) >= 0
  <1> DEFINE Good(T) == /\ SumFunctionOnSet(f, T) \in Int
                        /\ (\A x \in T : f[x] >= 0) => SumFunctionOnSet(f, T) >= 0
             B == {T \in SUBSET S : ~ Good(T)}
  <1> SUFFICES ASSUME B # {} PROVE FALSE
    OBVIOUS
  <1>1. PICK T \in B : \A U \in B : U \subseteq T => U = T
    <2>1. B \in SUBSET (SUBSET S)
      OBVIOUS
    <2> HIDE DEF B
    <2> QED
      BY <2>1, LeastSubset
  <1>2. T \in SUBSET S /\ ~ Good(T)
    OBVIOUS
  <1>3. IsFiniteSet(T)
    BY <1>2, PartIsFinite
  <1>4. T # {}
    BY <1>2, SumEmpty
  <1> DEFINE x == Chosen(T)
             Q == T \ {x}
  <1>5. /\ x \in T /\ IsFiniteSet(Q)
        /\ SumFunctionOnSet(f, T) = f[x] + SumFunctionOnSet(f, Q)
    BY <1>3, <1>4, SumChosen
  <1>6. Q \subseteq T /\ Q # T /\ Q \in SUBSET S
    BY <1>2, <1>5
  <1>7. Good(Q)
    BY <1>1, <1>6
  <1> QED
    BY <1>2, <1>5, <1>6, <1>7

\* Any element may be taken out of a sum.
LEMMA SumTakeOut ==
    ASSUME NEW f, NEW S, IsFiniteSet(S), \A x \in S : f[x] \in Int, NEW y \in S
    PROVE  /\ SumFunctionOnSet(f, S) = f[y] + SumFunctionOnSet(f, S \ {y})
           /\ SumFunctionOnSet(f, S) \in Int /\ SumFunctionOnSet(f, S \ {y}) \in Int
  <1> DEFINE Sum(T) == SumFunctionOnSet(f, T)
             B == {T \in SUBSET S : \E z \in T : Sum(T) # f[z] + Sum(T \ {z})}
  <1>1. ASSUME NEW T \in SUBSET S PROVE Sum(T) \in Int /\ IsFiniteSet(T)
    <2>1. IsFiniteSet(T)
      BY PartIsFinite
    <2> QED
      BY <2>1, SumType
  <1>2. B = {}
    <2> SUFFICES ASSUME B # {} PROVE FALSE
      OBVIOUS
    <2>1. PICK T \in B : \A U \in B : U \subseteq T => U = T
      <3>1. B \in SUBSET (SUBSET S)
        OBVIOUS
      <3> HIDE DEF B
      <3> QED
        BY <3>1, LeastSubset
    <2>2. PICK z \in T : Sum(T) # f[z] + Sum(T \ {z})
      OBVIOUS
    <2> DEFINE x == Chosen(T)
    <2>3. /\ T \in SUBSET S /\ T # {} /\ IsFiniteSet(T)
      BY <1>1, <2>2
    <2>4. x \in T /\ Sum(T) = f[x] + Sum(T \ {x})
      BY <2>3, SumChosen
    <2> HIDE DEF x
    <2>5. x # z
      BY <2>2, <2>4
    <2> DEFINE Q == T \ {x}
               P == T \ {z}
    <2>6. Q \in SUBSET S /\ Q \subseteq T /\ Q # T /\ z \in Q /\ x \in P
      BY <2>3, <2>4, <2>5
    <2>7. Q \notin B
      BY <2>1, <2>6
    <2>8. Sum(Q) = f[z] + Sum(Q \ {z})
      BY <2>6, <2>7
    <2>9. P \in SUBSET S /\ P \subseteq T /\ P # T
      BY <2>2, <2>3
    <2>10. P \notin B
      BY <2>1, <2>9
    <2>11. Sum(P) = f[x] + Sum(P \ {x})
      BY <2>6, <2>9, <2>10
    <2>12. Q \ {z} = P \ {x} /\ P \ {x} \in SUBSET S
      BY <2>9
    <2>13. /\ Sum(Q) \in Int /\ Sum(P) \in Int /\ Sum(P \ {x}) \in Int
           /\ f[x] \in Int /\ f[z] \in Int
      BY <1>1, <2>2, <2>3, <2>4, <2>6, <2>9, <2>12
    <2>14. /\ Sum(T) = f[x] + Sum(Q) /\ Sum(T) # f[z] + Sum(P)
           /\ Sum(Q) = f[z] + Sum(P \ {x}) /\ Sum(P) = f[x] + Sum(P \ {x})
      BY <2>2, <2>4, <2>8, <2>11, <2>12
    <2> HIDE DEF Sum, P, Q
    <2> QED
      BY <2>13, <2>14
  <1>3. Sum(S) = f[y] + Sum(S \ {y})
    BY <1>2
  <1> QED
    BY <1>1, <1>3

\* Equal terms have equal sums.
LEMMA SumEqual ==
    ASSUME NEW f, NEW h, NEW S, IsFiniteSet(S), \A x \in S : f[x] = h[x]
    PROVE  SumFunctionOnSet(f, S) = SumFunctionOnSet(h, S)
  <1> DEFINE B == {T \in SUBSET S : SumFunctionOnSet(f, T) # SumFunctionOnSet(h, T)}
  <1> SUFFICES ASSUME B # {} PROVE FALSE
    OBVIOUS
  <1>1. PICK T \in B : \A U \in B : U \subseteq T => U = T
    <2>1. B \in SUBSET (SUBSET S)
      OBVIOUS
    <2> HIDE DEF B
    <2> QED
      BY <2>1, LeastSubset
  <1>2. T \in SUBSET S /\ SumFunctionOnSet(f, T) # SumFunctionOnSet(h, T)
    OBVIOUS
  <1>3. IsFiniteSet(T) /\ T # {}
    BY <1>2, PartIsFinite, SumEmpty
  <1> DEFINE x == Chosen(T)
             Q == T \ {x}
  <1>4. /\ x \in T
        /\ SumFunctionOnSet(f, T) = f[x] + SumFunctionOnSet(f, Q)
        /\ SumFunctionOnSet(h, T) = h[x] + SumFunctionOnSet(h, Q)
    BY <1>3, SumChosen
  <1>5. Q \subseteq T /\ Q # T /\ Q \in SUBSET S
    BY <1>2, <1>4
  <1>6. SumFunctionOnSet(f, Q) = SumFunctionOnSet(h, Q)
    BY <1>1, <1>5
  <1> QED
    BY <1>2, <1>4, <1>6

\* A new element adds its term.
LEMMA SumAdd ==
    ASSUME NEW f, NEW S, IsFiniteSet(S), NEW y, y \notin S,
           \A x \in S \cup {y} : f[x] \in Int
    PROVE  /\ SumFunctionOnSet(f, S \cup {y}) = f[y] + SumFunctionOnSet(f, S)
           /\ SumFunctionOnSet(f, S \cup {y}) \in Int /\ SumFunctionOnSet(f, S) \in Int
  <1> DEFINE T == S \cup {y}
  <1>1. IsFiniteSet(T) /\ y \in T /\ T \ {y} = S
    BY OneMoreIsFinite
  <1> HIDE DEF T
  <1>2. /\ SumFunctionOnSet(f, T) = f[y] + SumFunctionOnSet(f, T \ {y})
        /\ SumFunctionOnSet(f, T) \in Int /\ SumFunctionOnSet(f, T \ {y}) \in Int
    <2>1. \A x \in T : f[x] \in Int
      BY DEF T
    <2> QED
      BY <1>1, <2>1, SumTakeOut
  <1> QED
    BY <1>1, <1>2 DEF T

\* Changing one term changes the sum by as much.
LEMMA SumChange ==
    ASSUME NEW f, NEW h, NEW S, IsFiniteSet(S), NEW y \in S,
           \A x \in S : f[x] \in Int /\ h[x] \in Int,
           \A x \in S \ {y} : h[x] = f[x]
    PROVE  SumFunctionOnSet(h, S) = SumFunctionOnSet(f, S) + (h[y] - f[y])
  <1>1. /\ SumFunctionOnSet(f, S) = f[y] + SumFunctionOnSet(f, S \ {y})
        /\ SumFunctionOnSet(f, S \ {y}) \in Int
    <2>1. IsFiniteSet(S) /\ y \in S /\ \A x \in S : f[x] \in Int
      OBVIOUS
    <2> QED
      BY ONLY <2>1, SumTakeOut
  <1>2. /\ SumFunctionOnSet(h, S) = h[y] + SumFunctionOnSet(h, S \ {y})
        /\ SumFunctionOnSet(h, S \ {y}) \in Int
    <2>1. IsFiniteSet(S) /\ y \in S /\ \A x \in S : h[x] \in Int
      OBVIOUS
    <2> QED
      BY ONLY <2>1, SumTakeOut
  <1>3. IsFiniteSet(S \ {y})
    BY PartIsFinite
  <1>4. SumFunctionOnSet(h, S \ {y}) = SumFunctionOnSet(f, S \ {y})
    BY <1>3, SumEqual
  <1> QED
    BY <1>1, <1>2, <1>4

\* Fewer and smaller terms make no larger sum.
LEMMA SumShrinks ==
    ASSUME NEW f, NEW h, NEW S, IsFiniteSet(S), NEW P \in SUBSET S,
           \A x \in S : f[x] \in Nat,
           \A x \in P : h[x] \in Nat /\ h[x] <= f[x]
    PROVE  SumFunctionOnSet(h, P) <= SumFunctionOnSet(f, S)
  <1> DEFINE B == {T \in SUBSET S :
                     ~ (SumFunctionOnSet(h, T \cap P) <= SumFunctionOnSet(f, T))}
  <1>1. ASSUME NEW T \in SUBSET S
        PROVE  /\ IsFiniteSet(T) /\ IsFiniteSet(T \cap P)
               /\ SumFunctionOnSet(f, T) \in Int
               /\ SumFunctionOnSet(h, T \cap P) \in Int
    <2>1. IsFiniteSet(T) /\ IsFiniteSet(T \cap P)
      BY PartIsFinite
    <2>2. \A x \in T : f[x] \in Int
      OBVIOUS
    <2>3. \A x \in T \cap P : h[x] \in Int
      OBVIOUS
    <2>4. SumFunctionOnSet(f, T) \in Int
      BY <2>1, <2>2, SumType
    <2>5. SumFunctionOnSet(h, T \cap P) \in Int
      BY <2>1, <2>3, SumType
    <2> QED
      BY <2>1, <2>4, <2>5
  <1>2. B = {}
    <2> SUFFICES ASSUME B # {} PROVE FALSE
      OBVIOUS
    <2>1. PICK T \in B : \A U \in B : U \subseteq T => U = T
      <3>1. B \in SUBSET (SUBSET S)
        OBVIOUS
      <3> HIDE DEF B
      <3> QED
        BY <3>1, LeastSubset
    <2>2. T \in SUBSET S /\ IsFiniteSet(T)
      BY <1>1
    <2>3. T # {}
      <3>1. {} \cap P = {} /\ SumFunctionOnSet(h, {}) = 0 /\ SumFunctionOnSet(f, {}) = 0
        BY SumEmpty
      <3>2. ~ (SumFunctionOnSet(h, T \cap P) <= SumFunctionOnSet(f, T))
        OBVIOUS
      <3> QED
        BY <3>1, <3>2
    <2>4. PICK x \in T : TRUE
      BY <2>3
    <2> DEFINE Q == T \ {x}
    <2>5. Q \in SUBSET S /\ Q \subseteq T /\ Q # T
      BY <2>2
    <2>6. SumFunctionOnSet(h, Q \cap P) <= SumFunctionOnSet(f, Q)
      BY <2>1, <2>5
    <2>7. SumFunctionOnSet(f, T) = f[x] + SumFunctionOnSet(f, Q)
      <3>1. \A y \in T : f[y] \in Int
        BY <2>2
      <3> QED
        BY <2>2, <3>1, SumTakeOut
    <2>8. /\ SumFunctionOnSet(f, Q) \in Int /\ SumFunctionOnSet(h, Q \cap P) \in Int
          /\ f[x] \in Nat
      BY <1>1, <2>2, <2>5
    <2>9. CASE x \in P
      <3> DEFINE V == T \cap P
      <3>1. V \ {x} = Q \cap P /\ x \in V /\ IsFiniteSet(V) /\ \A y \in V : h[y] \in Int
        BY <1>1, <2>2, <2>9
      <3> HIDE DEF V, Q
      <3>2. SumFunctionOnSet(h, V) = h[x] + SumFunctionOnSet(h, Q \cap P)
        <4>1. SumFunctionOnSet(h, V) = h[x] + SumFunctionOnSet(h, V \ {x})
          BY <3>1, SumTakeOut
        <4> QED
          BY <3>1, <4>1
      <3>3. h[x] \in Nat /\ h[x] <= f[x]
        BY <2>9
      <3>4. ~ (SumFunctionOnSet(h, V) <= SumFunctionOnSet(f, T))
        BY DEF V
      <3> QED
        BY <2>6, <2>7, <2>8, <3>2, <3>3, <3>4
    <2>10. CASE x \notin P
      <3>1. T \cap P = Q \cap P
        BY <2>10
      <3>2. ~ (SumFunctionOnSet(h, Q \cap P) <= SumFunctionOnSet(f, T))
        BY <3>1
      <3> HIDE DEF Q
      <3> QED
        BY <2>6, <2>7, <2>8, <3>2
    <2> QED
      BY <2>9, <2>10
  <1>3. S \cap P = P
    OBVIOUS
  <1> QED
    BY <1>2, <1>3

\* A step of two parties whose changes cancel keeps the total.
LEMMA PaymentKeepsTotal ==
    ASSUME NEW f, NEW h, NEW S, IsFiniteSet(S), NEW t \in S, NEW m \in S, t # m,
           \A c \in S : f[c] \in Int /\ h[c] \in Int,
           \A c \in S \ {t, m} : h[c] = f[c]
    PROVE  SumFunctionOnSet(h, S) = SumFunctionOnSet(f, S) + (h[t] - f[t]) + (h[m] - f[m])
  <1> DEFINE g == [c \in S |-> IF c = t THEN h[c] ELSE f[c]]
  <1>1. /\ \A c \in S : g[c] \in Int
        /\ \A c \in S \ {t} : g[c] = f[c]
        /\ \A c \in S \ {m} : h[c] = g[c]
        /\ g[t] = h[t] /\ g[m] = f[m]
    OBVIOUS
  <1> HIDE DEF g
  <1>2. SumFunctionOnSet(g, S) = SumFunctionOnSet(f, S) + (g[t] - f[t])
    BY <1>1, SumChange
  <1>3. SumFunctionOnSet(h, S) = SumFunctionOnSet(g, S) + (h[m] - g[m])
    BY <1>1, SumChange, SMTT(40)
  <1> QED
    BY <1>1, <1>2, <1>3

-----------------------------------------------------------------------------
(* Levels.                                                                 *)

\* The quantities of an order are natural numbers and it is not overfilled.
Counted(o) ==
    /\ o.qty \in Nat /\ o.filled \in Nat /\ o.display \in Nat /\ o.filled <= o.qty
    /\ o.vis \in Visibilities

SoundBook(bk) == IsFiniteSet(DOMAIN bk) /\ \A id \in DOMAIN bk : Counted(bk[id])

\* o2 is o1 in everything its level looks at.
Alike(o1, o2) ==
    /\ o2.side = o1.side /\ o2.price = o1.price /\ o2.qty = o1.qty
    /\ o2.filled = o1.filled /\ o2.vis = o1.vis /\ o2.display = o1.display

\* What an order shows and what is left of it are natural numbers.
LEMMA ShownType ==
    ASSUME NEW o, Counted(o)
    PROVE  Remaining(o) \in Nat /\ VisibleOf(o) \in Nat
  <1>1. Remaining(o) \in Nat
    BY DEF Remaining, Counted
  <1> QED
    BY <1>1 DEF VisibleOf, Lesser, Visibilities, Counted

\* What a level shows and what it holds are sums over its queue, and natural.
LEMMA LevelType ==
    ASSUME NEW bk, SoundBook(bk), NEW side, NEW p
    PROVE  LET L == LevelOf(bk, side, p)
               V == [i \in L |-> VisibleOf(bk[i])]
               R == [i \in L |-> Remaining(bk[i])]
           IN  /\ IsFiniteSet(L) /\ L \subseteq DOMAIN bk
               /\ \A i \in L : V[i] \in Nat /\ R[i] \in Nat
               /\ VisibleQty(bk, side, p) = SumFunctionOnSet(V, L)
               /\ TotalQty(bk, side, p) = SumFunctionOnSet(R, L)
               /\ VisibleQty(bk, side, p) \in Nat
               /\ TotalQty(bk, side, p) \in Nat
  <1> DEFINE L == LevelOf(bk, side, p)
             V == [i \in L |-> VisibleOf(bk[i])]
             R == [i \in L |-> Remaining(bk[i])]
  <1>1. L \subseteq DOMAIN bk
    BY DEF LevelOf
  <1>2. IsFiniteSet(L)
    BY <1>1, PartIsFinite DEF SoundBook
  <1>3. \A i \in L : Remaining(bk[i]) \in Nat /\ VisibleOf(bk[i]) \in Nat
    BY <1>1, ShownType DEF SoundBook
  <1> HIDE DEF L
  <1>4. \A i \in L : V[i] \in Nat /\ R[i] \in Nat
    BY <1>3
  <1>5. VisibleQty(bk, side, p) = SumFunctionOnSet(V, L)
    BY DEF VisibleQty, SumFunction, L
  <1>6. TotalQty(bk, side, p) = SumFunctionOnSet(R, L)
    BY DEF TotalQty, SumFunction, L
  <1> HIDE DEF V, R
  <1>7. (\A i \in L : V[i] \in Int /\ V[i] >= 0) /\ (\A i \in L : R[i] \in Int /\ R[i] >= 0)
    BY <1>4
  <1>8. SumFunctionOnSet(V, L) \in Int /\ SumFunctionOnSet(V, L) >= 0
    BY <1>2, <1>7, SumType
  <1>9. SumFunctionOnSet(R, L) \in Int /\ SumFunctionOnSet(R, L) >= 0
    BY <1>2, <1>7, SumType
  <1>10. VisibleQty(bk, side, p) \in Nat /\ TotalQty(bk, side, p) \in Nat
    BY <1>5, <1>6, <1>8, <1>9
  <1> QED
    BY <1>1, <1>2, <1>4, <1>5, <1>6, <1>10 DEF L, V, R

\* A level with the same orders, alike in what they show and have left, shows
\* and holds the same.
LEMMA SameLevel ==
    ASSUME NEW bk, NEW bk2, NEW side, NEW p,
           LevelOf(bk2, side, p) = LevelOf(bk, side, p),
           \A i \in LevelOf(bk, side, p) : VisibleOf(bk2[i]) = VisibleOf(bk[i])
                                             /\ Remaining(bk2[i]) = Remaining(bk[i])
    PROVE  /\ VisibleQty(bk2, side, p) = VisibleQty(bk, side, p)
           /\ TotalQty(bk2, side, p) = TotalQty(bk, side, p)
  <1> DEFINE L == LevelOf(bk, side, p)
  <1>1. [i \in L |-> VisibleOf(bk2[i])] = [i \in L |-> VisibleOf(bk[i])]
    OBVIOUS
  <1>2. [i \in L |-> Remaining(bk2[i])] = [i \in L |-> Remaining(bk[i])]
    OBVIOUS
  <1> QED
    BY <1>1, <1>2 DEF VisibleQty, TotalQty

\* When orders only leave the book or are filled, no level's total grows.
LEMMA TotalShrinks ==
    ASSUME NEW bk, SoundBook(bk), NEW bk2, SoundBook(bk2),
           DOMAIN bk2 \subseteq DOMAIN bk,
           \A i \in DOMAIN bk2 : /\ bk2[i].side = bk[i].side /\ bk2[i].price = bk[i].price
                                 /\ bk2[i].qty = bk[i].qty /\ bk[i].filled <= bk2[i].filled,
           NEW side, NEW p
    PROVE  TotalQty(bk2, side, p) <= TotalQty(bk, side, p)
  <1> DEFINE L == LevelOf(bk, side, p)
             L2 == LevelOf(bk2, side, p)
             R == [i \in L |-> Remaining(bk[i])]
             R2 == [i \in L2 |-> Remaining(bk2[i])]
  <1>1. \A i \in DOMAIN bk2 : /\ bk[i].qty \in Nat /\ bk[i].filled \in Nat
                              /\ bk2[i].qty \in Nat /\ bk2[i].filled \in Nat
    BY DEF SoundBook, Counted
  <1>2. L2 \in SUBSET L
    BY <1>1 DEF LevelOf, Linked
  <1>3. \A i \in L2 : Remaining(bk2[i]) <= Remaining(bk[i])
    <2>1. \A i \in L2 : i \in DOMAIN bk2
      BY DEF LevelOf
    <2> QED
      BY <1>1, <2>1 DEF Remaining
  <1>4. IsFiniteSet(L) /\ (\A i \in L : R[i] \in Nat) /\ TotalQty(bk, side, p) = SumFunctionOnSet(R, L)
    BY LevelType
  <1>5. (\A i \in L2 : R2[i] \in Nat) /\ TotalQty(bk2, side, p) = SumFunctionOnSet(R2, L2)
    BY LevelType
  <1> HIDE DEF L, L2
  <1>6. \A i \in L2 : R2[i] \in Nat /\ R2[i] <= R[i]
    BY <1>2, <1>3, <1>5
  <1> HIDE DEF R, R2
  <1>7. SumFunctionOnSet(R2, L2) <= SumFunctionOnSet(R, L)
    BY <1>2, <1>4, <1>6, SumShrinks
  <1> QED
    BY <1>4, <1>5, <1>7

\* Orders alike in that show the same and have the same left.
LEMMA AlikeShown ==
    ASSUME NEW o1, NEW o2, Alike(o1, o2)
    PROVE  /\ VisibleOf(o2) = VisibleOf(o1) /\ Remaining(o2) = Remaining(o1)
           /\ Linked(o2) <=> Linked(o1)
  <1>1. Remaining(o2) = Remaining(o1) /\ (Linked(o2) <=> Linked(o1))
    BY DEF Alike, Remaining, Linked
  <1> QED
    BY <1>1 DEF VisibleOf, Alike

\* bk2 is bk without the order id.
Without(bk, bk2, id) ==
    /\ id \in DOMAIN bk
    /\ DOMAIN bk2 = DOMAIN bk \ {id}
    /\ \A i \in DOMAIN bk2 : Alike(bk[i], bk2[i])

\* An order taken out of the book leaves its own level with that much less, if it
\* was linked there, and every other level as it was.
LEMMA OneOrderLess ==
    ASSUME NEW bk, SoundBook(bk), NEW bk2, SoundBook(bk2),
           NEW id, Without(bk, bk2, id), NEW side, NEW p
    PROVE  IF bk[id].side = side /\ bk[id].price = p /\ Linked(bk[id])
           THEN /\ VisibleQty(bk, side, p) = VisibleOf(bk[id]) + VisibleQty(bk2, side, p)
                /\ TotalQty(bk, side, p) = Remaining(bk[id]) + TotalQty(bk2, side, p)
           ELSE /\ VisibleQty(bk, side, p) = VisibleQty(bk2, side, p)
                /\ TotalQty(bk, side, p) = TotalQty(bk2, side, p)
  <1> DEFINE L == LevelOf(bk, side, p)
             L2 == LevelOf(bk2, side, p)
             here == bk[id].side = side /\ bk[id].price = p /\ Linked(bk[id])
  <1>1. \A i \in DOMAIN bk2 : /\ VisibleOf(bk2[i]) = VisibleOf(bk[i])
                              /\ Remaining(bk2[i]) = Remaining(bk[i])
                              /\ Linked(bk2[i]) <=> Linked(bk[i])
                              /\ bk2[i].side = bk[i].side /\ bk2[i].price = bk[i].price
    BY AlikeShown DEF Without, Alike
  <1>2. L2 = L \ {id}
    BY <1>1 DEF Without, LevelOf
  <1>3. L2 \subseteq DOMAIN bk2
    BY DEF LevelOf
  <1>4. id \in L <=> here
    BY DEF Without, LevelOf
  <1>5. CASE ~here
    <2>1. L2 = L
      BY <1>2, <1>4, <1>5
    <2>2. \A i \in L : VisibleOf(bk2[i]) = VisibleOf(bk[i]) /\ Remaining(bk2[i]) = Remaining(bk[i])
      BY <1>1, <1>3, <2>1
    <2>3. VisibleQty(bk2, side, p) = VisibleQty(bk, side, p) /\ TotalQty(bk2, side, p) = TotalQty(bk, side, p)
      BY <2>1, <2>2, SameLevel
    <2> QED
      BY <1>5, <2>3
  <1>6. CASE here
    <2> DEFINE V == [i \in L |-> VisibleOf(bk[i])]
               R == [i \in L |-> Remaining(bk[i])]
               V2 == [i \in L2 |-> VisibleOf(bk2[i])]
               R2 == [i \in L2 |-> Remaining(bk2[i])]
    <2>1. /\ IsFiniteSet(L) /\ \A i \in L : V[i] \in Nat /\ R[i] \in Nat
          /\ VisibleQty(bk, side, p) = SumFunctionOnSet(V, L)
          /\ TotalQty(bk, side, p) = SumFunctionOnSet(R, L)
      BY LevelType
    <2>2. /\ IsFiniteSet(L2)
          /\ VisibleQty(bk2, side, p) = SumFunctionOnSet(V2, L2)
          /\ TotalQty(bk2, side, p) = SumFunctionOnSet(R2, L2)
      BY LevelType
    <2>3. \A i \in L2 : V2[i] = V[i] /\ R2[i] = R[i]
      BY <1>1, <1>2, <1>3
    <2>4. id \in L /\ V[id] = VisibleOf(bk[id]) /\ R[id] = Remaining(bk[id])
      BY <1>4, <1>6
    <2> HIDE DEF L, L2, V, R, V2, R2
    <2>5. SumFunctionOnSet(V2, L2) = SumFunctionOnSet(V, L2)
      BY <2>2, <2>3, SumEqual
    <2>6. SumFunctionOnSet(R2, L2) = SumFunctionOnSet(R, L2)
      BY <2>2, <2>3, SumEqual
    <2>7. IsFiniteSet(L) /\ id \in L /\ (\A i \in L : V[i] \in Int) /\ (\A i \in L : R[i] \in Int)
      BY <2>1, <2>4
    <2>8. SumFunctionOnSet(V, L) = V[id] + SumFunctionOnSet(V, L \ {id})
      BY SMTT(30), <2>7, SumTakeOut
    <2>9. SumFunctionOnSet(R, L) = R[id] + SumFunctionOnSet(R, L \ {id})
      BY SMTT(30), <2>7, SumTakeOut
    <2> QED
      BY <1>2, <1>6, <2>1, <2>2, <2>4, <2>5, <2>6, <2>8, <2>9
  <1> QED
    BY <1>5, <1>6

\* An order taken out of the book changes what no level shows, unless it was
\* showing at its own.
LEMMA ShownElsewhere ==
    ASSUME NEW bk, SoundBook(bk), NEW bk2, SoundBook(bk2),
           NEW id, Without(bk, bk2, id), NEW side, NEW p,
           bk[id].vis = "Hidden" \/ bk[id].side # side \/ bk[id].price # p
    PROVE  VisibleQty(bk2, side, p) = VisibleQty(bk, side, p)
  <1>1. VisibleQty(bk, side, p) \in Nat /\ VisibleQty(bk2, side, p) \in Nat
    BY LevelType
  <1>2. bk[id].vis = "Hidden" => VisibleOf(bk[id]) = 0
    BY DEF VisibleOf
  <1>3. IF bk[id].side = side /\ bk[id].price = p /\ Linked(bk[id])
        THEN VisibleQty(bk, side, p) = VisibleOf(bk[id]) + VisibleQty(bk2, side, p)
        ELSE VisibleQty(bk, side, p) = VisibleQty(bk2, side, p)
    BY OneOrderLess
  <1> QED
    BY <1>1, <1>2, <1>3

\* A level all of whose orders are as they were, and that no order joined, shows
\* and holds what it did.
LEMMA UntouchedLevel ==
    ASSUME NEW bk, NEW bk2, NEW side, NEW p,
           \A i \in DOMAIN bk : bk[i].side = side /\ bk[i].price = p => i \in DOMAIN bk2,
           \A i \in DOMAIN bk2 : /\ i \in DOMAIN bk
                                 /\ \/ Alike(bk[i], bk2[i])
                                    \/ /\ ~(bk[i].side = side /\ bk[i].price = p)
                                       /\ ~(bk2[i].side = side /\ bk2[i].price = p)
    PROVE  /\ VisibleQty(bk2, side, p) = VisibleQty(bk, side, p)
           /\ TotalQty(bk2, side, p) = TotalQty(bk, side, p)
  <1>1. ASSUME NEW i \in DOMAIN bk2, Alike(bk[i], bk2[i])
        PROVE  /\ VisibleOf(bk2[i]) = VisibleOf(bk[i]) /\ Remaining(bk2[i]) = Remaining(bk[i])
               /\ Linked(bk2[i]) <=> Linked(bk[i])
               /\ bk2[i].side = bk[i].side /\ bk2[i].price = bk[i].price
    <2>1. bk2[i].side = bk[i].side /\ bk2[i].price = bk[i].price
      BY <1>1 DEF Alike
    <2> QED
      BY <1>1, <2>1, AlikeShown
  <1>2. LevelOf(bk2, side, p) = LevelOf(bk, side, p)
    BY <1>1 DEF LevelOf
  <1>3. \A i \in LevelOf(bk, side, p) :
          VisibleOf(bk2[i]) = VisibleOf(bk[i]) /\ Remaining(bk2[i]) = Remaining(bk[i])
    BY <1>1 DEF LevelOf
  <1> QED
    BY <1>2, <1>3, SameLevel

\* Matching an order against a book in which it can trade with nobody does nothing.
LEMMA NothingToMatch ==
    ASSUME NEW bk, NEW o, o.qty \in Nat, NEW link, Matchable(bk, o) = {}
    PROVE  Match(bk, o, link).order = o
  <1> DEFINE s0 == [book |-> bk, order |-> o, execs |-> <<>>, link |-> link]
             Round(f) == f = [n \in 0..o.qty |->
                                IF n = 0 THEN s0
                                ELSE IF MatchDone(f[n - 1]) THEN f[n - 1]
                                ELSE MatchWith(f[n - 1], CHOOSE i \in NextMakers(f[n - 1].book, f[n - 1].order) : TRUE)]
             round == CHOOSE f : Round(f)
             still == [n \in 0..o.qty |-> s0]
  <1>1. MatchDone(s0)
    BY DEF MatchDone
  <1> HIDE DEF s0
  <1>2. Round(still)
    <2>1. \A n \in 0..o.qty : n # 0 => n - 1 \in 0..o.qty
      OBVIOUS
    <2> QED
      BY <1>1, <2>1
  <1>3. Round(round)
    <2> HIDE DEF Round, still
    <2> QED
      BY <1>2
  <1>4. Match(bk, o, link) = round[o.qty]
    BY DEF Match, s0
  <1> HIDE DEF round, still
  <1> DEFINE B == {n \in 0..o.qty : round[n] # s0}
  <1>5. B = {}
    <2> SUFFICES ASSUME B # {} PROVE FALSE
      OBVIOUS
    <2>1. PICK n \in B : \A k \in B : n <= k
      <3>1. B \subseteq Nat
        OBVIOUS
      <3> HIDE DEF B
      <3> QED
        BY <3>1, LeastNatural
    <2>2. n \in 0..o.qty /\ round[n] # s0
      OBVIOUS
    <2>3. round[n] = IF n = 0 THEN s0
                     ELSE IF MatchDone(round[n - 1]) THEN round[n - 1]
                     ELSE MatchWith(round[n - 1], CHOOSE i \in NextMakers(round[n - 1].book, round[n - 1].order) : TRUE)
      BY <1>3, <2>2
    <2>4. n # 0
      BY <2>2, <2>3
    <2>5. n - 1 \in 0..o.qty /\ n - 1 \notin B
      <3>1. n - 1 \in 0..o.qty /\ ~ (n <= n - 1)
        BY <2>2, <2>4
      <3> HIDE DEF B
      <3> QED
        BY <2>1, <3>1
    <2>6. round[n - 1] = s0
      BY <2>5
    <2> QED
      BY <1>1, <2>2, <2>3, <2>4, <2>6
  <1>6. round[o.qty] = s0
    BY <1>5
  <1> QED
    BY <1>4, <1>6 DEF s0
=============================================================================
