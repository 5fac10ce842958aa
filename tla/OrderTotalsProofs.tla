------------------------- MODULE OrderTotalsProofs --------------------------
(***************************************************************************)
(* The total of an order is the sum over its items, for every set of       *)
(* products and prices, and whatever changes while the items are fetched.  *)
(*                                                                         *)
(* The sum of the model is a fold over a set.  What is needed of folds     *)
(* comes first: they are defined, and the order of the elements does not   *)
(* matter.  The inductions are over sets of sets, or of numbers, so that   *)
(* they follow from well-founded orderings by first-order steps.           *)
(***************************************************************************)
EXTENDS OrderPlacementProofs

(* Induction over the subsets of a finite set, for a set T of them. *)
LEMMA SubsetInduction ==
  ASSUME NEW S, IsFiniteSet(S), NEW T,
         \A s \in SUBSET S : (\A t \in SUBSET s : t # s => t \in T) => s \in T
  PROVE  SUBSET S \subseteq T
<1> DEFINE Left == (SUBSET S) \ T
           R == StrictSubsetOrdering(S)
<1> SUFFICES ASSUME Left # {} PROVE FALSE
  OBVIOUS
<1>1. IsWellFoundedOn(R, SUBSET S)
  <2>1. IsWellFoundedOn(R, FiniteSubsetsOf(S))
    BY FS_StrictSubsetOrderingWellFounded
  <2>2. FiniteSubsetsOf(S) = SUBSET S
    BY FS_FiniteSubsetsOfFinite
  <2> QED
    BY <2>1, <2>2
<1>2. PICK s \in Left : \A t \in Left : ~(<<t, s>> \in R)
  <2>1. Left \subseteq SUBSET S
    OBVIOUS
  <2> HIDE DEF R, Left
  <2> QED
    BY <1>1, <2>1, WFMin
<1>3. \A t \in SUBSET s : t # s => t \in T
  BY <1>2 DEF StrictSubsetOrdering
<1> QED
  BY <1>3

(* Induction over the natural numbers, for a set T of them. *)
LEMMA NatSetInduction ==
  ASSUME NEW T, 0 \in T, \A n \in Nat : n \in T => n + 1 \in T
  PROVE  Nat \subseteq T
<1> DEFINE Left == Nat \ T
           R == OpToRel(<, Nat)
<1> SUFFICES ASSUME Left # {} PROVE FALSE
  OBVIOUS
<1>1. PICK n \in Left : \A m \in Left : ~(<<m, n>> \in R)
  <2>1. Left \subseteq Nat
    OBVIOUS
  <2>2. IsWellFoundedOn(R, Nat)
    BY NatLessThanWellFounded
  <2> HIDE DEF R, Left
  <2> QED
    BY <2>1, <2>2, WFMin
<1>2. n - 1 \in Nat /\ n - 1 < n /\ n = (n - 1) + 1
  OBVIOUS
<1>3. <<n - 1, n>> \in R
  BY <1>2 DEF OpToRel
<1>4. n - 1 \in T
  BY <1>1, <1>2, <1>3
<1> QED
  BY <1>2, <1>4

-----------------------------------------------------------------------------
(* The element a sum takes next. *)
AnyOf(s) == CHOOSE x \in s : TRUE

(* g[s] is the sum of h over s, for every subset s of S. *)
IsSum(g, h, S) ==
  g = [s \in SUBSET S |-> IF s = {} THEN 0 ELSE h[AnyOf(s)] + g[s \ {AnyOf(s)}]]

(* It is there. *)
LEMMA AnyOfIsElement == ASSUME NEW s, s # {} PROVE AnyOf(s) \in s
BY DEF AnyOf

(* A finite set has its sums. *)
LEMMA SumExists ==
  ASSUME NEW S, IsFiniteSet(S), NEW h
  PROVE  \E g : IsSum(g, h, S)
<1> DEFINE Rest(g, s) == IF s = {} THEN 0 ELSE h[AnyOf(s)] + g[s \ {AnyOf(s)}]
           UpTo(n, g) == /\ g = [s \in SUBSET S |-> g[s]]
                         /\ \A s \in SUBSET S : Cardinality(s) <= n => g[s] = Rest(g, s)
           T == {n \in Nat : \E g : UpTo(n, g)}
<1>0. \A s \in SUBSET S :
         /\ IsFiniteSet(s) /\ Cardinality(s) \in Nat /\ Cardinality(s) <= Cardinality(S)
         /\ Cardinality(s) = 0 => s = {}
         /\ s # {} => /\ s \ {AnyOf(s)} \in SUBSET S
                      /\ Cardinality(s \ {AnyOf(s)}) = Cardinality(s) - 1
  BY FS_Subset, FS_CardinalityType, FS_EmptySet, FS_RemoveElement, AnyOfIsElement
<1>1. 0 \in T
  <2> DEFINE zero == [s \in SUBSET S |-> 0]
  <2>1. \A s \in SUBSET S : Cardinality(s) <= 0 => s = {}
    <3> SUFFICES ASSUME NEW s \in SUBSET S, Cardinality(s) <= 0 PROVE s = {}
      OBVIOUS
    <3>1. Cardinality(s) \in Nat
      BY <1>0
    <3>2. Cardinality(s) = 0
      BY <3>1
    <3> QED
      BY <1>0, <3>2
  <2>2. \A s \in SUBSET S : Cardinality(s) <= 0 => zero[s] = Rest(zero, s)
    BY <2>1
  <2>3. zero = [s \in SUBSET S |-> zero[s]]
    OBVIOUS
  <2>4. UpTo(0, zero)
    BY <2>2, <2>3
  <2> HIDE DEF UpTo, zero
  <2> QED
    BY <2>4
<1>2. ASSUME NEW n \in Nat, n \in T PROVE n + 1 \in T
  <2>1. PICK g : UpTo(n, g)
    BY <1>2
  <2> DEFINE k == [s \in SUBSET S |-> IF Cardinality(s) = n + 1 THEN Rest(g, s) ELSE g[s]]
  <2>2. ASSUME NEW s \in SUBSET S, Cardinality(s) <= n + 1 PROVE k[s] = Rest(k, s)
    <3>1. Cardinality(s) \in Nat
      BY <1>0
    <3>2. s # {} => k[s \ {AnyOf(s)}] = g[s \ {AnyOf(s)}]
      <4> SUFFICES ASSUME s # {} PROVE k[s \ {AnyOf(s)}] = g[s \ {AnyOf(s)}]
        OBVIOUS
      <4>1. s \ {AnyOf(s)} \in SUBSET S /\ Cardinality(s \ {AnyOf(s)}) = Cardinality(s) - 1
        BY <1>0
      <4>2. Cardinality(s \ {AnyOf(s)}) # n + 1
        BY <2>2, <3>1, <4>1
      <4> QED
        BY <4>1, <4>2
    <3>3. Rest(k, s) = Rest(g, s)
      BY <3>2
    <3>4. k[s] = Rest(g, s)
      <4>1. CASE Cardinality(s) = n + 1
        BY <4>1
      <4>2. CASE Cardinality(s) # n + 1
        <5>1. Cardinality(s) <= n
          BY <2>2, <3>1, <4>2
        <5> QED
          BY <2>1, <4>2, <5>1
      <4> QED
        BY <4>1, <4>2
    <3> QED
      BY <3>3, <3>4
  <2>3. UpTo(n + 1, k)
    BY <2>2
  <2> HIDE DEF UpTo, k
  <2> QED
    BY <2>3
<1>3. Cardinality(S) \in Nat /\ Nat \subseteq T
  <2> HIDE DEF T
  <2> QED
    BY <1>1, <1>2, FS_CardinalityType, NatSetInduction
<1>4. PICK g : UpTo(Cardinality(S), g)
  BY <1>3
<1>5. \A s \in SUBSET S : g[s] = Rest(g, s)
  BY <1>0, <1>4
<1>6. IsSum(g, h, S)
  BY <1>4, <1>5 DEF IsSum
<1> QED
  BY <1>6

(* A sum is taken element by element. *)
LEMMA SumStep ==
  ASSUME NEW S, NEW h, NEW g, IsSum(g, h, S), NEW s \in SUBSET S
  PROVE  /\ s = {} => g[s] = 0
         /\ s # {} => /\ AnyOf(s) \in s
                      /\ g[s] = h[AnyOf(s)] + g[s \ {AnyOf(s)}]
BY AnyOfIsElement DEF IsSum

(* A sum of natural numbers is one. *)
LEMMA SumIsNatural ==
  ASSUME NEW S, IsFiniteSet(S), NEW h \in [S -> Nat], NEW g, IsSum(g, h, S)
  PROVE  \A s \in SUBSET S : g[s] \in Nat
<1> DEFINE T == {s \in SUBSET S : g[s] \in Nat}
<1>1. ASSUME NEW s \in SUBSET S, \A t \in SUBSET s : t # s => t \in T PROVE s \in T
  <2>1. CASE s = {}
    BY <2>1, SumStep
  <2>2. CASE s # {}
    <3>1. AnyOf(s) \in s /\ g[s] = h[AnyOf(s)] + g[s \ {AnyOf(s)}]
      BY <2>2, SumStep
    <3>2. h[AnyOf(s)] \in Nat /\ s \ {AnyOf(s)} \in T
      BY <1>1, <3>1
    <3> QED
      BY <3>1, <3>2
  <2> QED
    BY <2>1, <2>2
<1>2. SUBSET S \subseteq T
  <2> HIDE DEF T
  <2> QED
    BY <1>1, SubsetInduction
<1> QED
  BY <1>2

(* The order in which the elements are taken does not matter. *)
LEMMA SumTakesAny ==
  ASSUME NEW S, IsFiniteSet(S), NEW h \in [S -> Nat], NEW g, IsSum(g, h, S)
  PROVE  \A s \in SUBSET S : \A x \in s : g[s] = h[x] + g[s \ {x}]
<1> DEFINE T == {s \in SUBSET S : \A x \in s : g[s] = h[x] + g[s \ {x}]}
<1>1. ASSUME NEW s \in SUBSET S, \A t \in SUBSET s : t # s => t \in T PROVE s \in T
  <2> SUFFICES ASSUME NEW x \in s PROVE g[s] = h[x] + g[s \ {x}]
    OBVIOUS
  <2> DEFINE c == AnyOf(s)
  <2>1. c \in s /\ g[s] = h[c] + g[s \ {c}]
    BY SumStep
  <2>2. CASE x # c
    <3>1. s \ {c} \in T /\ s \ {x} \in T /\ x \in s \ {c} /\ c \in s \ {x}
      BY <1>1, <2>1, <2>2
    <3>2. g[s \ {c}] = h[x] + g[(s \ {c}) \ {x}] /\ g[s \ {x}] = h[c] + g[(s \ {x}) \ {c}]
      BY <3>1
    <3>3. (s \ {c}) \ {x} = (s \ {x}) \ {c}
      OBVIOUS
    <3>4. h[x] \in Nat /\ h[c] \in Nat /\ g[(s \ {c}) \ {x}] \in Nat
      BY <2>1, SumIsNatural
    <3> HIDE DEF c
    <3> QED
      BY <2>1, <3>2, <3>3, <3>4
  <2> QED
    BY <2>1, <2>2
<1>2. SUBSET S \subseteq T
  <2> HIDE DEF T
  <2> QED
    BY <1>1, SubsetInduction
<1> QED
  BY <1>2

(* It depends on what is summed up and on nothing else. *)
LEMMA SumsAgree ==
  ASSUME NEW S, IsFiniteSet(S), NEW h \in [S -> Nat], NEW k \in [S -> Nat],
         NEW g, IsSum(g, h, S), NEW f, IsSum(f, k, S)
  PROVE  \A s \in SUBSET S : (\A x \in s : h[x] = k[x]) => g[s] = f[s]
<1> DEFINE T == {s \in SUBSET S : (\A x \in s : h[x] = k[x]) => g[s] = f[s]}
<1>1. ASSUME NEW s \in SUBSET S, \A t \in SUBSET s : t # s => t \in T PROVE s \in T
  <2> SUFFICES ASSUME \A x \in s : h[x] = k[x] PROVE g[s] = f[s]
    OBVIOUS
  <2>1. CASE s = {}
    BY <2>1, SumStep
  <2>2. CASE s # {}
    <3>1. AnyOf(s) \in s /\ g[s] = h[AnyOf(s)] + g[s \ {AnyOf(s)}]
      BY <2>2, SumStep
    <3>2. f[s] = k[AnyOf(s)] + f[s \ {AnyOf(s)}]
      BY <2>2, SumStep
    <3>3. s \ {AnyOf(s)} \in T
      BY <1>1, <3>1
    <3> QED
      BY <3>1, <3>2, <3>3
  <2> QED
    BY <2>1, <2>2
<1>2. SUBSET S \subseteq T
  <2> HIDE DEF T
  <2> QED
    BY <1>1, SubsetInduction
<1> QED
  BY <1>2

(* Nothing adds up to nothing. *)
LEMMA SumOfZeros ==
  ASSUME NEW S, IsFiniteSet(S), NEW h \in [S -> Nat], \A x \in S : h[x] = 0,
         NEW g, IsSum(g, h, S)
  PROVE  g[S] = 0
<1> DEFINE T == {s \in SUBSET S : g[s] = 0}
<1>1. ASSUME NEW s \in SUBSET S, \A t \in SUBSET s : t # s => t \in T PROVE s \in T
  <2>1. CASE s = {}
    BY <2>1, SumStep
  <2>2. CASE s # {}
    <3>1. AnyOf(s) \in s /\ g[s] = h[AnyOf(s)] + g[s \ {AnyOf(s)}]
      BY <2>2, SumStep
    <3>2. h[AnyOf(s)] = 0 /\ s \ {AnyOf(s)} \in T
      BY <1>1, <3>1
    <3> QED
      BY <3>1, <3>2
  <2> QED
    BY <2>1, <2>2
<1>2. SUBSET S \subseteq T
  <2> HIDE DEF T
  <2> QED
    BY <1>1, SubsetInduction
<1> QED
  BY <1>2

(* One more summand adds itself to the sum. *)
LEMMA SumWithOneChange ==
  ASSUME NEW S, IsFiniteSet(S), NEW h \in [S -> Nat], NEW k \in [S -> Nat], NEW x \in S,
         h[x] = 0, \A y \in S \ {x} : h[y] = k[y],
         NEW g, IsSum(g, h, S), NEW f, IsSum(f, k, S)
  PROVE  f[S] = g[S] + k[x]
<1>1. g[S] = h[x] + g[S \ {x}] /\ f[S] = k[x] + f[S \ {x}]
  BY SumTakesAny
<1>2. g[S \ {x}] = f[S \ {x}]
  <2>1. S \ {x} \in SUBSET S
    OBVIOUS
  <2> QED
    BY <2>1, SumsAgree
<1>3. g[S \ {x}] \in Nat /\ k[x] \in Nat
  BY SumIsNatural
<1> QED
  BY <1>1, <1>2, <1>3

-----------------------------------------------------------------------------
(* What the items cost: units u of the products at prices q. *)
SumOfItems(u, q) == MapThenSumSet(LAMBDA p : u[p] * q[p], Products)

CostOf(u, q) == [p \in Products |-> u[p] * q[p]]

(* It is a sum over the products, in whatever order they are taken. *)
LEMMA SumOfItemsIsSum ==
  ASSUME NEW u \in [Products -> Nat], NEW q \in [Products -> Nat]
  PROVE  \E g : IsSum(g, CostOf(u, q), Products) /\ SumOfItems(u, q) = g[Products]
<1> DEFINE Fold(g) ==
             g = [s \in SUBSET Products |->
                    IF s = {} THEN 0
                    ELSE u[CHOOSE x \in s : TRUE] * q[CHOOSE x \in s : TRUE]
                           + g[s \ {CHOOSE x \in s : TRUE}]]
<1>1. SumOfItems(u, q) = (CHOOSE g : Fold(g))[Products]
  BY DEF SumOfItems, MapThenSumSet, MapThenFoldSet
<1>2. \A s \in SUBSET Products :
        s # {} => CostOf(u, q)[AnyOf(s)] = u[AnyOf(s)] * q[AnyOf(s)]
  BY AnyOfIsElement DEF CostOf
<1>3. \A g : IsSum(g, CostOf(u, q), Products) <=> Fold(g)
  <2> SUFFICES ASSUME NEW g PROVE IsSum(g, CostOf(u, q), Products) <=> Fold(g)
    OBVIOUS
  <2>1. [s \in SUBSET Products |->
           IF s = {} THEN 0 ELSE CostOf(u, q)[AnyOf(s)] + g[s \ {AnyOf(s)}]]
          = [s \in SUBSET Products |->
               IF s = {} THEN 0 ELSE u[AnyOf(s)] * q[AnyOf(s)] + g[s \ {AnyOf(s)}]]
    BY <1>2
  <2> QED
    BY <2>1, Zenon DEF IsSum, AnyOf
<1>4. \E g : IsSum(g, CostOf(u, q), Products)
  BY SumExists, ProductsFinite
<1> HIDE DEF Fold
<1>5. Fold(CHOOSE g : Fold(g))
  BY <1>3, <1>4
<1> QED
  BY <1>1, <1>3, <1>5

(* Each item costs a natural number. *)
LEMMA CostsAreNatural ==
  ASSUME NEW u \in [Products -> Nat], NEW q \in [Products -> Nat]
  PROVE  CostOf(u, q) \in [Products -> Nat]
<1>1. \A a, b \in Nat : a * b \in Nat
  OBVIOUS
<1> QED
  BY <1>1 DEF CostOf

(* What is not priced costs nothing. *)
LEMMA NothingQuotedCostsNothing ==
  ASSUME NEW u \in [Products -> Nat], NEW q \in [Products -> Nat], \A p \in Products : q[p] = 0
  PROVE  SumOfItems(u, q) = 0
<1>1. PICK g : IsSum(g, CostOf(u, q), Products) /\ SumOfItems(u, q) = g[Products]
  BY SumOfItemsIsSum
<1>2. \A p \in Products : CostOf(u, q)[p] = 0
  BY DEF CostOf
<1> QED
  BY <1>1, <1>2, CostsAreNatural, SumOfZeros, ProductsFinite

(* To price one more product adds what it costs. *)
LEMMA OneMoreQuote ==
  ASSUME NEW u \in [Products -> Nat], NEW q \in [Products -> Nat], NEW p \in Products,
         q[p] = 0, NEW x \in Nat
  PROVE  SumOfItems(u, [q EXCEPT ![p] = x]) = SumOfItems(u, q) + x * u[p]
<1> DEFINE k == [q EXCEPT ![p] = x]
<1>1. k \in [Products -> Nat] /\ k[p] = x /\ \A y \in Products \ {p} : k[y] = q[y]
  OBVIOUS
<1> HIDE DEF k
<1>2. PICK g : IsSum(g, CostOf(u, q), Products) /\ SumOfItems(u, q) = g[Products]
  BY SumOfItemsIsSum
<1>3. PICK f : IsSum(f, CostOf(u, k), Products) /\ SumOfItems(u, k) = f[Products]
  BY <1>1, SumOfItemsIsSum
<1>4. CostOf(u, q) \in [Products -> Nat] /\ CostOf(u, k) \in [Products -> Nat]
  BY <1>1, CostsAreNatural
<1>5. CostOf(u, q)[p] = 0 /\ CostOf(u, k)[p] = u[p] * x
  BY <1>1 DEF CostOf
<1>6. \A y \in Products \ {p} : CostOf(u, q)[y] = CostOf(u, k)[y]
  BY <1>1 DEF CostOf
<1>7. f[Products] = g[Products] + CostOf(u, k)[p]
  BY <1>2, <1>3, <1>4, <1>5, <1>6, SumWithOneChange, ProductsFinite
<1>8. u[p] * x = x * u[p]
  OBVIOUS
<1> QED
  BY <1>2, <1>3, <1>5, <1>7, <1>8 DEF k

-----------------------------------------------------------------------------
PastFetch == {"gate", "hash", "price", "decide", "save", "clearing", "cleared"}

(* The total of a request is at any time the sum over what it has priced. *)
TotalIsSum == \A r \in Requests : total[r] = SumOfItems(units[r], quote[r])

(* Before it has read the cart it has priced nothing, *)
NothingQuotedYet ==
  \A r \in Requests : pc[r] \in {"new", "waiting", "getCart"} => \A p \in Products : quote[r][p] = 0

(* while it fetches just what it has fetched, *)
FetchedIsQuoted ==
  \A r \in Requests : pc[r] = "fetch" =>
    \A p \in Products : IF p \in todo[r] THEN quote[r][p] = 0
                                         ELSE units[r][p] > 0 => quote[r][p] > 0

(* and afterwards all that it orders. *)
OrderedIsQuoted ==
  \A r \in Requests : pc[r] \in PastFetch =>
    \A p \in Products : units[r][p] > 0 => quote[r][p] > 0

(* So is the total of a stored order, all of whose items have a price. *)
StoredIsSum ==
  \A o \in orders : /\ o.total = SumOfItems(o.units, o.price)
                    /\ \A p \in Products : o.units[p] > 0 => o.price[p] > 0

TotalsInv ==
  /\ TypeOK
  /\ TotalIsSum
  /\ NothingQuotedYet
  /\ FetchedIsQuoted
  /\ OrderedIsQuoted
  /\ StoredIsSum

(* That is what the property says of the stored orders. *)
LEMMA StoredIsSumOfItems == StoredIsSum => StoredTotalIsSumOfItems
BY DEF StoredIsSum, StoredTotalIsSumOfItems, SumOfItems

(* Numbers of a typed state. *)
LEMMA ItemsTyped ==
  ASSUME TypeOK, NEW r \in Requests
  PROVE  /\ units[r] \in [Products -> Nat] /\ quote[r] \in [Products -> Nat]
         /\ total[r] \in Nat /\ todo[r] \in SUBSET Products
BY DEF TypeOK

(* Initially nothing is priced. *)
LEMMA InitTotalsInv == Init => TotalsInv
<1> SUFFICES ASSUME Init PROVE TotalsInv
  OBVIOUS
<1>1. TypeOK
  BY InitTypeOK
<1>2. \A r \in Requests : /\ pc[r] = "new" /\ total[r] = 0
                          /\ \A p \in Products : quote[r][p] = 0
  BY DEF Init, NoUnits
<1>3. TotalIsSum
  BY <1>1, <1>2, ItemsTyped, NothingQuotedCostsNothing DEF TotalIsSum
<1>4. NothingQuotedYet /\ FetchedIsQuoted /\ OrderedIsQuoted
  BY <1>2 DEF NothingQuotedYet, FetchedIsQuoted, OrderedIsQuoted, PastFetch
<1>5. StoredIsSum
  BY DEF Init, StoredIsSum
<1> QED
  BY <1>1, <1>3, <1>4, <1>5 DEF TotalsInv

(* A step that leaves the items alone, starts no fetch and ends none. *)
LEMMA TotalsQuietStep ==
  ASSUME TotalsInv, TypeOK', UNCHANGED <<units, quote, total, orders>>,
         \A r \in Requests :
            \/ pc'[r] = pc[r] /\ (pc[r] = "fetch" => todo'[r] = todo[r])
            \/ pc[r] \in {"new", "waiting"} /\ pc'[r] \in {"waiting", "getCart"}
            \/ pc[r] \in PastFetch /\ pc'[r] \in PastFetch
            \/ pc'[r] \in {"refused", "failed"}
  PROVE  TotalsInv'
<1>1. TotalIsSum'
  BY DEF TotalsInv, TotalIsSum
<1>2. NothingQuotedYet'
  BY DEF TotalsInv, NothingQuotedYet, PastFetch
<1>3. FetchedIsQuoted'
  BY DEF TotalsInv, FetchedIsQuoted, PastFetch
<1>4. OrderedIsQuoted'
  BY DEF TotalsInv, OrderedIsQuoted, PastFetch
<1>5. StoredIsSum'
  BY DEF TotalsInv, StoredIsSum
<1> QED
  BY <1>1, <1>2, <1>3, <1>4, <1>5 DEF TotalsInv

(* One request moves so. *)
LEMMA TotalsQuietMove ==
  ASSUME TotalsInv, TypeOK', UNCHANGED <<units, quote, total, orders, todo>>,
         NEW r \in Requests, NEW from, NEW to, Move(r, from, to),
         \/ from \in {"new", "waiting"} /\ to \in {"waiting", "getCart"}
         \/ from \in PastFetch /\ to \in PastFetch
         \/ to \in {"refused", "failed"}
  PROVE  TotalsInv'
<1>1. pc[r] = from /\ \A s \in Requests : pc'[s] = IF s = r THEN to ELSE pc[s]
  BY DEF Move, TotalsInv, TypeOK
<1> QED
  BY <1>1, TotalsQuietStep

(* The cart is read: nothing has a price yet. *)
LEMMA GetCartKeepsTotals ==
  ASSUME TotalsInv, TypeOK', NEW r \in Requests, GetCart(r)
  PROVE  TotalsInv'
<1>1. /\ pc[r] = "getCart" /\ \A s \in Requests : pc'[s] = IF s = r THEN "fetch" ELSE pc[s]
      /\ UNCHANGED <<quote, total, orders>>
      /\ units'[r] = cart[UserOf[r]] /\ todo'[r] = InCart(UserOf[r])
      /\ \A s \in Requests : s # r => units'[s] = units[s] /\ todo'[s] = todo[s]
  BY DEF GetCart, Move, services, TotalsInv, TypeOK
<1>2. \A p \in Products : quote[r][p] = 0
  BY <1>1 DEF TotalsInv, NothingQuotedYet
<1>3. total[r] = 0 /\ SumOfItems(units'[r], quote'[r]) = 0
  <2>1. units[r] \in [Products -> Nat] /\ quote[r] \in [Products -> Nat]
    BY ItemsTyped DEF TotalsInv
  <2>2. units'[r] \in [Products -> Nat] /\ quote'[r] = quote[r]
    BY <1>1 DEF TypeOK
  <2>3. SumOfItems(units[r], quote[r]) = 0
    BY <1>2, <2>1, NothingQuotedCostsNothing
  <2>4. SumOfItems(units'[r], quote[r]) = 0
    BY <1>2, <2>1, <2>2, NothingQuotedCostsNothing
  <2> QED
    BY <2>2, <2>3, <2>4 DEF TotalsInv, TotalIsSum
<1>4. TotalIsSum'
  <2> SUFFICES ASSUME NEW s \in Requests PROVE total'[s] = SumOfItems(units'[s], quote'[s])
    BY DEF TotalIsSum
  <2>1. CASE s = r
    BY <1>1, <1>3, <2>1
  <2>2. CASE s # r
    BY <1>1, <2>2 DEF TotalsInv, TotalIsSum
  <2> QED
    BY <2>1, <2>2
<1>5. NothingQuotedYet'
  BY <1>1 DEF TotalsInv, NothingQuotedYet
<1>6. FetchedIsQuoted'
  <2>1. \A p \in Products : p \in todo'[r] \/ ~(units'[r][p] > 0)
    BY <1>1 DEF InCart
  <2> QED
    BY <1>1, <1>2, <2>1 DEF TotalsInv, FetchedIsQuoted
<1>7. OrderedIsQuoted'
  BY <1>1 DEF TotalsInv, OrderedIsQuoted, PastFetch
<1>8. StoredIsSum'
  BY <1>1 DEF TotalsInv, StoredIsSum
<1> QED
  BY <1>4, <1>5, <1>6, <1>7, <1>8 DEF TotalsInv

(* One product is priced, and what the units of it cost is added, whatever the
   price was when another one was fetched. *)
LEMMA FetchKeepsTotals ==
  ASSUME TotalsInv, TypeOK', NEW r \in Requests, NEW p \in Products, FetchProduct(r, p)
  PROVE  TotalsInv'
<1>0. /\ price[p] \in Nat /\ price[p] > 0 /\ units[r][p] \in Nat
      /\ units[r] \in [Products -> Nat] /\ quote[r] \in [Products -> Nat]
  <2>1. price[p] \in Prices
    BY DEF TotalsInv, TypeOK
  <2>2. \A x \in Prices : x \in Nat /\ x > 0
    BY PricesPositive
  <2>3. units[r] \in [Products -> Nat] /\ quote[r] \in [Products -> Nat]
    BY ItemsTyped DEF TotalsInv
  <2> QED
    BY <2>1, <2>2, <2>3
<1>1. /\ pc[r] = "fetch" /\ p \in todo[r]
      /\ UNCHANGED <<units, orders>>
      /\ quote'[r] = [quote[r] EXCEPT ![p] = price[p]]
      /\ total'[r] = total[r] + price[p] * units[r][p]
      /\ \A s \in Requests : s # r => /\ quote'[s] = quote[s] /\ total'[s] = total[s]
                                      /\ todo'[s] = todo[s] /\ pc'[s] = pc[s]
  BY DEF FetchProduct, ForItem, Move, services, TotalsInv, TypeOK
<1>2. quote[r][p] = 0
  BY <1>1 DEF TotalsInv, FetchedIsQuoted
<1>3. TotalIsSum'
  <2> SUFFICES ASSUME NEW s \in Requests PROVE total'[s] = SumOfItems(units'[s], quote'[s])
    BY DEF TotalIsSum
  <2>1. CASE s = r
    <3>1. SumOfItems(units[r], [quote[r] EXCEPT ![p] = price[p]])
            = SumOfItems(units[r], quote[r]) + price[p] * units[r][p]
      BY <1>0, <1>2, OneMoreQuote
    <3>2. total[r] = SumOfItems(units[r], quote[r])
      BY DEF TotalsInv, TotalIsSum
    <3> QED
      BY <1>1, <2>1, <3>1, <3>2
  <2>2. CASE s # r
    BY <1>1, <2>2 DEF TotalsInv, TotalIsSum
  <2> QED
    BY <2>1, <2>2
<1>4. \/ pc'[r] = "gate" /\ todo[r] = {p}
      \/ pc'[r] = "fetch" /\ todo'[r] = todo[r] \ {p}
  BY <1>1 DEF FetchProduct, ForItem, Move, TotalsInv, TypeOK
<1>5. NothingQuotedYet'
  BY <1>1, <1>4 DEF TotalsInv, NothingQuotedYet
<1>6. \A q \in Products : quote'[r][q] = IF q = p THEN price[p] ELSE quote[r][q]
  BY <1>0, <1>1
<1>7. \A q \in Products : IF q \in todo[r] THEN quote[r][q] = 0
                                           ELSE units[r][q] > 0 => quote[r][q] > 0
  BY <1>1 DEF TotalsInv, FetchedIsQuoted
<1>8. FetchedIsQuoted'
  BY <1>0, <1>1, <1>4, <1>6, <1>7 DEF TotalsInv, FetchedIsQuoted
<1>9. OrderedIsQuoted'
  BY <1>0, <1>1, <1>4, <1>6, <1>7 DEF TotalsInv, OrderedIsQuoted, PastFetch
<1>10. StoredIsSum'
  BY <1>1 DEF TotalsInv, StoredIsSum
<1> QED
  BY <1>3, <1>5, <1>8, <1>9, <1>10 DEF TotalsInv

(* The order is stored with the items and the total of its request. *)
LEMMA CommitKeepsTotals ==
  ASSUME TotalsInv, TypeOK', NEW r \in Requests, Commit(r)
  PROVE  TotalsInv'
<1> DEFINE row == [id |-> r, user |-> UserOf[r], units |-> units[r],
                   price |-> quote[r], total |-> total[r]]
<1>1. /\ pc[r] = "cleared" /\ \A s \in Requests : pc'[s] = IF s = r THEN "ok" ELSE pc[s]
      /\ UNCHANGED <<units, quote, total, todo>>
      /\ orders' = orders \cup {row}
  BY DEF Commit, Move, locals, TotalsInv, TypeOK
<1>2. row.units = units[r] /\ row.price = quote[r] /\ row.total = total[r]
  OBVIOUS
<1> HIDE DEF row
<1>3. StoredIsSum'
  <2> SUFFICES ASSUME NEW o \in orders'
               PROVE  /\ o.total = SumOfItems(o.units, o.price)
                      /\ \A p \in Products : o.units[p] > 0 => o.price[p] > 0
    BY DEF StoredIsSum
  <2>1. CASE o \in orders
    BY <2>1 DEF TotalsInv, StoredIsSum
  <2>2. CASE o = row
    BY <1>1, <1>2, <2>2 DEF TotalsInv, TotalIsSum, OrderedIsQuoted, PastFetch
  <2> QED
    BY <1>1, <2>1, <2>2
<1>4. TotalIsSum' /\ NothingQuotedYet' /\ FetchedIsQuoted' /\ OrderedIsQuoted'
  BY <1>1 DEF TotalsInv, TotalIsSum, NothingQuotedYet, FetchedIsQuoted, OrderedIsQuoted, PastFetch
<1> QED
  BY <1>3, <1>4 DEF TotalsInv

(* Every step keeps the totals right. *)
LEMMA NextTotalsInv == TotalsInv /\ [Next]_vars => TotalsInv'
<1> SUFFICES ASSUME TotalsInv, [Next]_vars PROVE TotalsInv'
  OBVIOUS
<1>0. TypeOK'
  BY NextTypeOK DEF TotalsInv
<1>1. ASSUME UNCHANGED <<units, quote, total, orders, pc, todo>> PROVE TotalsInv'
  BY <1>0, <1>1, TotalsQuietStep
<1>2. ASSUME \/ \E u \in Users, p \in Products, n \in 1..MaxUnits : AddItem(u, p, n)
             \/ \E u \in Users, p \in Products, n \in 0..MaxUnits : SetQuantity(u, p, n)
             \/ \E u \in Users : EmptyOwnCart(u)
             \/ \E p \in Products, x \in Prices : SetPrice(p, x)
             \/ \E k \in approved : ExpireApproval(k)
             \/ \E r \in Requests : LoseClear(r)
             \/ UNCHANGED vars
      PROVE  TotalsInv'
  <2>1. UNCHANGED <<units, quote, total, orders, pc, todo>>
    BY <1>2 DEF AddItem, SetQuantity, EmptyOwnCart, SetPrice, ExpireApproval, LoseClear,
                locals, vars
  <2> QED
    BY <1>1, <2>1
<1>3. ASSUME NEW R \in SUBSET Requests, RollBack(R), UNCHANGED <<orders, locals>>
      PROVE  TotalsInv'
  <2>1. \A s \in Requests : pc'[s] \in {pc[s], "failed"}
    BY <1>3 DEF RollBack
  <2> QED
    BY <1>0, <1>3, <2>1, TotalsQuietStep DEF locals
<1>4. CASE Crash
  BY <1>3, <1>4 DEF Crash
<1>5. ASSUME NEW r \in Requests, Fail(r) PROVE TotalsInv'
  BY <1>3, <1>5 DEF Fail, services
<1>6. ASSUME NEW r \in Requests,
             \/ Submit(r) \/ RejectSignature(r) \/ Begin(r) \/ PoolTimeout(r)
             \/ EmptyCart(r) \/ GateCacheHit(r) \/ GateCacheMiss(r)
             \/ Approve(r) \/ Refuse(r) \/ SaveAndSendClear(r)
      PROVE  TotalsInv'
  <2>1. UNCHANGED <<units, quote, total, orders, todo>>
    BY <1>6 DEF Submit, RejectSignature, Begin, PoolTimeout, EmptyCart, GateCacheHit,
                GateCacheMiss, Approve, Refuse, SaveAndSendClear, services, locals
  <2>2. \/ Move(r, "new", "waiting") \/ Move(r, "new", "refused")
        \/ Move(r, "waiting", "getCart") \/ Move(r, "waiting", "failed")
        \/ Move(r, "getCart", "refused") \/ Move(r, "gate", "save") \/ Move(r, "gate", "hash")
        \/ Move(r, "decide", "save") \/ Move(r, "decide", "refused")
        \/ Move(r, "save", "clearing")
    BY <1>6 DEF Submit, RejectSignature, Begin, PoolTimeout, EmptyCart, GateCacheHit,
                GateCacheMiss, Approve, Refuse, SaveAndSendClear
  <2> QED
    BY <1>0, <2>1, <2>2, TotalsQuietMove DEF PastFetch
<1>7. ASSUME NEW r \in Requests, NEW p \in Products, NEW ok \in BOOLEAN,
             CheckHash(r, p, ok) \/ CheckPrice(r, p, ok)
      PROVE  TotalsInv'
  <2>1. UNCHANGED <<units, quote, total, orders>>
    BY <1>7 DEF CheckHash, CheckPrice, services
  <2>2. /\ \A s \in Requests : s # r => pc'[s] = pc[s] /\ todo'[s] = todo[s]
        /\ pc[r] \in PastFetch /\ pc'[r] \in PastFetch
    BY <1>7 DEF CheckHash, CheckPrice, ForItem, Move, PastFetch, TotalsInv, TypeOK
  <2> QED
    BY <1>0, <2>1, <2>2, TotalsQuietStep
<1>8. ASSUME NEW r \in Requests, ExecuteClear(r) PROVE TotalsInv'
  <2>1. /\ \A s \in Requests : pc'[s] = pc[s] \/ (pc[s] = "clearing" /\ pc'[s] = "cleared")
        /\ UNCHANGED <<units, quote, total, orders, todo>>
    BY <1>8 DEF ExecuteClear, locals, TotalsInv, TypeOK
  <2> QED
    BY <1>0, <2>1, TotalsQuietStep DEF PastFetch
<1>9. ASSUME NEW r \in Requests, GetCart(r) \/ Commit(r) PROVE TotalsInv'
  BY <1>0, <1>9, GetCartKeepsTotals, CommitKeepsTotals
<1>10. ASSUME NEW r \in Requests, NEW p \in Products, FetchProduct(r, p) PROVE TotalsInv'
  BY <1>0, <1>10, FetchKeepsTotals
<1> QED
  BY <1>2, <1>4, <1>5, <1>6, <1>7, <1>8, <1>9, <1>10, NextCases

(* Whatever prices change while the items are fetched one by one, and whatever
   fails, the total of a stored order is the sum over its stored items, and every
   ordered item was priced. *)
THEOREM TotalsAddUp == Spec => []StoredTotalIsSumOfItems
<1>1. TotalsInv => StoredTotalIsSumOfItems
  BY StoredIsSumOfItems DEF TotalsInv
<1> QED
  BY <1>1, InitTotalsInv, NextTotalsInv, PTL DEF Spec
=============================================================================
