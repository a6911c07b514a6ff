------------------------- MODULE ConservationProofs -------------------------
(***************************************************************************)
(* Money is conserved, for any finite number of wallets and requests.      *)
(*                                                                         *)
(* The property adds up balances, so the first half of the module is about *)
(* sums over finite sets: that the fold they are defined by exists, and    *)
(* does not depend on the order it takes the elements in.                  *)
(***************************************************************************)
EXTENDS WalletLedgerProofs, WellFoundedInduction

Sum(f, S) == SumFunctionOnSet(f, S)

\* Induction over the subsets of a finite set: a nonempty family of them has a
\* member none of whose proper subsets is in the family.
LEMMA MinimalSet ==
    ASSUME NEW S, IsFiniteSet(S), NEW F \in SUBSET SUBSET S, F # {}
    PROVE  \E m \in F : \A k \in F : k \subseteq m => k = m
<1>1. IsWellFoundedOn(StrictSubsetOrdering(S), SUBSET S)
  BY FS_StrictSubsetOrderingWellFounded, FS_FiniteSubsetsOfFinite
<1>2. PICK m \in F : \A k \in F : <<k, m>> \notin StrictSubsetOrdering(S)
  BY <1>1, WFMin
<1>3. ASSUME NEW k \in F, k \subseteq m
      PROVE  k = m
  BY <1>2, <1>3 DEF StrictSubsetOrdering
<1> QED BY <1>3

\* The element the fold takes from s next, and the fold as a function on the
\* subsets of S.
First(s) == CHOOSE e \in s : TRUE
Added(g, f, s) == IF s = {} THEN 0 ELSE f[First(s)] + g[s \ {First(s)}]
IsFold(g, f, S) == g = [s \in SUBSET S |-> Added(g, f, s)]
Fold(f, S) == CHOOSE g : IsFold(g, f, S)

\* The sum of the library is its fold with addition.
LEMMA SumIsFold ==
    ASSUME NEW f, NEW S
    PROVE  Sum(f, S) = Fold(f, S)[S]
BY DEF Sum, SumFunctionOnSet, FoldFunctionOnSet, MapThenFoldSet, Fold, IsFold, Added, First

LEMMA FirstOf ==
    ASSUME NEW s, s # {}
    PROVE  First(s) \in s
BY DEF First

LEMMA FoldsAgree ==
    ASSUME NEW f, NEW S, NEW T \in SUBSET S, IsFiniteSet(S), NEW g, NEW h,
           IsFold(g, f, S), IsFold(h, f, T), NEW s \in SUBSET T
    PROVE  g[s] = h[s]
<1> DEFINE F == {t \in SUBSET T : g[t] # h[t]}
<1>1. SUFFICES ASSUME F # {} PROVE FALSE
  OBVIOUS
<1>2. PICK m \in F : \A k \in F : k \subseteq m => k = m
  <2>1. IsFiniteSet(T)
    BY FS_Subset
  <2>2. F \in SUBSET SUBSET T
    OBVIOUS
  <2> HIDE DEF F
  <2> QED BY <1>1, <2>1, <2>2, MinimalSet
<1>3. g[m] = Added(g, f, m) /\ h[m] = Added(h, f, m)
  BY DEF IsFold
<1>4. m # {} => g[m \ {First(m)}] = h[m \ {First(m)}]
  <2>1. m # {} => First(m) \in m
    BY FirstOf
  <2> QED BY <1>2, <2>1
<1> QED BY <1>3, <1>4 DEF Added

\* There is such a function for every finite set, whatever its elements.
LEMMA FoldExists ==
    ASSUME NEW f, NEW S, IsFiniteSet(S)
    PROVE  IsFold(Fold(f, S), f, S)
<1> DEFINE F == {t \in SUBSET S : ~ \E g : IsFold(g, f, t)}
<1>1. SUFFICES F = {}
  BY DEF Fold
<1>2. SUFFICES ASSUME F # {} PROVE FALSE
  OBVIOUS
<1>3. PICK m \in F : \A k \in F : k \subseteq m => k = m
  <2>1. F \in SUBSET SUBSET S
    OBVIOUS
  <2> HIDE DEF F
  <2> QED BY <1>2, <2>1, MinimalSet
<1>4. ASSUME NEW t \in SUBSET m, t # m
      PROVE  IsFold(Fold(f, t), f, t)
  <2>1. \E g : IsFold(g, f, t)
    BY <1>3, <1>4
  <2> QED BY <2>1 DEF Fold
<1> DEFINE v(t) == Fold(f, t)[t]
           top == IF m = {} THEN 0 ELSE f[First(m)] + v(m \ {First(m)})
           g == [t \in SUBSET m |-> IF t = m THEN top ELSE v(t)]
<1>f. m \in SUBSET S /\ ~ \E h : IsFold(h, f, m)
  OBVIOUS
<1>5. ASSUME NEW t \in SUBSET m, t # m, t # {}
      PROVE  v(t) = f[First(t)] + v(t \ {First(t)})
  <2>1. First(t) \in t
    BY <1>5, FirstOf
  <2>2. t \ {First(t)} \in SUBSET m /\ t \ {First(t)} # m /\ t \ {First(t)} \in SUBSET t
    BY <1>5, <2>1
  <2>3. IsFold(Fold(f, t), f, t) /\ IsFold(Fold(f, t \ {First(t)}), f, t \ {First(t)})
    BY <1>4, <1>5, <2>2
  <2>4. IsFiniteSet(t)
    BY <1>f, FS_Subset
  <2>5. Fold(f, t)[t \ {First(t)}] = Fold(f, t \ {First(t)})[t \ {First(t)}]
    BY <2>2, <2>3, <2>4, FoldsAgree
  <2>6. Fold(f, t)[t] = Added(Fold(f, t), f, t)
    BY <2>3 DEF IsFold
  <2> QED BY <1>5, <2>5, <2>6 DEF Added
<1>6. ASSUME NEW t \in SUBSET m
      PROVE  g[t] = Added(g, f, t)
  <2>1. CASE t = {} /\ t # m
    <3>1. IsFold(Fold(f, t), f, t)
      BY <1>4, <2>1
    <3>2. Fold(f, t)[t] = Added(Fold(f, t), f, t)
      BY <3>1 DEF IsFold
    <3> QED BY <2>1, <3>2 DEF Added
  <2>2. CASE t = {} /\ t = m
    BY <2>2 DEF Added
  <2>3. CASE t # {}
    <3>1. First(t) \in t
      BY <2>3, FirstOf
    <3>2. t \ {First(t)} \in SUBSET m /\ t \ {First(t)} # m
      BY <3>1
    <3>3. g[t \ {First(t)}] = v(t \ {First(t)})
      BY <3>2
    <3>4. g[t] = f[First(t)] + v(t \ {First(t)})
      BY <2>3, <1>5
    <3> QED BY <2>3, <3>3, <3>4 DEF Added
  <2> QED BY <2>1, <2>2, <2>3
<1>7. IsFold(g, f, m)
  <2>1. g = [t \in SUBSET m |-> g[t]]
    OBVIOUS
  <2> HIDE DEF g
  <2>2. g = [t \in SUBSET m |-> Added(g, f, t)]
    BY <1>6, <2>1
  <2> QED BY <2>2 DEF IsFold
<1> QED BY <1>f, <1>7

\* The sum of nothing, and of a set whose first element is taken out.
LEMMA SumOfEmpty ==
    ASSUME NEW f
    PROVE  Sum(f, {}) = 0
<1>1. IsFold(Fold(f, {}), f, {})
  BY FoldExists, FS_EmptySet
<1> QED BY <1>1, SumIsFold DEF IsFold, Added

\* A sum is the chosen first element and the sum of the rest; SumOfAny says it of any.
LEMMA SumOfFirst ==
    ASSUME NEW f, NEW S, IsFiniteSet(S), S # {}
    PROVE  Sum(f, S) = f[First(S)] + Sum(f, S \ {First(S)})
<1>1. S \ {First(S)} \in SUBSET S /\ IsFiniteSet(S \ {First(S)})
  BY FS_Subset
<1>2. IsFold(Fold(f, S), f, S) /\ IsFold(Fold(f, S \ {First(S)}), f, S \ {First(S)})
  BY <1>1, FoldExists
<1>3. Fold(f, S)[S \ {First(S)}] = Fold(f, S \ {First(S)})[S \ {First(S)}]
  BY <1>1, <1>2, FoldsAgree
<1>4. Fold(f, S)[S] = Added(Fold(f, S), f, S)
  BY <1>2 DEF IsFold
<1> QED BY <1>3, <1>4, SumIsFold DEF Added

\* A sum of integers is an integer.
LEMMA SumIsInt ==
    ASSUME NEW f, NEW S, IsFiniteSet(S), \A e \in S : f[e] \in Int
    PROVE  Sum(f, S) \in Int
<1> DEFINE F == {t \in SUBSET S : Sum(f, t) \notin Int}
<1>1. SUFFICES ASSUME F # {} PROVE FALSE
  OBVIOUS
<1>2. PICK m \in F : \A k \in F : k \subseteq m => k = m
  <2>1. F \in SUBSET SUBSET S
    OBVIOUS
  <2> HIDE DEF F
  <2> QED BY <1>1, <2>1, MinimalSet
<1>3. m # {}
  BY SumOfEmpty
<1>4. First(m) \in m /\ IsFiniteSet(m)
  BY <1>3, FirstOf, FS_Subset
<1>5. Sum(f, m) = f[First(m)] + Sum(f, m \ {First(m)})
  BY <1>3, <1>4, SumOfFirst
<1>6. Sum(f, m \ {First(m)}) \in Int
  BY <1>2, <1>4
<1>7. f[First(m)] \in Int
  BY <1>4
<1> QED BY <1>5, <1>6, <1>7

\* Any element can be taken out first.
LEMMA SumOfAny ==
    ASSUME NEW f, NEW S, IsFiniteSet(S), \A e \in S : f[e] \in Int
    PROVE  \A x \in S : Sum(f, S) = f[x] + Sum(f, S \ {x})
<1> DEFINE F == {t \in SUBSET S : \E x \in t : Sum(f, t) # f[x] + Sum(f, t \ {x})}
<1>1. SUFFICES ASSUME F # {} PROVE FALSE
  OBVIOUS
<1>2. PICK m \in F : \A k \in F : k \subseteq m => k = m
  <2>1. F \in SUBSET SUBSET S
    OBVIOUS
  <2> HIDE DEF F
  <2> QED BY <1>1, <2>1, MinimalSet
<1>x. PICK x \in m : Sum(f, m) # f[x] + Sum(f, m \ {x})
  OBVIOUS
<1> DEFINE a == First(m)
           n == m \ {a, x}
<1>m. m \subseteq S
  OBVIOUS
<1>3. a \in m /\ IsFiniteSet(m) /\ IsFiniteSet(n)
  BY <1>m, FirstOf, FS_Subset
<1>4. Sum(f, m) = f[a] + Sum(f, m \ {a})
  BY <1>3, SumOfFirst
<1>5. a # x
  BY <1>4, <1>x
<1>6. ASSUME NEW y \in m, NEW z \in m \ {y}
      PROVE  Sum(f, m \ {y}) = f[z] + Sum(f, (m \ {y}) \ {z})
  <2>1. m \ {y} \notin F
    BY <1>2
  <2> QED BY <2>1, <1>m
<1> HIDE DEF F
<1>7. (m \ {a}) \ {x} = n /\ (m \ {x}) \ {a} = n
  OBVIOUS
<1>8. Sum(f, m \ {a}) = f[x] + Sum(f, n) /\ Sum(f, m \ {x}) = f[a] + Sum(f, n)
  BY <1>3, <1>5, <1>6, <1>7
<1>9. f[a] \in Int /\ f[x] \in Int /\ Sum(f, n) \in Int
  BY <1>3, <1>m, SumIsInt
<1> QED BY <1>4, <1>8, <1>9, <1>x

\* A sum changes by as much as the one entry that changes.
LEMMA SumsAgree ==
    ASSUME NEW f, NEW g, NEW S, IsFiniteSet(S), \A e \in S : f[e] = g[e]
    PROVE  Sum(f, S) = Sum(g, S)
<1> DEFINE F == {t \in SUBSET S : Sum(f, t) # Sum(g, t)}
<1>1. SUFFICES ASSUME F # {} PROVE FALSE
  OBVIOUS
<1>2. PICK m \in F : \A k \in F : k \subseteq m => k = m
  <2>1. F \in SUBSET SUBSET S
    OBVIOUS
  <2> HIDE DEF F
  <2> QED BY <1>1, <2>1, MinimalSet
<1>3. m # {}
  BY SumOfEmpty
<1>4. First(m) \in m /\ IsFiniteSet(m)
  BY <1>3, FirstOf, FS_Subset
<1>5. /\ Sum(f, m) = f[First(m)] + Sum(f, m \ {First(m)})
      /\ Sum(g, m) = g[First(m)] + Sum(g, m \ {First(m)})
  BY <1>3, <1>4, SumOfFirst
<1>6. Sum(f, m \ {First(m)}) = Sum(g, m \ {First(m)})
  BY <1>2, <1>4
<1>7. f[First(m)] = g[First(m)]
  BY <1>4
<1> QED BY <1>2, <1>5, <1>6, <1>7

\* Changing one summand changes the sum by as much.
LEMMA SumOfUpdate ==
    ASSUME NEW f, NEW g, NEW S, IsFiniteSet(S), NEW x \in S,
           \A e \in S : f[e] \in Int /\ g[e] \in Int,
           \A e \in S : e # x => f[e] = g[e]
    PROVE  Sum(g, S) = Sum(f, S) + (g[x] - f[x])
<1>1. IsFiniteSet(S \ {x})
  BY FS_Subset
<1>2. Sum(f, S) = f[x] + Sum(f, S \ {x}) /\ Sum(g, S) = g[x] + Sum(g, S \ {x})
  BY SumOfAny
<1>3. Sum(f, S \ {x}) = Sum(g, S \ {x})
  BY <1>1, SumsAgree
<1>4. Sum(f, S \ {x}) \in Int /\ f[x] \in Int /\ g[x] \in Int
  BY <1>1, SumIsInt
<1> QED BY <1>2, <1>3, <1>4

\* A sum of zeros.
LEMMA SumOfZeros ==
    ASSUME NEW f, NEW S, IsFiniteSet(S), \A e \in S : f[e] = 0
    PROVE  Sum(f, S) = 0
<1> DEFINE F == {t \in SUBSET S : Sum(f, t) # 0}
<1>1. SUFFICES ASSUME F # {} PROVE FALSE
  OBVIOUS
<1>2. PICK m \in F : \A k \in F : k \subseteq m => k = m
  <2>1. F \in SUBSET SUBSET S
    OBVIOUS
  <2> HIDE DEF F
  <2> QED BY <1>1, <2>1, MinimalSet
<1>3. m # {}
  BY SumOfEmpty
<1>4. First(m) \in m /\ IsFiniteSet(m)
  BY <1>3, FirstOf, FS_Subset
<1>5. Sum(f, m) = f[First(m)] + Sum(f, m \ {First(m)})
  BY <1>3, <1>4, SumOfFirst
<1>6. Sum(f, m \ {First(m)}) = 0
  BY <1>2, <1>4
<1>7. f[First(m)] = 0
  BY <1>4
<1> QED BY <1>2, <1>5, <1>6, <1>7

-----------------------------------------------------------------------------
(* What an operation brings in                                             *)

\* What the caller of an operation moves in or out of the books.
Brings(o) ==
    IF o.kind = "transfer" THEN 0 ELSE IF o.kind = "debit" THEN -o.amount ELSE o.amount

\* The legs of an operation add up to what it brings in: a transfer gives what
\* it takes, and the fee and the net amount of a contribution are what was paid.
LEMMA LegsAddUp ==
    ASSUME NEW o \in Operations
    PROVE  /\ Brings(o) \in Int
           /\ Len(o.legs) = 1 => Brings(o) = o.legs[1].delta
           /\ Len(o.legs) = 2 => Brings(o) = o.legs[1].delta + o.legs[2].delta
<1> USE WalletOpsAssumption DEF Operation, Brings
<1>1. CASE \E w \in Wallets, a \in Amounts : o = CreditOp(w, a)
  BY <1>1 DEF CreditOp
<1>2. CASE \E w \in Wallets, a \in Amounts : o = DebitOp(w, a)
  BY <1>2 DEF DebitOp
<1>3. CASE \E s \in Wallets : \E d \in Wallets \ {s}, a \in Amounts : o = TransferOp(s, d, a)
  BY <1>3 DEF TransferOp
<1>4. CASE \E w \in Wallets \ {Platform}, a \in Amounts : o = ContributionOp(w, a)
  <2>1. PICK w \in Wallets \ {Platform}, a \in Amounts : o = ContributionOp(w, a)
    BY <1>4
  <2>2. a \in Nat /\ CalculateFee(a) \in Int
    BY FeeBounds
  <2>3. o.kind = "contribution" /\ o.amount = a /\ o.legs = ContributionLegs(w, a)
    BY <2>1 DEF ContributionOp
  <2>4. CASE CalculateFee(a) > 0
    BY <2>2, <2>3, <2>4 DEF ContributionLegs, NetAmount
  <2>5. CASE ~ (CalculateFee(a) > 0)
    BY <2>2, <2>3, <2>5 DEF ContributionLegs
  <2> QED BY <2>4, <2>5
<1> QED BY <1>1, <1>2, <1>3, <1>4, OperationKinds

\* What each wallet has gained, and what each request has brought in.
Gained == [w \in Wallets |-> balance[w] - OpeningBalance[w]]
Brought == [r \in Requests |-> External(r)]

\* MoneyConserved in the terms of this module.
LEMMA ConservedMeans == MoneyConserved <=> Sum(Gained, Wallets) = Sum(Brought, Requests)
BY DEF MoneyConserved, SumFunction, Sum, Gained, Brought

LEMMA BroughtInt ==
    ASSUME IInv, NEW r \in Requests
    PROVE  External(r) \in Int
<1>1. Committed(r) => op[r] \in Operations
  BY LegFacts DEF Committed
<1>2. Committed(r) => External(r) = Brings(op[r])
  BY DEF External, Brings
<1> QED BY <1>1, <1>2, LegsAddUp DEF External

\* COMMIT: the wallets gain together what the request brings in.
LEMMA CommitConserves ==
    ASSUME IsFiniteSet(Wallets), IsFiniteSet(Requests), IInv,
           NEW r \in Requests, Commit(r), MoneyConserved
    PROVE  MoneyConserved'
<1>s. pc[r] = "commit" /\ pc' = [pc EXCEPT ![r] = "audit"] /\ op' = op
  BY DEF Commit
<1>t. pc \in [Requests -> Stages] /\ balance \in [Wallets -> Int]
  BY DEF IInv, TypeOK
<1>o. op[r] \in Operations /\ WellFormed(op[r]) /\ op[r].legs \in Seq(Leg)
  BY <1>s, LegFacts DEF WellFormed
<1>1. /\ Brought' \in [Requests -> Int] /\ Brought \in [Requests -> Int]
      /\ Brought[r] = 0 /\ Brought'[r] = Brings(op[r])
      /\ \A q \in Requests : q # r => Brought'[q] = Brought[q]
  <2>1. \A q \in Requests : q # r => External(q)' = External(q)
    BY <1>s, <1>t DEF External, Committed
  <2>2. External(r) = 0 /\ External(r)' = Brings(op[r])
    BY <1>s, <1>t DEF External, Brings, Committed
  <2>3. \A q \in Requests : External(q) \in Int
    BY BroughtInt
  <2>4. Brings(op[r]) \in Int
    BY <1>o, LegsAddUp
  <2>5. \A q \in Requests : External(q)' \in Int
    BY <2>1, <2>2, <2>3, <2>4
  <2> QED BY <2>1, <2>2, <2>3, <2>5 DEF Brought
<1>2. Sum(Brought', Requests) = Sum(Brought, Requests) + Brings(op[r])
  <2>1. Sum(Brought', Requests) = Sum(Brought, Requests) + (Brought'[r] - Brought[r])
    BY <1>1, SumOfUpdate
  <2>2. Brought'[r] - Brought[r] = Brings(op[r])
    BY <1>1, <1>o, LegsAddUp
  <2> QED BY <2>1, <2>2
<1>3. balance' = [w \in Wallets |-> balance[w] + Delta(op[r], w)]
  BY CommitApplies
<1> DEFINE L == op[r].legs
<1>4. \A i \in DOMAIN L : L[i].wallet \in Wallets /\ L[i].delta \in Int
                          /\ Delta(op[r], L[i].wallet) = L[i].delta
  BY <1>s, <1>o, LegFacts, DeltaOfLeg
<1>5. \A w \in Wallets : (\A i \in DOMAIN L : L[i].wallet # w) => Delta(op[r], w) = 0
  BY DeltaElsewhere
<1>6. \A w \in Wallets : Delta(op[r], w) \in Int
  BY <1>4, <1>5
<1>7. /\ Gained \in [Wallets -> Int] /\ Gained' \in [Wallets -> Int]
      /\ \A w \in Wallets : Gained'[w] = Gained[w] + Delta(op[r], w)
  BY <1>t, <1>3, <1>6, WalletOpsAssumption DEF Gained
<1>8. Sum(Gained', Wallets) = Sum(Gained, Wallets) + Brings(op[r])
  <2>0. Sum(Gained, Wallets) \in Int
    BY <1>7, SumIsInt
  <2>1. CASE Len(L) = 1
    <3>1. DOMAIN L = {1}
      BY <2>1, <1>o
    <3>2. \A w \in Wallets : w # L[1].wallet => Gained[w] = Gained'[w]
      BY <3>1, <1>5, <1>7
    <3>3. Sum(Gained', Wallets) = Sum(Gained, Wallets) + (Gained'[L[1].wallet] - Gained[L[1].wallet])
      BY <3>1, <3>2, <1>4, <1>7, SumOfUpdate
    <3>4. Gained'[L[1].wallet] - Gained[L[1].wallet] = L[1].delta
      BY <3>1, <1>4, <1>7
    <3>5. Brings(op[r]) = L[1].delta
      BY <2>1, <1>o, LegsAddUp
    <3> QED BY <3>3, <3>4, <3>5
  <2>2. CASE Len(L) = 2
    <3>1. DOMAIN L = {1, 2} /\ L[1].wallet # L[2].wallet
      BY <2>2, <1>o DEF WellFormed
    <3> DEFINE a == L[1].wallet
               b == L[2].wallet
               mid == [Gained EXCEPT ![a] = Gained[a] + L[1].delta]
    <3>2. a \in Wallets /\ b \in Wallets /\ a # b /\ L[1].delta \in Int /\ L[2].delta \in Int
      BY <3>1, <1>4
    <3>3. mid \in [Wallets -> Int] /\ mid[a] = Gained[a] + L[1].delta
          /\ \A w \in Wallets : w # a => mid[w] = Gained[w]
      BY <3>2, <1>7
    <3>4. /\ Gained'[a] = Gained[a] + L[1].delta /\ Gained'[b] = Gained[b] + L[2].delta
          /\ \A w \in Wallets : w # a /\ w # b => Gained'[w] = Gained[w]
      <4>1. Delta(op[r], a) = L[1].delta /\ Delta(op[r], b) = L[2].delta
        BY <3>1, <1>4
      <4>2. \A w \in Wallets : w # a /\ w # b => Delta(op[r], w) = 0
        BY <3>1, <1>5
      <4> QED BY <4>1, <4>2, <3>2, <1>7
    <3> HIDE DEF mid, a, b, L
    <3>5. Sum(mid, Wallets) = Sum(Gained, Wallets) + (mid[a] - Gained[a])
      BY <3>2, <3>3, <1>7, SumOfUpdate
    <3>6. \A w \in Wallets : w # b => mid[w] = Gained'[w]
      BY <3>3, <3>4
    <3>7. Sum(Gained', Wallets) = Sum(mid, Wallets) + (Gained'[b] - mid[b])
      BY <3>2, <3>3, <3>6, <1>7, SumOfUpdate
    <3>8. mid[a] - Gained[a] = L[1].delta /\ Gained'[b] - mid[b] = L[2].delta
      BY <3>2, <3>3, <3>4, <1>7
    <3>9. Brings(op[r]) = L[1].delta + L[2].delta
      BY <2>2, <1>o, LegsAddUp DEF L
    <3> QED BY <2>0, <3>2, <3>5, <3>7, <3>8, <3>9
  <2> QED BY <2>1, <2>2, <1>o DEF WellFormed
<1>9. Sum(Gained, Wallets) = Sum(Brought, Requests)
  BY ConservedMeans
<1>10. Sum(Gained', Wallets) = Sum(Brought', Requests)
  BY <1>2, <1>8, <1>9
<1> QED BY <1>10 DEF MoneyConserved, SumFunction, Sum, Gained, Brought

\* No other statement changes a committed balance or commits a request.
LEMMA StatementConserves ==
    ASSUME balance' = balance,
           \A q \in Requests : Committed(q)' <=> Committed(q),
           \A q \in Requests : Committed(q) => op'[q] = op[q],
           MoneyConserved
    PROVE  MoneyConserved'
<1>1. \A q \in Requests : External(q)' = External(q)
  BY DEF External
<1> QED BY <1>1 DEF MoneyConserved

\* No step makes or loses money.
LEMMA NextConserves ==
    ASSUME IsFiniteSet(Wallets), IsFiniteSet(Requests)
    PROVE  IInv /\ MoneyConserved /\ [Next]_vars => MoneyConserved'
<1> SUFFICES ASSUME IInv, MoneyConserved, [Next]_vars
             PROVE  MoneyConserved'
  OBVIOUS
<1>t. TypeOK
  BY DEF IInv
<1>1. ASSUME NEW r \in Requests, Commit(r)
      PROVE  MoneyConserved'
  BY <1>1, CommitConserves
<1>2. ASSUME NEW r \in Requests, Begin(r) \/ (Running(r) /\ Rollback(r))
      PROVE  MoneyConserved'
  <2>1. /\ balance' = balance
        /\ \A q \in Requests : Committed(q)' <=> Committed(q)
        /\ \A q \in Requests : Committed(q) => op'[q] = op[q]
    BY <1>2, <1>t DEF Begin, Rollback, Running, TypeOK, Committed
  <2> QED BY <2>1, StatementConserves
<1>3. ASSUME NEW r \in Requests,
             \/ ReadWallet(r) \/ MissWallet(r) \/ CreateWallet(r) \/ UpdateBalance(r)
             \/ AuditLogged(r) \/ AuditThrows(r)
      PROVE  MoneyConserved'
  <2>1. /\ balance' = balance /\ op' = op
        /\ \A q \in Requests : Committed(q)' <=> Committed(q)
    BY <1>3, <1>t DEF ReadWallet, MissWallet, CreateWallet, UpdateBalance, AuditLogged,
                      AuditThrows, TypeOK, Committed
  <2> QED BY <2>1, StatementConserves
<1>4. CASE UNCHANGED vars
  BY <1>4, StatementConserves DEF vars, Committed
<1>5. ASSUME NEW r \in Requests, Step(r) \/ Abort(r) \/ DeadlockVictim(r)
      PROVE  \/ ReadWallet(r) \/ MissWallet(r) \/ CreateWallet(r) \/ UpdateBalance(r)
             \/ Commit(r) \/ AuditLogged(r)
             \/ Running(r) /\ Rollback(r)
  BY <1>5, StepKinds
<1> QED BY <1>1, <1>2, <1>3, <1>4, <1>5 DEF Next

\* Whatever interleaves, aborts or deadlocks: at every committed state the
\* wallets together hold their opening balances plus what the requests
\* committed so far brought in, to the kobo.
THEOREM Conservation ==
    ASSUME IsFiniteSet(Wallets), IsFiniteSet(Requests)
    PROVE  Spec => []MoneyConserved
<1>1. Init => MoneyConserved
  <2> SUFFICES ASSUME Init PROVE MoneyConserved
    OBVIOUS
  <2>1. \A w \in Wallets : Gained[w] = 0
    BY WalletOpsAssumption DEF Init, Gained
  <2>2. \A r \in Requests : Brought[r] = 0
    BY DEF Init, Brought, External, Committed
  <2>3. Sum(Gained, Wallets) = 0 /\ Sum(Brought, Requests) = 0
    BY <2>1, <2>2, SumOfZeros
  <2> QED BY <2>3, ConservedMeans
<1>2. IInv /\ MoneyConserved /\ [Next]_vars => MoneyConserved'
  BY NextConserves
<1> QED BY <1>1, <1>2, Inductive, PTL DEF Spec
=============================================================================
