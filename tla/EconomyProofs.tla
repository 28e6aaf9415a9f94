----------------------------- MODULE EconomyProofs -----------------------------
(***************************************************************************)
(* The ledgers of the players.  RNG and vUSDT are conserved, every share   *)
(* is accounted for and the pool is never drained, for any players,        *)
(* amounts, fee, tax and locked shares.  The books of staking balance, and *)
(* epochs do not overlap, for any durations and epoch length.  At every    *)
(* table of the casino what is at stake was charged, a loss is what was    *)
(* taken, odds follow the point, no shoe is dealt beyond its cards and a   *)
(* stored state can be read back, for any decks, layouts, stakes and       *)
(* numbers of hands and bets.                                              *)
(***************************************************************************)
EXTENDS Liquidity, Staking, Games, DataTheorems, SequenceTheorems

----------------------------------------------------------------------------
(* Arithmetic of the pool. *)

\* Fee and tax are parts of the amount they are taken from.
LEMMA FeeIsPart ==
    ASSUME NEW n \in Nat
    PROVE  Fee(n) \in Nat /\ Fee(n) <= n /\ Tax(n) \in Nat /\ Tax(n) <= n
<1>1. /\ n * FeeBps \in Nat /\ n * FeeBps <= BasisPoints * n
      /\ n * TaxBps \in Nat /\ n * TaxBps <= BasisPoints * n
      /\ BasisPoints \in Nat /\ BasisPoints > 0
  <2>1. \A x, y, z \in Nat : y <= z => x * y \in Nat /\ x * y <= z * x OBVIOUS
  <2> QED BY <2>1, LiquidityAssumption, ChipsAssumption
<1> QED BY <1>1, DivBounds, DivAtMost DEF Fee, Tax

\* A swap never pays out a whole reserve.
LEMMA AmountOutIsPart ==
    ASSUME NEW n \in Nat, NEW in \in Nat, NEW out \in Nat, in > 0, out > 0
    PROVE  AmountOut(n, in, out) \in Nat /\ AmountOut(n, in, out) < out
<1> DEFINE net == n - Fee(n)
           x == net * BasisPoints
           y == in * BasisPoints
<1>1. net \in Nat BY FeeIsPart
<1>2. BasisPoints \in Nat /\ BasisPoints > 0 BY LiquidityAssumption, ChipsAssumption
<1>3. x \in Nat /\ y \in Nat /\ y > 0
  <2> HIDE DEF net
  <2> QED BY <1>1, <1>2, ProductPositive
<1>4. AmountOut(n, in, out) = (x * out) \div (y + x) BY DEF AmountOut
<1> HIDE DEF x, y, net
<1>5. x * out < (y + x) * out /\ x * out \in Nat
  <2>1. (y + x) * out = y * out + x * out BY <1>3
  <2>2. y * out > 0 /\ x * out \in Nat BY <1>3, ProductPositive
  <2> QED BY <2>1, <2>2, <1>3
<1> QED BY <1>3, <1>4, <1>5, DivBounds, DivLess

\* integer_sqrt yields a natural number.
LEMMA SqrtType ==
    ASSUME NEW v \in Nat
    PROVE  Sqrt(v) \in Nat
<1> DEFINE S == {x \in Nat : v < (x + 1) * (x + 1)}
<1>1. v \in S OBVIOUS
<1>2. PICK x \in S : \A y \in S : x <= y
  <2>1. S \subseteq Nat /\ S # {} BY <1>1
  <2> HIDE DEF S
  <2> QED BY <2>1, LeastExists, Zenon
<1>3. \A y \in S : ~ (y < x) BY <1>2
<1>4. x \in Nat /\ v < (x + 1) * (x + 1) /\ x <= v BY <1>1, <1>3
<1>5. x * x <= v
  <2>1. CASE x = 0 BY <2>1
  <2>2. CASE x # 0
    <3>1. x - 1 \in Nat /\ x - 1 < x BY <1>4, <2>2
    <3>2. x - 1 \notin S BY <3>1, <1>3
    <3> QED BY <3>1, <3>2, <1>4
  <2> QED BY <2>1, <2>2
<1>6. \E z \in 0 .. v : z * z <= v /\ v < (z + 1) * (z + 1) BY <1>4, <1>5
<1>7. Sqrt(v) \in 0 .. v BY <1>6, Zenon DEF Sqrt
<1> QED BY <1>7

----------------------------------------------------------------------------
(***************************************************************************)
(* The inductive invariant.  The pool is not drained because nobody owns   *)
(* the locked shares, which needs the sum of all shares; vUSDT is owed     *)
(* because a vault without a player has no collateral and so no debt.      *)
(***************************************************************************)
StrangersHaveNoCollateral == \A p \in Players \ registered : collateral[p] = 0

IInv ==
    /\ TypeOK
    /\ RngConserved
    /\ VusdtIsOwed
    /\ SharesAreOwned
    /\ PoolNeverDrained
    /\ StrangersHaveNoCollateral

LEMMA PlayersFinite == IsFiniteSet(Players)
BY LiquidityAssumption, ChipsAssumption

LEMMA InitInv == Init => IInv
<1> SUFFICES ASSUME Init PROVE IInv OBVIOUS
<1>1. Empty \in Ledgers BY DEF Empty, Ledgers
<1>2. Total(Empty) = 0 BY TotalEmpty, Zenon DEF Empty
<1>3. Cardinality({}) = 0 BY FS_EmptySet
<1>4. TypeOK BY <1>1 DEF Init, TypeOK
<1>5. RngConserved BY <1>2, <1>3, LiquidityAssumption, ChipsAssumption DEF Init, RngConserved
<1>6. VusdtIsOwed BY <1>2 DEF Init, VusdtIsOwed
<1>7. SharesAreOwned BY <1>2 DEF Init, SharesAreOwned
<1>8. PoolNeverDrained BY DEF Init, PoolNeverDrained
<1>9. StrangersHaveNoCollateral BY DEF Init, StrangersHaveNoCollateral, Empty
<1> QED BY <1>4, <1>5, <1>6, <1>7, <1>8, <1>9 DEF IInv

\* The sums of the ledgers are numbers.
LEMMA Sums ==
    ASSUME TypeOK
    PROVE  /\ Total(chips) \in Nat /\ Total(vusdt) \in Nat /\ Total(collateral) \in Nat
           /\ Total(debt) \in Nat /\ Total(lp) \in Nat
           /\ Cardinality(registered) \in Nat
<1>1. \A f \in [Players -> Nat] : Total(f) \in Nat
  BY PlayersFinite, TotalType, Zenon
<1>2. IsFiniteSet(registered)
  <2>1. registered \in SUBSET Players BY DEF TypeOK
  <2> QED BY <2>1, PlayersFinite, FS_Subset, Zenon
<1>3. Cardinality(registered) \in Nat BY <1>2, FS_CardinalityType, Zenon
<1> QED BY <1>1, <1>3 DEF TypeOK, Ledgers

\* The laws of Add and Sub for ledgers.
LEMMA LedgerAdd ==
    ASSUME NEW f \in Ledgers, NEW p \in Players, NEW n \in Nat
    PROVE  /\ Add(f, p, n) \in Ledgers
           /\ Total(Add(f, p, n)) = Total(f) + n
           /\ \A q \in Players : q # p => Add(f, p, n)[q] = f[q]
<1>1. Add(f, p, n) \in Ledgers /\ \A q \in Players : q # p => Add(f, p, n)[q] = f[q]
  BY AddType DEF Ledgers
<1>2. f \in [Players -> Nat] BY DEF Ledgers
<1>3. Total(Add(f, p, n)) = Total(f) + n
  BY <1>2, PlayersFinite, TotalAdd, Zenon
<1> QED BY <1>1, <1>3

LEMMA LedgerSub ==
    ASSUME NEW f \in Ledgers, NEW p \in Players, NEW n \in Nat, n <= f[p]
    PROVE  /\ Sub(f, p, n) \in Ledgers
           /\ Total(Sub(f, p, n)) = Total(f) - n
           /\ Total(Sub(f, p, n)) \in Nat
           /\ \A q \in Players : q # p => Sub(f, p, n)[q] = f[q]
<1>1. Sub(f, p, n) \in Ledgers /\ \A q \in Players : q # p => Sub(f, p, n)[q] = f[q]
  BY SubType DEF Ledgers
<1>2. f \in [Players -> Nat] BY DEF Ledgers
<1>3. Total(Sub(f, p, n)) = Total(f) - n /\ Total(Sub(f, p, n)) \in Nat
  BY <1>2, PlayersFinite, TotalSub, Zenon
<1> QED BY <1>1, <1>3

LEMMA RegisterInv ==
    ASSUME IInv, NEW p \in Players, CasinoRegister(p)
    PROVE  IInv'
<1> USE DEF IInv, CasinoRegister, vault, amm, house
<1>1. InitialChips \in Nat BY LiquidityAssumption, ChipsAssumption
<1>2. /\ chips' \in Ledgers /\ Total(chips') = Total(chips) + InitialChips
  BY <1>1, LedgerAdd DEF TypeOK
<1>3. Cardinality(registered') = Cardinality(registered) + 1
  <2>1. IsFiniteSet(registered)
    <3>1. registered \in SUBSET Players BY DEF TypeOK
    <3> QED BY <3>1, PlayersFinite, FS_Subset, Zenon
  <2> QED BY <2>1, FS_AddElement
<1>4. TypeOK' BY <1>2 DEF TypeOK
<1>5. RngConserved'
  <2>1. \A n, k \in Nat : n * (k + 1) = n * k + n OBVIOUS
  <2> QED BY <2>1, <1>1, <1>2, <1>3, Sums DEF RngConserved, TypeOK
<1>6. VusdtIsOwed' BY DEF VusdtIsOwed
<1>7. SharesAreOwned' BY DEF SharesAreOwned
<1>8. PoolNeverDrained' BY DEF PoolNeverDrained
<1>9. StrangersHaveNoCollateral' BY DEF StrangersHaveNoCollateral
<1> QED BY <1>4, <1>5, <1>6, <1>7, <1>8, <1>9

LEMMA CreateVaultInv ==
    ASSUME IInv, NEW p \in Players, CreateVault(p)
    PROVE  IInv'
<1> USE DEF IInv, CreateVault, balances, vault, amm, house
<1>1. TypeOK' BY DEF TypeOK
<1>2. RngConserved' BY DEF RngConserved
<1>3. VusdtIsOwed' BY DEF VusdtIsOwed
<1>4. SharesAreOwned' BY DEF SharesAreOwned
<1>5. PoolNeverDrained' BY DEF PoolNeverDrained
<1>6. StrangersHaveNoCollateral' BY DEF StrangersHaveNoCollateral
<1> QED BY <1>1, <1>2, <1>3, <1>4, <1>5, <1>6

LEMMA DepositCollateralInv ==
    ASSUME IInv, NEW p \in Players, NEW n \in Amounts, DepositCollateral(p, n)
    PROVE  IInv'
<1> USE DEF IInv, DepositCollateral, amm, house
<1>1. n \in Nat BY LiquidityAssumption, ChipsAssumption
<1>2. /\ chips' \in Ledgers /\ Total(chips') = Total(chips) - n
  BY <1>1, LedgerSub DEF TypeOK, Ledgers
<1>3. /\ collateral' \in Ledgers /\ Total(collateral') = Total(collateral) + n
      /\ \A q \in Players : q # p => collateral'[q] = collateral[q]
  BY <1>1, LedgerAdd DEF TypeOK
<1>4. TypeOK' BY <1>2, <1>3 DEF TypeOK
<1>5. RngConserved' BY <1>1, <1>2, <1>3, Sums DEF RngConserved, TypeOK
<1>6. VusdtIsOwed' BY DEF VusdtIsOwed
<1>7. SharesAreOwned' BY DEF SharesAreOwned
<1>8. PoolNeverDrained' BY DEF PoolNeverDrained
<1>9. StrangersHaveNoCollateral' BY <1>3 DEF StrangersHaveNoCollateral
<1> QED BY <1>4, <1>5, <1>6, <1>7, <1>8, <1>9

LEMMA BorrowInv ==
    ASSUME IInv, NEW p \in Players, NEW n \in Amounts, BorrowUsdt(p, n)
    PROVE  IInv'
<1> USE DEF IInv, BorrowUsdt, amm, house
<1>1. n \in Nat BY LiquidityAssumption, ChipsAssumption
<1>2. debt' \in Ledgers /\ Total(debt') = Total(debt) + n
  BY <1>1, LedgerAdd DEF TypeOK
<1>3. vusdt' \in Ledgers /\ Total(vusdt') = Total(vusdt) + n
  <2>1. CASE p \in registered BY <2>1, <1>1, LedgerAdd DEF TypeOK
  <2>2. CASE p \notin registered
    <3>1. collateral[p] = 0 BY <2>2 DEF StrangersHaveNoCollateral
    <3>2. debt[p] \in Nat /\ reserveRng \in Nat /\ reserveVusdt \in Nat
      BY DEF TypeOK, Ledgers
    <3>3. debt[p] + n = 0
      <4>1. \A d, r, v \in Nat : r > 0 /\ 2 * d * r <= 0 * v => d = 0 OBVIOUS
      <4> QED BY <4>1, <1>1, <3>1, <3>2 DEF WithinLtv
    <3>4. n = 0 BY <1>1, <3>2, <3>3
    <3> QED BY <2>2, <3>4, Sums DEF TypeOK
  <2> QED BY <2>1, <2>2
<1>4. TypeOK' BY <1>2, <1>3 DEF TypeOK
<1>5. RngConserved' BY DEF RngConserved
<1>6. VusdtIsOwed' BY <1>1, <1>2, <1>3, Sums DEF VusdtIsOwed, TypeOK
<1>7. SharesAreOwned' BY DEF SharesAreOwned
<1>8. PoolNeverDrained' BY DEF PoolNeverDrained
<1>9. StrangersHaveNoCollateral' BY DEF StrangersHaveNoCollateral
<1> QED BY <1>4, <1>5, <1>6, <1>7, <1>8, <1>9

LEMMA RepayInv ==
    ASSUME IInv, NEW p \in Players, NEW n \in Amounts, RepayUsdt(p, n)
    PROVE  IInv'
<1> USE DEF IInv, RepayUsdt, amm, house
<1> DEFINE k == Minimum(n, debt[p])
<1>1. k \in Nat /\ k <= debt[p] /\ k <= vusdt[p]
  BY LiquidityAssumption, ChipsAssumption DEF TypeOK, Ledgers, Minimum
<1>2. debt' = Sub(debt, p, k) /\ vusdt' = Sub(vusdt, p, k) OBVIOUS
<1> HIDE DEF k
<1>3. debt' \in Ledgers /\ Total(debt') = Total(debt) - k
  BY <1>1, <1>2, LedgerSub DEF TypeOK
<1>4. vusdt' \in Ledgers /\ Total(vusdt') = Total(vusdt) - k
  BY <1>1, <1>2, LedgerSub DEF TypeOK
<1>5. TypeOK' BY <1>3, <1>4 DEF TypeOK
<1>6. RngConserved' BY DEF RngConserved
<1>7. VusdtIsOwed' BY <1>1, <1>3, <1>4, Sums DEF VusdtIsOwed, TypeOK
<1>8. SharesAreOwned' BY DEF SharesAreOwned
<1>9. PoolNeverDrained' BY DEF PoolNeverDrained
<1>10. StrangersHaveNoCollateral' BY DEF StrangersHaveNoCollateral
<1> QED BY <1>5, <1>6, <1>7, <1>8, <1>9, <1>10

LEMMA SwapBuyInv ==
    ASSUME IInv, NEW p \in Players, NEW n \in Amounts, NEW m \in Amounts, SwapBuy(p, n, m)
    PROVE  IInv'
<1> USE DEF IInv, SwapBuy, vault
<1> DEFINE out == AmountOut(n, reserveVusdt, reserveRng)
<1>1. /\ n \in Nat /\ n <= vusdt[p]
      /\ reserveRng \in Nat /\ reserveRng > 0 /\ reserveVusdt \in Nat /\ reserveVusdt > 0
      /\ totalShares # 0
  BY LiquidityAssumption, ChipsAssumption DEF TypeOK, HasLiquidity, PoolNeverDrained
<1>2. out \in Nat /\ out < reserveRng BY <1>1, AmountOutIsPart
<1>3. Fee(n) \in Nat BY <1>1, FeeIsPart
<1>4. /\ vusdt' = Sub(vusdt, p, n) /\ chips' = Add(chips, p, out)
      /\ reserveVusdt' = reserveVusdt + n /\ reserveRng' = reserveRng - out
      /\ accumulatedFees' = accumulatedFees + Fee(n)
  OBVIOUS
<1> HIDE DEF out
<1>5. vusdt' \in Ledgers /\ Total(vusdt') = Total(vusdt) - n
  BY <1>1, <1>4, LedgerSub DEF TypeOK
<1>6. chips' \in Ledgers /\ Total(chips') = Total(chips) + out
  BY <1>2, <1>4, LedgerAdd DEF TypeOK
<1>7. TypeOK' BY <1>1, <1>2, <1>3, <1>4, <1>5, <1>6 DEF TypeOK
<1>8. RngConserved' BY <1>1, <1>2, <1>4, <1>6, Sums DEF RngConserved, TypeOK
<1>9. VusdtIsOwed' BY <1>1, <1>4, <1>5, Sums DEF VusdtIsOwed, TypeOK
<1>10. SharesAreOwned' BY DEF SharesAreOwned
<1>11. PoolNeverDrained' BY <1>1, <1>2, <1>4 DEF PoolNeverDrained
<1>12. StrangersHaveNoCollateral' BY DEF StrangersHaveNoCollateral
<1> QED BY <1>7, <1>8, <1>9, <1>10, <1>11, <1>12

LEMMA SwapSellInv ==
    ASSUME IInv, NEW p \in Players, NEW n \in Amounts, NEW m \in Amounts, SwapSell(p, n, m)
    PROVE  IInv'
<1> USE DEF IInv, SwapSell, vault
<1> DEFINE tax == Tax(n)
           net == n - tax
           out == AmountOut(net, reserveRng, reserveVusdt)
<1>1. /\ n \in Nat /\ n <= chips[p]
      /\ reserveRng \in Nat /\ reserveRng > 0 /\ reserveVusdt \in Nat /\ reserveVusdt > 0
      /\ totalShares # 0
  BY LiquidityAssumption, ChipsAssumption DEF TypeOK, HasLiquidity, PoolNeverDrained
<1>2. tax \in Nat /\ net \in Nat /\ net + tax = n BY <1>1, FeeIsPart
<1>3. /\ chips' = Sub(chips, p, n) /\ vusdt' = Add(vusdt, p, out)
      /\ reserveRng' = reserveRng + net /\ reserveVusdt' = reserveVusdt - out
      /\ accumulatedFees' = accumulatedFees + Fee(net)
      /\ totalBurned' = totalBurned + tax /\ taxed' = taxed + tax
  OBVIOUS
<1> HIDE DEF tax, net
<1>4. out \in Nat /\ out < reserveVusdt BY <1>1, <1>2, AmountOutIsPart
<1>5. Fee(net) \in Nat BY <1>2, FeeIsPart
<1> HIDE DEF out
<1>6. chips' \in Ledgers /\ Total(chips') = Total(chips) - n
  BY <1>1, <1>3, LedgerSub DEF TypeOK
<1>7. vusdt' \in Ledgers /\ Total(vusdt') = Total(vusdt) + out
  BY <1>4, <1>3, LedgerAdd DEF TypeOK
<1>8. TypeOK' BY <1>1, <1>2, <1>3, <1>4, <1>5, <1>6, <1>7 DEF TypeOK
<1>9. RngConserved'
  <2>1. UNCHANGED <<collateral, registered>> OBVIOUS
  <2>2. taxed \in Nat BY DEF TypeOK
  <2>3. Total(chips') + reserveRng' + taxed' = Total(chips) + reserveRng + taxed
    <3> HIDE DEF SwapSell
    <3> QED BY <1>1, <1>2, <1>3, <1>6, <2>2, Sums
  <2>4. reserveRng' \in Nat /\ taxed' \in Nat /\ Total(chips') \in Nat
    BY <1>8, <1>6, TotalType, PlayersFinite DEF TypeOK, Ledgers
  <2> HIDE DEF SwapSell
  <2> QED BY <1>1, <2>1, <2>2, <2>3, <2>4, Sums DEF RngConserved
<1>10. VusdtIsOwed' BY <1>1, <1>3, <1>4, <1>7, Sums DEF VusdtIsOwed, TypeOK
<1>11. SharesAreOwned' BY DEF SharesAreOwned
<1>12. PoolNeverDrained' BY <1>1, <1>2, <1>3, <1>4 DEF PoolNeverDrained
<1>13. StrangersHaveNoCollateral' BY DEF StrangersHaveNoCollateral
<1> QED BY <1>8, <1>9, <1>10, <1>11, <1>12, <1>13

LEMMA SwapSellRefusedInv ==
    ASSUME IInv, NEW p \in Players, NEW n \in Amounts, NEW m \in Amounts,
           SwapSellRefused(p, n, m)
    PROVE  IInv'
<1> USE DEF IInv, SwapSellRefused, balances, vault, amm
<1>1. Tax(n) \in Nat BY FeeIsPart, LiquidityAssumption, ChipsAssumption
<1>2. TypeOK' BY <1>1 DEF TypeOK
<1>3. RngConserved' BY DEF RngConserved
<1>4. VusdtIsOwed' BY DEF VusdtIsOwed
<1>5. SharesAreOwned' BY DEF SharesAreOwned
<1>6. PoolNeverDrained' BY DEF PoolNeverDrained
<1>7. StrangersHaveNoCollateral' BY DEF StrangersHaveNoCollateral
<1> QED BY <1>2, <1>3, <1>4, <1>5, <1>6, <1>7

\* A deposit keeps the invariant when the shares it creates are accounted for.
LEMMA DepositInv ==
    ASSUME IInv, NEW p \in Players, NEW x \in Amounts, NEW y \in Amounts,
           NEW minted \in Nat, NEW locked \in Nat,
           CanDeposit(p, x, y), Deposit(p, x, y, minted, locked), minted > 0,
           locked = IF totalShares = 0 THEN MinimumLiquidity ELSE 0
    PROVE  IInv'
<1> USE DEF IInv, Deposit, CanDeposit, vault, house
<1>1. /\ x \in Nat /\ x > 0 /\ x <= chips[p] /\ y \in Nat /\ y > 0 /\ y <= vusdt[p]
      /\ MinimumLiquidity \in Nat
  BY LiquidityAssumption, ChipsAssumption DEF TypeOK
<1>2. chips' \in Ledgers /\ Total(chips') = Total(chips) - x
  BY <1>1, LedgerSub DEF TypeOK
<1>3. vusdt' \in Ledgers /\ Total(vusdt') = Total(vusdt) - y
  BY <1>1, LedgerSub DEF TypeOK
<1>4. lp' \in Ledgers /\ Total(lp') = Total(lp) + minted
  BY LedgerAdd DEF TypeOK
<1>5. TypeOK' BY <1>1, <1>2, <1>3, <1>4 DEF TypeOK
<1>6. RngConserved' BY <1>1, <1>2, Sums DEF RngConserved, TypeOK
<1>7. VusdtIsOwed' BY <1>1, <1>3, Sums DEF VusdtIsOwed, TypeOK
<1>8. SharesAreOwned' BY <1>1, <1>4, Sums DEF SharesAreOwned, TypeOK
<1>9. PoolNeverDrained' BY <1>1 DEF PoolNeverDrained, TypeOK
<1>10. StrangersHaveNoCollateral' BY DEF StrangersHaveNoCollateral
<1> QED BY <1>5, <1>6, <1>7, <1>8, <1>9, <1>10

LEMMA AddFirstInv ==
    ASSUME IInv, NEW p \in Players, NEW x \in Amounts, NEW y \in Amounts,
           AddFirstLiquidity(p, x, y)
    PROVE  IInv'
<1> DEFINE root == Sqrt(x * y)
<1>1. x \in Nat /\ y \in Nat /\ MinimumLiquidity \in Nat BY LiquidityAssumption, ChipsAssumption
<1>2. root \in Nat BY <1>1, ProductPositive, SqrtType
<1>3. /\ CanDeposit(p, x, y) /\ totalShares = 0 /\ root > MinimumLiquidity
      /\ Deposit(p, x, y, root - MinimumLiquidity, MinimumLiquidity)
  BY DEF AddFirstLiquidity
<1> HIDE DEF root
<1>4. root - MinimumLiquidity \in Nat /\ root - MinimumLiquidity > 0 BY <1>1, <1>2, <1>3
<1>5. MinimumLiquidity = IF totalShares = 0 THEN MinimumLiquidity ELSE 0 BY <1>3
<1> QED BY <1>1, <1>3, <1>4, <1>5, DepositInv

\* What SharesFor yields.
LEMMA SharesForType ==
    ASSUME NEW x \in Nat, NEW y \in Nat, TypeOK, reserveRng > 0, reserveVusdt > 0
    PROVE  SharesFor(x, y) \in Nat
<1>1. reserveRng \in Nat /\ reserveVusdt \in Nat /\ totalShares \in Nat BY DEF TypeOK
<1>2. x * totalShares \in Nat /\ y * totalShares \in Nat BY <1>1, ProductPositive
<1>3. /\ (x * totalShares) \div reserveRng \in Nat
      /\ (y * totalShares) \div reserveVusdt \in Nat
  BY <1>1, <1>2, DivBounds
<1> QED BY <1>3 DEF SharesFor, Minimum

LEMMA AddInv ==
    ASSUME IInv, NEW p \in Players, NEW x \in Amounts, NEW y \in Amounts,
           AddLiquidity(p, x, y)
    PROVE  IInv'
<1> DEFINE minted == SharesFor(x, y)
<1>1. x \in Nat /\ y \in Nat BY LiquidityAssumption, ChipsAssumption
<1>2. /\ CanDeposit(p, x, y) /\ totalShares # 0 /\ minted # 0
      /\ Deposit(p, x, y, minted, 0)
  BY DEF AddLiquidity
<1>3. TypeOK /\ reserveRng > 0 /\ reserveVusdt > 0
  BY <1>2 DEF IInv, PoolNeverDrained
<1>4. minted \in Nat BY <1>1, <1>3, SharesForType
<1> HIDE DEF minted
<1>5. minted > 0 /\ 0 \in Nat BY <1>2, <1>4
<1>6. 0 = IF totalShares = 0 THEN MinimumLiquidity ELSE 0 BY <1>2
<1> QED BY <1>2, <1>4, <1>5, <1>6, DepositInv

\* A withdrawal of less than all shares leaves a part of each reserve.
LEMMA WithdrawalIsPart ==
    ASSUME NEW s \in Nat, NEW r \in Nat, NEW t \in Nat, s < t, r > 0
    PROVE  (s * r) \div t \in Nat /\ (s * r) \div t < r
<1>1. s * r \in Nat /\ s * r < t * r
  <2>1. t = s + (t - s) /\ t - s \in Nat /\ t - s > 0 OBVIOUS
  <2>2. (t - s) * r > 0 /\ s * r \in Nat BY <2>1, ProductPositive
  <2>3. t * r = s * r + (t - s) * r BY <2>1
  <2> QED BY <2>2, <2>3
<1> QED BY <1>1, DivBounds, DivLess

LEMMA RemoveInv ==
    ASSUME IInv, NEW p \in Players, NEW s \in Amounts, RemoveLiquidity(p, s)
    PROVE  IInv'
<1> USE DEF IInv, RemoveLiquidity, vault, house
<1> DEFINE x == (s * reserveRng) \div totalShares
           y == (s * reserveVusdt) \div totalShares
<1>1. /\ s \in Nat /\ s <= lp[p] /\ totalShares \in Nat /\ totalShares # 0
      /\ reserveRng \in Nat /\ reserveRng > 0 /\ reserveVusdt \in Nat /\ reserveVusdt > 0
      /\ MinimumLiquidity \in Nat /\ MinimumLiquidity > 0
  BY LiquidityAssumption, ChipsAssumption DEF TypeOK, PoolNeverDrained
<1>2. /\ lp' \in Ledgers /\ Total(lp') = Total(lp) - s /\ Total(lp') \in Nat
  BY <1>1, LedgerSub DEF TypeOK
<1>3. s < totalShares BY <1>1, <1>2, Sums DEF SharesAreOwned
<1>4. /\ x \in Nat /\ x < reserveRng /\ y \in Nat /\ y < reserveVusdt
  BY <1>1, <1>3, WithdrawalIsPart
<1>5. /\ reserveRng' = reserveRng - x /\ reserveVusdt' = reserveVusdt - y
      /\ chips' = Add(chips, p, x) /\ vusdt' = Add(vusdt, p, y)
  OBVIOUS
<1> HIDE DEF x, y
<1>6. chips' \in Ledgers /\ Total(chips') = Total(chips) + x
  BY <1>4, <1>5, LedgerAdd DEF TypeOK
<1>7. vusdt' \in Ledgers /\ Total(vusdt') = Total(vusdt) + y
  BY <1>4, <1>5, LedgerAdd DEF TypeOK
<1>8. TypeOK' BY <1>1, <1>2, <1>3, <1>4, <1>5, <1>6, <1>7 DEF TypeOK
<1>9. RngConserved' BY <1>1, <1>4, <1>5, <1>6, Sums DEF RngConserved, TypeOK
<1>10. VusdtIsOwed' BY <1>1, <1>4, <1>5, <1>7, Sums DEF VusdtIsOwed, TypeOK
<1>11. SharesAreOwned' BY <1>1, <1>2, <1>3, Sums DEF SharesAreOwned
<1>12. PoolNeverDrained' BY <1>1, <1>3, <1>4, <1>5 DEF PoolNeverDrained
<1>13. StrangersHaveNoCollateral' BY DEF StrangersHaveNoCollateral
<1> QED BY <1>8, <1>9, <1>10, <1>11, <1>12, <1>13

LEMMA NextInv == IInv /\ [Next]_vars => IInv'
<1> SUFFICES ASSUME IInv, [Next]_vars PROVE IInv' OBVIOUS
<1>1. CASE UNCHANGED vars
  BY <1>1 DEF IInv, vars, TypeOK, RngConserved, VusdtIsOwed, SharesAreOwned,
              PoolNeverDrained, StrangersHaveNoCollateral
<1>2. CASE Next
  <2>1. PICK p \in Players :
          \/ CasinoRegister(p)
          \/ CreateVault(p)
          \/ \E a \in Amounts : \/ DepositCollateral(p, a)
                                \/ BorrowUsdt(p, a)
                                \/ RepayUsdt(p, a)
                                \/ RemoveLiquidity(p, a)
          \/ \E a, b \in Amounts : \/ SwapBuy(p, a, b)
                                   \/ SwapSell(p, a, b)
                                   \/ SwapSellRefused(p, a, b)
                                   \/ AddFirstLiquidity(p, a, b)
                                   \/ AddLiquidity(p, a, b)
    BY <1>2, Zenon DEF Next
  <2>2. CASE CasinoRegister(p) \/ CreateVault(p)
    BY <2>2, RegisterInv, CreateVaultInv
  <2>3. ASSUME NEW a \in Amounts,
               DepositCollateral(p, a) \/ BorrowUsdt(p, a) \/ RepayUsdt(p, a)
                 \/ RemoveLiquidity(p, a)
        PROVE  IInv'
    BY <2>3, DepositCollateralInv, BorrowInv, RepayInv, RemoveInv
  <2>4. ASSUME NEW a \in Amounts, NEW b \in Amounts,
               SwapBuy(p, a, b) \/ SwapSell(p, a, b) \/ SwapSellRefused(p, a, b)
                 \/ AddFirstLiquidity(p, a, b) \/ AddLiquidity(p, a, b)
        PROVE  IInv'
    BY <2>4, SwapBuyInv, SwapSellInv, SwapSellRefusedInv, AddFirstInv, AddInv
  <2> QED BY <2>1, <2>2, <2>3, <2>4
<1> QED BY <1>1, <1>2

LEMMA Invariance == Spec => []IInv
<1>1. Init => IInv BY InitInv
<1>2. IInv /\ [Next]_vars => IInv' BY NextInv
<1> QED BY <1>1, <1>2, PTL DEF Spec

\* Vault and pool instructions neither make nor lose RNG.
THEOREM RngIsConserved == Spec => []RngConserved
<1>1. IInv => RngConserved BY DEF IInv
<1> QED BY <1>1, Invariance, PTL

\* All vUSDT in circulation or in the pool is owed by some vault.
THEOREM VusdtIsAlwaysOwed == Spec => []VusdtIsOwed
<1>1. IInv => VusdtIsOwed BY DEF IInv
<1> QED BY <1>1, Invariance, PTL

\* The pool's shares are those of the providers and the locked ones.
THEOREM SharesAreAlwaysOwned == Spec => []SharesAreOwned
<1>1. IInv => SharesAreOwned BY DEF IInv
<1> QED BY <1>1, Invariance, PTL

\* Once it has shares the pool is never drained, by swaps or withdrawals.
THEOREM PoolIsNeverDrained == Spec => []PoolNeverDrained
<1>1. IInv => PoolNeverDrained BY DEF IInv
<1> QED BY <1>1, Invariance, PTL

----------------------------------------------------------------------------
(***************************************************************************)
(* A provider's share of the pool keeps its value.  Deposits and           *)
(* withdrawals round each reserve per share in favour of those who stay; a *)
(* swap rounds its quote down, so the product of the reserves grows.       *)
(***************************************************************************)
\* From each reserve per share to their product.
LEMMA ValuePerShare ==
    ASSUME NEW r \in Nat, NEW v \in Nat, NEW t \in Nat,
           NEW r1 \in Nat, NEW v1 \in Nat, NEW t1 \in Nat,
           r1 * t >= r * t1, v1 * t >= v * t1
    PROVE  r1 * v1 * t * t >= r * v * t1 * t1
<1>1. /\ r1 * t \in Nat /\ r * t1 \in Nat /\ v1 * t \in Nat /\ v * t1 \in Nat
  BY ProductPositive
<1>2. (r1 * t) * (v1 * t) >= (r * t1) * (v * t1) BY <1>1, Monotone
<1>3. (r1 * t) * (v1 * t) = r1 * v1 * t * t OBVIOUS
<1>4. (r * t1) * (v * t1) = r * v * t1 * t1 OBVIOUS
<1> QED BY <1>2, <1>3, <1>4

\* A swap does not lower the product of the reserves.
LEMMA SwapKeepsProduct ==
    ASSUME NEW n \in Nat, NEW in \in Nat, NEW out \in Nat, in > 0, out > 0
    PROVE  (in + n) * (out - AmountOut(n, in, out)) >= in * out
<1> DEFINE net == n - Fee(n)
           o == AmountOut(n, in, out)
           B == BasisPoints
<1>1. net \in Nat /\ net <= n BY FeeIsPart
<1>2. B \in Nat /\ B > 0 BY LiquidityAssumption, ChipsAssumption
<1>3. o \in Nat /\ o < out BY AmountOutIsPart
<1>4. o = (net * B * out) \div (in * B + net * B) BY DEF AmountOut
<1> HIDE DEF net, o, B
<1>5. (in + net) * o <= net * out
  <2>1. net * B * out = B * (net * out) /\ in * B + net * B = B * (in + net)
    BY <1>1, <1>2
  <2>2. net * out \in Nat /\ in + net \in Nat /\ in + net > 0
    BY <1>1, ProductPositive
  <2>3. B * (net * out) \in Nat /\ B * (in + net) \in Nat /\ B * (in + net) > 0
    BY <1>2, <2>2, ProductPositive
  <2>4. (B * (in + net)) * o <= B * (net * out)
    BY <1>4, <2>1, <2>3, DivBounds
  <2>5. (B * (in + net)) * o = B * ((in + net) * o) BY <1>2, <1>3, <2>2
  <2>6. (in + net) * o \in Nat BY <1>3, <2>2, ProductPositive
  <2> QED BY <1>2, <2>2, <2>4, <2>5, <2>6, Cancel
<1>6. out - o \in Nat BY <1>3
<1>7. (in + net) * (out - o) >= in * out
  <2>1. (in + net) * (out - o) = in * out + net * out - (in + net) * o BY <1>1, <1>3
  <2>2. /\ in * out \in Nat /\ net * out \in Nat /\ (in + net) * o \in Nat
    BY <1>1, <1>3, ProductPositive
  <2> QED BY <1>5, <2>1, <2>2
<1>8. (in + n) * (out - o) >= (in + net) * (out - o)
  BY <1>1, <1>6, Monotone
<1>9. /\ (in + n) * (out - o) \in Nat /\ (in + net) * (out - o) \in Nat /\ in * out \in Nat
  BY <1>1, <1>6, ProductPositive
<1>10. (in + n) * (out - o) >= in * out BY <1>7, <1>8, <1>9
<1> QED BY <1>10 DEF o

KeepsValue ==
    totalShares # 0 =>
       reserveRng' * reserveVusdt' * totalShares * totalShares
         >= reserveRng * reserveVusdt * totalShares' * totalShares'

LEMMA PoolUntouched ==
    ASSUME TypeOK, UNCHANGED <<reserveRng, reserveVusdt, totalShares>>
    PROVE  KeepsValue
<1>1. \A x \in Nat : x >= x OBVIOUS
<1>2. reserveRng * reserveVusdt * totalShares * totalShares \in Nat
  BY ProductPositive DEF TypeOK
<1> QED BY <1>1, <1>2 DEF KeepsValue

\* The same shares and a product that does not fall.
LEMMA ProductGrows ==
    ASSUME TypeOK, TypeOK', totalShares' = totalShares,
           reserveRng' * reserveVusdt' >= reserveRng * reserveVusdt
    PROVE  KeepsValue
<1> DEFINE k1 == reserveRng' * reserveVusdt'
           k == reserveRng * reserveVusdt
           t == totalShares
<1>1. k1 \in Nat /\ k \in Nat /\ t \in Nat BY ProductPositive DEF TypeOK
<1>2. k1 >= k OBVIOUS
<1>3. KeepsValue <=> (t # 0 => k1 * t * t >= k * t * t) BY DEF KeepsValue
<1> HIDE DEF k1, k, t
<1>4. k1 * t >= k * t /\ k1 * t \in Nat /\ k * t \in Nat
  BY <1>1, <1>2, Monotone, ProductPositive
<1>5. k1 * t * t >= k * t * t BY <1>1, <1>4, Monotone
<1> QED BY <1>3, <1>5

LEMMA SwapKeepsValue ==
    ASSUME IInv, IInv', NEW p \in Players, NEW n \in Amounts, NEW m \in Amounts,
           SwapBuy(p, n, m) \/ SwapSell(p, n, m)
    PROVE  KeepsValue
<1>1. /\ n \in Nat /\ TypeOK /\ TypeOK'
      /\ reserveRng \in Nat /\ reserveVusdt \in Nat
  BY LiquidityAssumption, ChipsAssumption DEF IInv, TypeOK
<1>2. reserveRng > 0 /\ reserveVusdt > 0
  BY <1>1 DEF SwapBuy, SwapSell, HasLiquidity
<1>3. CASE SwapBuy(p, n, m)
  <2> DEFINE out == AmountOut(n, reserveVusdt, reserveRng)
  <2>1. /\ totalShares' = totalShares /\ reserveVusdt' = reserveVusdt + n
        /\ reserveRng' = reserveRng - out
    BY <1>3 DEF SwapBuy
  <2>2. (reserveVusdt + n) * (reserveRng - out) >= reserveVusdt * reserveRng
    BY <1>1, <1>2, SwapKeepsProduct
  <2>3. out \in Nat BY <1>1, <1>2, AmountOutIsPart
  <2> HIDE DEF out
  <2>4. reserveRng' * reserveVusdt' >= reserveRng * reserveVusdt
    <3>1. \A x, y \in Int : x * y = y * x OBVIOUS
    <3> QED BY <1>1, <2>1, <2>2, <2>3, <3>1
  <2> QED BY <1>1, <2>1, <2>4, ProductGrows
<1>4. CASE SwapSell(p, n, m)
  <2> DEFINE net == n - Tax(n)
             out == AmountOut(net, reserveRng, reserveVusdt)
  <2>1. net \in Nat BY <1>1, FeeIsPart
  <2>2. /\ totalShares' = totalShares /\ reserveRng' = reserveRng + net
        /\ reserveVusdt' = reserveVusdt - out
    BY <1>4 DEF SwapSell
  <2> HIDE DEF net
  <2>3. (reserveRng + net) * (reserveVusdt - out) >= reserveRng * reserveVusdt
    BY <1>1, <1>2, <2>1, SwapKeepsProduct
  <2>4. reserveRng' * reserveVusdt' >= reserveRng * reserveVusdt BY <2>2, <2>3
  <2> QED BY <1>1, <2>2, <2>4, ProductGrows
<1> QED BY <1>3, <1>4

\* Shares for a deposit are rounded down against both reserves.
LEMMA AddKeepsValue ==
    ASSUME IInv, IInv', NEW p \in Players, NEW x \in Amounts, NEW y \in Amounts,
           AddLiquidity(p, x, y)
    PROVE  KeepsValue
<1> DEFINE s == SharesFor(x, y)
           R == reserveRng
           V == reserveVusdt
           T == totalShares
<1>1. x \in Nat /\ y \in Nat /\ R \in Nat /\ V \in Nat /\ T \in Nat
  BY LiquidityAssumption, ChipsAssumption DEF IInv, TypeOK
<1>2. R > 0 /\ V > 0 BY <1>1 DEF AddLiquidity, HasLiquidity
<1>3. s \in Nat BY <1>1, <1>2, SharesForType DEF IInv
<1>4. reserveRng' = R + x /\ reserveVusdt' = V + y /\ totalShares' = T + s
  BY <1>1, <1>3 DEF AddLiquidity, Deposit
<1>5. s * R <= x * T /\ s * V <= y * T
  <2> DEFINE a == (x * T) \div R
             b == (y * T) \div V
  <2>1. x * T \in Nat /\ y * T \in Nat BY <1>1, ProductPositive
  <2>2. a \in Nat /\ R * a <= x * T /\ b \in Nat /\ V * b <= y * T
    BY <1>1, <1>2, <2>1, DivBounds
  <2>3. s <= a /\ s <= b BY <2>2 DEF SharesFor, Minimum
  <2> HIDE DEF a, b, s
  <2>4. R * s <= R * a /\ V * s <= V * b BY <1>1, <1>3, <2>2, <2>3, Monotone
  <2>5. R * s = s * R /\ V * s = s * V BY <1>1, <1>3
  <2>6. R * s \in Nat /\ R * a \in Nat /\ V * s \in Nat /\ V * b \in Nat
    BY <1>1, <1>3, <2>2, ProductPositive
  <2> QED BY <2>1, <2>2, <2>4, <2>5, <2>6
<1> HIDE DEF s, R, V, T
<1>6. (R + x) * T >= R * (T + s) /\ (V + y) * T >= V * (T + s)
  <2>1. (R + x) * T = R * T + x * T /\ R * (T + s) = R * T + s * R BY <1>1, <1>3
  <2>2. (V + y) * T = V * T + y * T /\ V * (T + s) = V * T + s * V BY <1>1, <1>3
  <2>3. /\ R * T \in Nat /\ V * T \in Nat /\ x * T \in Nat /\ y * T \in Nat
        /\ s * R \in Nat /\ s * V \in Nat
    BY <1>1, <1>3, ProductPositive
  <2> QED BY <1>5, <2>1, <2>2, <2>3
<1>7. R + x \in Nat /\ V + y \in Nat /\ T + s \in Nat BY <1>1, <1>3
<1>8. (R + x) * (V + y) * T * T >= R * V * (T + s) * (T + s)
  BY <1>1, <1>6, <1>7, ValuePerShare
<1> QED BY <1>4, <1>8 DEF KeepsValue, R, V, T

\* What a withdrawal takes is rounded down from both reserves.
LEMMA RemoveKeepsValue ==
    ASSUME IInv, IInv', NEW p \in Players, NEW s \in Amounts, RemoveLiquidity(p, s)
    PROVE  KeepsValue
<1> DEFINE R == reserveRng
           V == reserveVusdt
           T == totalShares
           x == (s * R) \div T
           y == (s * V) \div T
<1>1. /\ s \in Nat /\ R \in Nat /\ V \in Nat /\ T \in Nat /\ T > 0 /\ s <= T
      /\ reserveRng' \in Nat /\ reserveVusdt' \in Nat
  BY LiquidityAssumption, ChipsAssumption DEF IInv, TypeOK, RemoveLiquidity
<1>2. reserveRng' = R - x /\ reserveVusdt' = V - y /\ totalShares' = T - s
  BY DEF RemoveLiquidity
<1>3. x \in Nat /\ T * x <= s * R /\ y \in Nat /\ T * y <= s * V
  <2>1. s * R \in Nat /\ s * V \in Nat BY <1>1, ProductPositive
  <2> QED BY <1>1, <2>1, DivBounds
<1>4. R - x \in Nat /\ V - y \in Nat /\ T - s \in Nat BY <1>1, <1>2
<1> HIDE DEF x, y, R, V, T
<1>5. (R - x) * T >= R * (T - s) /\ (V - y) * T >= V * (T - s)
  <2>1. (R - x) * T = R * T - T * x /\ R * (T - s) = R * T - s * R BY <1>1, <1>3
  <2>2. (V - y) * T = V * T - T * y /\ V * (T - s) = V * T - s * V BY <1>1, <1>3
  <2>3. /\ R * T \in Nat /\ V * T \in Nat /\ T * x \in Nat /\ T * y \in Nat
        /\ s * R \in Nat /\ s * V \in Nat
    BY <1>1, <1>3, ProductPositive
  <2> QED BY <1>3, <2>1, <2>2, <2>3
<1>6. (R - x) * (V - y) * T * T >= R * V * (T - s) * (T - s)
  BY <1>1, <1>4, <1>5, ValuePerShare
<1> QED BY <1>2, <1>6 DEF KeepsValue, R, V, T

\* No step of anyone takes value from the other providers of liquidity.
THEOREM SharesAlwaysKeepTheirValue == Spec => SharesKeepTheirValue
<1>1. ASSUME IInv, IInv', [Next]_vars PROVE [KeepsValue]_vars
  <2>1. TypeOK BY <1>1 DEF IInv
  <2>2. CASE UNCHANGED vars BY <2>2
  <2>3. ASSUME NEW p \in Players, CasinoRegister(p) \/ CreateVault(p) PROVE KeepsValue
    BY <2>1, <2>3, PoolUntouched DEF CasinoRegister, CreateVault, amm
  <2>4. ASSUME NEW p \in Players, NEW a \in Amounts,
               DepositCollateral(p, a) \/ BorrowUsdt(p, a) \/ RepayUsdt(p, a)
        PROVE  KeepsValue
    BY <2>1, <2>4, PoolUntouched DEF DepositCollateral, BorrowUsdt, RepayUsdt, amm
  <2>5. ASSUME NEW p \in Players, NEW a \in Amounts, NEW b \in Amounts,
               SwapSellRefused(p, a, b)
        PROVE  KeepsValue
    BY <2>1, <2>5, PoolUntouched DEF SwapSellRefused, amm
  <2>6. ASSUME NEW p \in Players, NEW a \in Amounts, NEW b \in Amounts,
               AddFirstLiquidity(p, a, b)
        PROVE  KeepsValue
    BY <2>6 DEF AddFirstLiquidity, KeepsValue
  <2>7. CASE Next
    BY <1>1, <2>3, <2>4, <2>5, <2>6, <2>7, SwapKeepsValue, AddKeepsValue, RemoveKeepsValue
       DEF Next
  <2> QED BY <1>1, <2>2, <2>7
<1>2. [][KeepsValue]_vars => SharesKeepTheirValue
  BY PTL DEF KeepsValue, SharesKeepTheirValue
<1> QED BY <1>1, <1>2, Invariance, PTL DEF Spec

(***************************************************************************)
(* Staking.                                                                *)
(***************************************************************************)
\* The total that the house keeps must equal the sum of the stakes for its
\* saturating subtraction to be a subtraction; that epochs are only counted on
\* a stored House is needed when storing one sets the start of its first epoch.
NoHouseNoEpoch == houseExists \/ epoch = 0

StakingInv ==
    /\ StakingTypeOK
    /\ StakedIsOwned
    /\ ChipsConserved
    /\ EpochsDoNotOverlap
    /\ NoHouseNoEpoch

LEMMA LedgerTotal ==
    ASSUME NEW f \in Ledgers
    PROVE  Total(f) \in Nat
BY PlayersFinite, TotalType, Zenon DEF Ledgers

LEMMA StakingInitInv == StakingInit => StakingInv
<1> SUFFICES ASSUME StakingInit PROVE StakingInv OBVIOUS
<1>1. InitialChips \in Nat /\ MaxView \in Nat \ {0} /\ MaxPnl \in Nat /\ EpochLength \in Nat
  BY StakingAssumption, ChipsAssumption
<1>2. StakingTypeOK
  <2>1. chips \in Ledgers /\ balance \in Ledgers /\ unlock \in Ledgers /\ power \in Ledgers
    BY <1>1 DEF StakingInit, Ledgers
  <2>2. 1 \in 1 .. MaxView /\ 0 \in 0 .. 1 /\ 0 \in -MaxPnl .. MaxPnl BY <1>1
  <2> QED BY <2>1, <2>2 DEF StakingInit, StakingTypeOK
<1>3. Total(balance) = 0 BY TotalEmpty, Zenon DEF StakingInit
<1>4. Total(chips) = InitialChips * Cardinality(Players)
  <2>1. Coins(chips) = Players \X (1 .. InitialChips)
    <3>1. chips = [p \in Players |-> InitialChips] BY DEF StakingInit
    <3> QED BY <3>1 DEF Coins
  <2>2. \A a, b \in Int : /\ IsFiniteSet(a .. b)
                          /\ Cardinality(a .. b) = IF a > b THEN 0 ELSE b - a + 1
    BY FS_Interval, Zenon
  <2>3. IsFiniteSet(1 .. InitialChips) /\ Cardinality(1 .. InitialChips) = InitialChips
    BY <1>1, <2>2
  <2>4. Cardinality(Players \X (1 .. InitialChips))
          = Cardinality(Players) * Cardinality(1 .. InitialChips)
    BY <2>3, PlayersFinite, FS_Product, Zenon
  <2>5. Cardinality(Players) \in Nat BY PlayersFinite, FS_CardinalityType, Zenon
  <2>6. Cardinality(Players) * InitialChips = InitialChips * Cardinality(Players)
    BY <1>1, <2>5
  <2> QED BY <2>1, <2>3, <2>4, <2>6 DEF Total
<1>5. StakedIsOwned BY <1>3 DEF StakingInit, StakedIsOwned
<1>6. ChipsConserved
  <2>1. Total(chips) \in Nat BY <1>2, LedgerTotal DEF StakingTypeOK
  <2> QED BY <1>3, <1>4, <2>1 DEF ChipsConserved
<1>7. EpochsDoNotOverlap BY <1>1 DEF StakingInit, EpochsDoNotOverlap
<1>8. NoHouseNoEpoch BY DEF StakingInit, NoHouseNoEpoch
<1> QED BY <1>2, <1>5, <1>6, <1>7, <1>8 DEF StakingInv

\* Writing the House back never moves an epoch that has begun.
LEMMA TouchHouseInv ==
    ASSUME StakingInv, TouchHouse, view' = view
    PROVE  /\ EpochsDoNotOverlap'
           /\ houseExists' \in BOOLEAN /\ epoch' \in Nat
           /\ epochStart' \in 0 .. view' /\ founded' \in 0 .. view'
           /\ NoHouseNoEpoch'
<1>1. epoch \in Nat /\ EpochLength \in Nat /\ view \in Nat /\ view >= 1
  BY StakingAssumption, ChipsAssumption DEF StakingInv, StakingTypeOK
<1>2. CASE houseExists
  BY <1>2 DEF StakingInv, StakingTypeOK, TouchHouse, EpochsDoNotOverlap, NoHouseNoEpoch
<1>3. CASE ~houseExists
  <2>1. epoch = 0 BY <1>3 DEF StakingInv, NoHouseNoEpoch
  <2>2. /\ epoch' = 0 /\ epochStart' = view /\ founded' = view /\ houseExists' = TRUE
    BY <1>3, <2>1 DEF TouchHouse
  <2>3. 0 * EpochLength = 0 BY <1>1
  <2> QED BY <1>1, <2>2, <2>3 DEF EpochsDoNotOverlap, NoHouseNoEpoch
<1> QED BY <1>2, <1>3 DEF StakingInv, StakingTypeOK

LEMMA StakeInv ==
    ASSUME StakingInv, NEW p \in Players, NEW n \in Amounts, NEW d \in Durations, Stake(p, n, d)
    PROVE  StakingInv'
<1> USE DEF StakingInv, Stake
<1>1. /\ n \in Nat /\ d \in Nat /\ n <= chips[p] /\ view \in Nat
      /\ balance[p] \in Nat /\ totalStaked \in Nat /\ totalPower \in Nat
  BY StakingAssumption, ChipsAssumption DEF StakingTypeOK, Ledgers
<1>2. chips' \in Ledgers /\ Total(chips') = Total(chips) - n
  BY <1>1, LedgerSub DEF StakingTypeOK
<1>3. balance' \in Ledgers /\ Total(balance') = Total(balance) + n
  BY <1>1, LedgerAdd DEF StakingTypeOK
<1>4. Total(chips) \in Nat /\ Total(balance) \in Nat BY LedgerTotal DEF StakingTypeOK
<1>5. n * d \in Nat /\ (balance[p] + n) * d \in Nat
  <2>1. \A x, y \in Nat : x * y \in Nat OBVIOUS
  <2> QED BY <1>1, <2>1
<1>6. StakingTypeOK'
  <2>1. unlock' \in Ledgers /\ power' \in Ledgers BY <1>1, <1>5 DEF StakingTypeOK, Ledgers
  <2>2. totalStaked' \in Nat /\ totalPower' \in Nat BY <1>1, <1>5
  <2> QED BY <1>2, <1>3, <2>1, <2>2, TouchHouseInv DEF StakingTypeOK
<1>7. StakedIsOwned' BY <1>1, <1>3, <1>4 DEF StakedIsOwned
<1>8. ChipsConserved' BY <1>1, <1>2, <1>3, <1>4 DEF ChipsConserved
<1> QED BY <1>6, <1>7, <1>8, TouchHouseInv

LEMMA UnstakeInv ==
    ASSUME StakingInv, NEW p \in Players, Unstake(p)
    PROVE  StakingInv'
<1> USE DEF StakingInv, Unstake
<1> DEFINE n == balance[p]
<1>1. /\ n \in Nat /\ power[p] \in Nat /\ totalStaked \in Nat /\ totalPower \in Nat
  BY DEF StakingTypeOK, Ledgers
<1>2. balance' = Sub(balance, p, n)
  <2>1. n - n = 0 BY <1>1
  <2> QED BY <2>1 DEF Sub
<1>3. chips' \in Ledgers /\ Total(chips') = Total(chips) + n
  BY <1>1, LedgerAdd DEF StakingTypeOK
<1> HIDE DEF n
<1>4. /\ balance' \in Ledgers /\ Total(balance') = Total(balance) - n
      /\ Total(balance') \in Nat
  <2>1. balance \in Ledgers /\ n <= balance[p] BY <1>1 DEF StakingTypeOK, n
  <2> HIDE DEF Unstake
  <2> QED BY <1>1, <1>2, <2>1, LedgerSub
<1>5. Total(chips) \in Nat /\ Total(balance) \in Nat BY LedgerTotal DEF StakingTypeOK
<1>6. totalStaked' = totalStaked - n
  <2>1. totalStaked' = SaturatingSub(totalStaked, n) BY DEF n
  <2>2. n <= totalStaked BY <1>1, <1>4, <1>5 DEF StakedIsOwned
  <2> QED BY <2>1, <2>2 DEF SaturatingSub
<1>7. StakingTypeOK'
  <2>1. power' \in Ledgers BY DEF StakingTypeOK, Ledgers
  <2>2. totalPower' \in Nat BY <1>1 DEF SaturatingSub
  <2>3. totalStaked' \in Nat BY <1>1, <1>4, <1>5, <1>6 DEF StakedIsOwned
  <2> QED BY <1>3, <1>4, <2>1, <2>2, <2>3, TouchHouseInv DEF StakingTypeOK
<1>8. StakedIsOwned' BY <1>4, <1>6 DEF StakedIsOwned
<1>9. ChipsConserved' BY <1>1, <1>3, <1>4, <1>5 DEF ChipsConserved
<1> QED BY <1>7, <1>8, <1>9, TouchHouseInv

LEMMA ProcessEpochInv ==
    ASSUME StakingInv, ProcessEpoch
    PROVE  StakingInv'
<1> USE DEF StakingInv, ProcessEpoch, staker, totals
<1>1. /\ epoch \in Nat /\ EpochLength \in Nat /\ view \in Nat /\ epochStart \in Nat
      /\ founded \in Nat /\ MaxPnl \in Nat
  BY StakingAssumption, ChipsAssumption DEF StakingTypeOK
<1>2. StakingTypeOK' BY <1>1 DEF StakingTypeOK
<1>3. EpochsDoNotOverlap'
  <2>1. (epoch + 1) * EpochLength = epoch * EpochLength + EpochLength BY <1>1
  <2>2. epoch * EpochLength \in Nat
    <3>1. \A x, y \in Nat : x * y \in Nat OBVIOUS
    <3> QED BY <1>1, <3>1
  <2> QED BY <1>1, <2>1, <2>2 DEF EpochsDoNotOverlap
<1>4. StakedIsOwned' /\ ChipsConserved' BY DEF StakedIsOwned, ChipsConserved
<1>5. NoHouseNoEpoch' BY DEF NoHouseNoEpoch
<1> QED BY <1>2, <1>3, <1>4, <1>5

LEMMA StakingNextInv == StakingInv /\ [StakingNext]_stakingVars => StakingInv'
<1> SUFFICES ASSUME StakingInv, [StakingNext]_stakingVars PROVE StakingInv' OBVIOUS
<1>1. CASE UNCHANGED stakingVars
  BY <1>1 DEF stakingVars, StakingInv, StakingTypeOK, StakedIsOwned, ChipsConserved, EpochsDoNotOverlap,
              NoHouseNoEpoch
<1>2. ASSUME NEW v \in 1 .. MaxView, NextView(v) PROVE StakingInv'
  <2>1. StakingTypeOK' BY <1>2, StakingAssumption, ChipsAssumption DEF StakingInv, StakingTypeOK, NextView, staker, totals, epochs
  <2> QED BY <1>2, <2>1 DEF StakingInv, NextView, staker, totals, epochs, StakedIsOwned,
                            ChipsConserved, EpochsDoNotOverlap, NoHouseNoEpoch
<1>3. ASSUME NEW n \in {-1, 1}, UpdateHousePnl(n) PROVE StakingInv'
  <2>1. view' = view /\ TouchHouse BY <1>3 DEF UpdateHousePnl
  <2>2. StakingTypeOK' BY <1>3, <2>1, TouchHouseInv DEF StakingInv, StakingTypeOK, UpdateHousePnl, staker, totals
  <2>3. StakedIsOwned' /\ ChipsConserved'
    BY <1>3 DEF StakingInv, UpdateHousePnl, staker, totals, StakedIsOwned, ChipsConserved
  <2> QED BY <2>1, <2>2, <2>3, TouchHouseInv DEF StakingInv
<1> QED
  BY <1>1, <1>2, <1>3, StakeInv, UnstakeInv, ProcessEpochInv DEF StakingNext

LEMMA StakingInvariance == StakingSpec => []StakingInv
<1>1. StakingInit => StakingInv BY StakingInitInv
<1>2. StakingInv /\ [StakingNext]_stakingVars => StakingInv' BY StakingNextInv
<1> QED BY <1>1, <1>2, PTL DEF StakingSpec

\* The house's total is the sum of the stakes, in any order of operations.
THEOREM StakedIsAlwaysOwned == StakingSpec => []StakedIsOwned
<1>1. StakingInv => StakedIsOwned BY DEF StakingInv
<1> QED BY <1>1, StakingInvariance, PTL

\* Staking neither makes nor loses chips.
THEOREM ChipsAreConserved == StakingSpec => []ChipsConserved
<1>1. StakingInv => ChipsConserved BY DEF StakingInv
<1> QED BY <1>1, StakingInvariance, PTL

\* Every epoch counted took at least EPOCH_LENGTH views.
THEOREM EpochsNeverOverlap == StakingSpec => []EpochsDoNotOverlap
<1>1. StakingInv => EpochsDoNotOverlap BY DEF StakingInv
<1> QED BY <1>1, StakingInvariance, PTL
----------------------------------------------------------------------------
(***************************************************************************)
(* The games.  A session is a table of one game, so each game has an       *)
(* inductive invariant of its own: what its state looks like, that the     *)
(* books agree with what was charged while the game is open, and what the  *)
(* result that ended it may say.                                           *)
(***************************************************************************)

\* Copies of a card.
LEMMA CopiesType ==
    ASSUME NEW S, NEW cards \in Seq(S), NEW c
    PROVE  /\ IsFiniteSet({i \in DOMAIN cards : cards[i] = c})
           /\ Copies(cards, c) \in Nat
<1>1. Len(cards) \in Nat /\ DOMAIN cards = 1 .. Len(cards) BY LenProperties, Zenon
<1>2. 1 \in Int /\ Len(cards) \in Int BY <1>1
<1>3. IsFiniteSet(DOMAIN cards) BY <1>1, <1>2, FS_Interval, Zenon
<1>4. {i \in DOMAIN cards : cards[i] = c} \in SUBSET DOMAIN cards OBVIOUS
<1>5. IsFiniteSet({i \in DOMAIN cards : cards[i] = c}) BY <1>3, <1>4, FS_Subset, Zenon
<1> QED BY <1>5, FS_CardinalityType, Zenon DEF Copies

\* No card, no copy.
LEMMA CopiesNone ==
    ASSUME NEW c
    PROVE  Copies(<<>>, c) = 0
<1>1. {i \in DOMAIN <<>> : <<>>[i] = c} = {} OBVIOUS
<1> QED BY <1>1, FS_EmptySet, Zenon DEF Copies

\* Cards that come from different places of a shoe are not more than are there.
LEMMA CopiesFrom ==
    ASSUME NEW S, NEW cards \in Seq(S), NEW shoe \in Seq(S), NEW from,
           \A i \in DOMAIN cards : from[i] \in DOMAIN shoe /\ cards[i] = shoe[from[i]],
           \A i, j \in DOMAIN cards : from[i] = from[j] => i = j,
           NEW c
    PROVE  Copies(cards, c) <= Copies(shoe, c)
<1> DEFINE A == {i \in DOMAIN cards : cards[i] = c}
           B == {i \in DOMAIN shoe : shoe[i] = c}
           m == [i \in A |-> from[i]]
<1>1. m \in [A -> B] OBVIOUS
<1>2. \A i, j \in A : m[i] = m[j] => i = j OBVIOUS
<1>3. IsFiniteSet(B)
  <2>1. Len(shoe) \in Nat /\ DOMAIN shoe = 1 .. Len(shoe) BY LenProperties, Zenon
  <2>2. IsFiniteSet(1 .. Len(shoe)) BY <2>1, FS_Interval
  <2>3. B \subseteq DOMAIN shoe OBVIOUS
  <2> HIDE DEF B
  <2> QED BY <2>1, <2>2, <2>3, FS_Subset
<1> HIDE DEF m, A, B
<1>4. m \in Injection(A, B) BY <1>1, <1>2, Zenon DEF Injection, IsInjective
<1>5. Cardinality(A) <= Cardinality(B) BY <1>3, <1>4, FS_Injection, Zenon
<1> QED BY <1>5, Zenon DEF A, B, Copies

\* Cards put together have the copies of both.
LEMMA CopiesConcat ==
    ASSUME NEW S, NEW one \in Seq(S), NEW other \in Seq(S), NEW c
    PROVE  Copies(one \o other, c) = Copies(one, c) + Copies(other, c)
<1> DEFINE n == Len(one)
           all == one \o other
           A == {i \in DOMAIN one : one[i] = c}
           B == {i \in DOMAIN other : other[i] = c}
           C == {i \in DOMAIN all : all[i] = c /\ i > n}
           m == [i \in B |-> n + i]
<1>1. /\ n \in Nat /\ Len(other) \in Nat /\ DOMAIN one = 1 .. n /\ DOMAIN other = 1 .. Len(other)
  BY LenProperties, Zenon
<1>2. /\ all \in Seq(S) /\ Len(all) = n + Len(other)
      /\ \A i \in 1 .. n + Len(other) : all[i] = IF i <= n THEN one[i] ELSE other[i - n]
  BY ConcatProperties
<1>3. DOMAIN all = 1 .. n + Len(other) BY <1>2, LenProperties
<1> HIDE DEF all, n
<1>4. {i \in DOMAIN all : all[i] = c} = A \cup C BY <1>1, <1>2, <1>3
<1>5. A \cap C = {} BY <1>1
<1>6. m \in Bijection(B, C)
  <2>1. \A i \in B : m[i] \in C BY <1>1, <1>2, <1>3
  <2>2. m \in [B -> C] BY <2>1
  <2>3. \A i, j \in B : m[i] = m[j] => i = j BY <1>1
  <2>4. \A k \in C : \E i \in B : m[i] = k
    <3>1. SUFFICES ASSUME NEW k \in C PROVE \E i \in B : m[i] = k OBVIOUS
    <3>2. k - n \in B /\ m[k - n] = k BY <1>1, <1>2, <1>3
    <3> QED BY <3>2
  <2> HIDE DEF m, B, C
  <2> QED BY <2>2, <2>3, <2>4, Zenon DEF Bijection, Injection, Surjection, IsInjective
<1>7. IsFiniteSet(A) /\ IsFiniteSet(B) BY CopiesType, Zenon
<1> HIDE DEF A, B, C, m
<1>8. IsFiniteSet(C) /\ Cardinality(C) = Cardinality(B)
  BY <1>6, <1>7, FS_Bijection, Zenon DEF ExistsBijection
<1>9. Cardinality(A \cup C) = Cardinality(A) + Cardinality(C) - Cardinality(A \cap C)
  BY <1>7, <1>8, FS_Union, Zenon
<1>10. Cardinality(A \cap C) = 0 BY <1>5, FS_EmptySet, Zenon
<1>11. Cardinality(A) \in Nat /\ Cardinality(B) \in Nat BY <1>7, FS_CardinalityType, Zenon
<1>12. Cardinality(A \cup C) = Cardinality(A) + Cardinality(B) BY <1>8, <1>9, <1>10, <1>11
<1> QED BY <1>4, <1>12, Zenon DEF Copies, A, B, all

\* What is dealt is a sequence of n cards, and with what was known before there are
\* not more copies of a card than the shoe has.
LEMMA DealsRespectTheShoe ==
    ASSUME NEW deck, NEW decks \in Nat, NEW known \in [deck -> Nat], NEW n \in Nat,
           \A c \in deck : known[c] <= decks,
           NEW hand \in Deals(deck, decks, known, n)
    PROVE  /\ hand \in Seq(deck) /\ Len(hand) = n /\ DOMAIN hand = 1 .. n
           /\ \A i \in 1 .. n : hand[i] \in deck
           /\ \A c \in deck : known[c] + Copies(hand, c) <= decks
<1>1. hand \in [1 .. n -> deck] BY DEF Deals
<1>2. /\ hand \in Seq(deck) /\ DOMAIN hand = 1 .. n /\ \A i \in 1 .. n : hand[i] \in deck
  BY <1>1, SeqDef
<1>3. Len(hand) = n
  <2>1. Len(hand) \in Nat /\ DOMAIN hand = 1 .. Len(hand) BY <1>2, LenProperties, Zenon
  <2> QED BY <1>2, <2>1
<1>4. ASSUME NEW c \in deck PROVE known[c] + Copies(hand, c) <= decks
  <2> DEFINE A == {i \in 1 .. n : hand[i] = c}
  <2>1. Copies(hand, c) = Cardinality(A) /\ IsFiniteSet(A) BY <1>2, CopiesType DEF Copies
  <2>2. CASE A = {} BY <2>1, <2>2, FS_EmptySet
  <2>3. CASE A # {}
    <3> DEFINE last == Greatest(A)
               before == {j \in 1 .. last - 1 : hand[j] = hand[last]}
    <3>1. A \subseteq Nat /\ \A i \in A : i <= n OBVIOUS
    <3>2. last \in A /\ \A i \in A : i <= last
      <4> HIDE DEF A
      <4> QED BY <2>3, <3>1, GreatestIsGreatest
    <3>3. last \in 1 .. n /\ hand[last] = c BY <3>2
    <3>4. known[c] + Cardinality(before) < decks BY <3>3 DEF Deals
    <3>5. A = before \cup {last} /\ last \notin before BY <3>2, <3>3
    <3>6. IsFiniteSet(before)
      <4>1. before \in SUBSET A BY <3>5
      <4> HIDE DEF before, A
      <4> QED BY <2>1, <4>1, FS_Subset, Zenon
    <3> HIDE DEF before, A, last
    <3>7. Cardinality(before) \in Nat BY <3>6, FS_CardinalityType, Zenon
    <3>8. Cardinality(before \cup {last}) = Cardinality(before) + 1 BY <3>5, <3>6, FS_AddElement, Zenon
    <3>9. Cardinality(A) = Cardinality(before) + 1 BY <3>5, <3>8, Zenon
    <3> QED BY <2>1, <3>4, <3>7, <3>9
  <2> QED BY <2>2, <2>3
<1> QED BY <1>2, <1>3, <1>4

----------------------------------------------------------------------------
(* HiLo and video poker, which charge nothing after the start. *)

HiLoInv ==
    /\ bet \in Nat /\ charged = bet /\ settled = 0
    /\ state \in [card : Cards, pot : Nat, moves : Nat, right : Nat]
    /\ result.kind \notin {"LossPreDeducted", "Credited"}

\* The first card is one of the deck.
LEMMA HiLoInitInv == HiLoInit => HiLoInv /\ game = "HiLo"
BY TableAssumption, HiLoAssumption DEF HiLoInit, Starts, Begins, HiLoInv, Open

\* A guess adds to the pot at most, a cash out ends the game.
LEMMA HiLoNextInv == HiLoInv /\ HiLoNext => HiLoInv' /\ game' = "HiLo"
<1> SUFFICES ASSUME HiLoInv, HiLoNext PROVE HiLoInv' /\ game' = "HiLo" OBVIOUS
<1>1. CASE HiLoCashout
  BY <1>1 DEF HiLoCashout, HiLoInv, IsOpen, Ends, session, HiLoStreak
<1>2. ASSUME NEW higher \in BOOLEAN, HiLoGuess(higher) PROVE HiLoInv' /\ game' = "HiLo"
  <2> DEFINE times == HiLoMultiplier(HiLoRank(state.card), higher)
  <2>1. PICK c \in DeckExcluding(HiLoDeck, {state.card}) :
          \/ Continues([card |-> c, moves |-> state.moves + 2, right |-> state.right + 1,
                        pot |-> (state.pot * times) \div BaseMultiplier])
          \/ Ends([state EXCEPT !.card = c, !.pot = 0, !.moves = state.moves + 2], "Loss", 0)
    BY <1>2 DEF HiLoGuess
  <2>2. game = "HiLo" /\ result = Open BY <1>2 DEF HiLoGuess, IsOpen
  <2>3. c \in Cards BY HiLoAssumption DEF DeckExcluding
  <2>4. times \in Nat
    <3>1. HiLoRank(state.card) \in 1 .. 13 BY DEF HiLoInv, HiLoRank, Cards
    <3>2. 13 * BaseMultiplier \in Nat BY HiLoAssumption
    <3> HIDE DEF Cards
    <3> QED BY <3>1, <3>2, DivBounds DEF HiLoMultiplier
  <2> HIDE DEF times
  <2>5. (state.pot * times) \div BaseMultiplier \in Nat
    <3>1. state.pot * times \in Nat BY <2>4, ProductPositive DEF HiLoInv
    <3> QED BY <3>1, HiLoAssumption, DivBounds
  <2>6. state.moves + 2 \in Nat /\ state.right + 1 \in Nat BY DEF HiLoInv
  <2> HIDE DEF Cards
  <2>7. CASE Continues([card |-> c, moves |-> state.moves + 2, right |-> state.right + 1,
                        pot |-> (state.pot * times) \div BaseMultiplier])
    BY <2>2, <2>3, <2>5, <2>6, <2>7 DEF Continues, Pays, session, HiLoInv, Open
  <2>8. CASE Ends([state EXCEPT !.card = c, !.pot = 0, !.moves = state.moves + 2], "Loss", 0)
    BY <2>2, <2>3, <2>6, <2>8 DEF Ends, session, HiLoInv
  <2> QED BY <2>1, <2>7, <2>8
<1> QED BY <1>1, <1>2 DEF HiLoNext

PokerInv ==
    /\ bet \in Nat /\ charged = bet /\ settled = 0
    /\ state \in [stage : {"Deal", "Draw"}, hand : SUBSET Cards]
    /\ Cardinality(state.hand) = 5
    /\ result.kind \notin {"LossPreDeducted", "Credited"}

\* Five cards are dealt.
LEMMA PokerInitInv == PokerInit => PokerInv /\ game = "VideoPoker"
BY TableAssumption, PokerAssumption DEF PokerInit, Starts, Begins, PokerInv, Open, kSubset

\* As many cards are drawn as are not held.
LEMMA PokerNextInv == PokerInv /\ PokerNext => PokerInv' /\ game' = "VideoPoker"
<1> SUFFICES ASSUME PokerInv, PokerNext PROVE PokerInv' /\ game' = "VideoPoker" OBVIOUS
<1>1. PICK held \in SUBSET state.hand : PokerDraw(held) BY DEF PokerNext
<1>2. PICK drawn \in kSubset(5 - Cardinality(held), DeckExcluding(PokerDeck, state.hand)) :
        /\ state' = [stage |-> "Draw", hand |-> held \cup drawn]
        /\ result'.kind \in {"Win", "Loss"}
        /\ UNCHANGED <<session, charged, settled>>
  BY <1>1 DEF PokerDraw, Ends
<1>3. game = "VideoPoker" BY <1>1 DEF PokerDraw, IsOpen
<1>4. /\ drawn \subseteq Cards /\ held \subseteq Cards /\ held \cap drawn = {}
      /\ Cardinality(drawn) = 5 - Cardinality(held)
  BY <1>2, PokerAssumption DEF PokerInv, kSubset, DeckExcluding
<1>5. Cardinality(held \cup drawn) = 5
  <2>1. IsFiniteSet(Cards)
    <3>1. 0 \in Int /\ 51 \in Int OBVIOUS
    <3> QED BY <3>1, FS_Interval, Zenon DEF Cards
  <2>2. IsFiniteSet(held) /\ IsFiniteSet(drawn) BY <1>4, <2>1, FS_Subset
  <2>3. Cardinality(held) \in Nat BY <2>2, FS_CardinalityType
  <2>4. Cardinality(held \cap drawn) = 0 BY <1>4, FS_EmptySet
  <2>5. Cardinality(held \cup drawn) = Cardinality(held) + Cardinality(drawn) - Cardinality(held \cap drawn)
    BY <2>2, FS_Union, Zenon
  <2> QED BY <1>4, <2>3, <2>4, <2>5
<1>6. held \cup drawn \in SUBSET Cards BY <1>4
<1> QED BY <1>2, <1>3, <1>5, <1>6 DEF PokerInv, session

----------------------------------------------------------------------------
(* Casino War. *)

WarInv ==
    /\ bet \in Nat /\ charged \in Int /\ settled = 0
    /\ state \in [version : {0, 1}, stage : {"Betting", "Initial", "War", "Complete"},
                  cards : Seq(WarDeck), tie : Nat]
    /\ WarReadable(state)
    /\ \A c \in WarDeck : Copies(state.cards, c) <= WarDecks
    /\ result = Open => charged = bet + state.tie
    /\ result.kind \notin {"LossPreDeducted", "Credited"}

\* Two cards from the shoe, whatever was dealt before.
LEMMA WarDeal ==
    ASSUME NEW before \in Seq(WarDeck), \A c \in WarDeck : Copies(before, c) <= WarDecks,
           NEW cards \in Deals(WarDeck, WarDecks, Known(WarDeck, before), 2)
    PROVE  /\ cards \in Seq(WarDeck) /\ Len(cards) = 2
           /\ \A c \in WarDeck : Copies(cards, c) <= WarDecks
<1> DEFINE known == Known(WarDeck, before)
<1>1. \A c \in WarDeck : Copies(before, c) \in Nat BY CopiesType, Zenon
<1>2. known \in [WarDeck -> Nat] /\ \A c \in WarDeck : known[c] = Copies(before, c) BY <1>1 DEF Known
<1>3. 2 \in Nat /\ WarDecks \in Nat BY WarAssumption
<1>4. \A c \in WarDeck : known[c] <= WarDecks BY <1>2
<1>5. cards \in Deals(WarDeck, WarDecks, known, 2) OBVIOUS
<1> HIDE DEF known
<1>6. /\ cards \in Seq(WarDeck) /\ Len(cards) = 2
      /\ \A c \in WarDeck : known[c] + Copies(cards, c) <= WarDecks
  <2>1. /\ cards \in Seq(WarDeck) /\ Len(cards) = 2 /\ DOMAIN cards = 1 .. 2
        /\ \A i \in 1 .. 2 : cards[i] \in WarDeck
        /\ \A c \in WarDeck : known[c] + Copies(cards, c) <= WarDecks
    BY <1>5, <1>2, <1>3, <1>4, DealsRespectTheShoe, Zenon
  <2> QED BY <2>1
<1>7. \A c \in WarDeck : Copies(cards, c) \in Nat BY <1>6, CopiesType
<1>8. \A c \in WarDeck : known[c] \in Nat BY <1>2
<1> QED BY <1>3, <1>6, <1>7, <1>8

\* The first two cards of a shoe.
LEMMA WarFirstDeal ==
    ASSUME NEW cards \in Deals(WarDeck, WarDecks, Known(WarDeck, <<>>), 2)
    PROVE  /\ cards \in Seq(WarDeck) /\ Len(cards) = 2
           /\ \A c \in WarDeck : Copies(cards, c) <= WarDecks
<1>1. <<>> \in Seq(WarDeck) OBVIOUS
<1>2. \A c \in WarDeck : Copies(<<>>, c) <= WarDecks BY CopiesNone, WarAssumption
<1> QED BY <1>1, <1>2, WarDeal, Zenon

\* A session of either version starts with its bet.
LEMMA WarInitInv == WarInit => WarInv /\ game = "CasinoWar"
<1> SUFFICES ASSUME WarInit PROVE WarInv /\ game = "CasinoWar" OBVIOUS
<1>1. PICK b \in Stakes :
        \/ Starts("CasinoWar", b, [version |-> 1, stage |-> "Betting", cards |-> Hidden, tie |-> 0])
        \/ \E cards \in Deals(WarDeck, WarDecks, Known(WarDeck, <<>>), 2) :
             Starts("CasinoWar", b, [version |-> 0, stage |-> "Initial", cards |-> cards, tie |-> 0])
  BY DEF WarInit
<1>2. b \in Nat BY TableAssumption
<1>3. CASE Starts("CasinoWar", b, [version |-> 1, stage |-> "Betting", cards |-> Hidden, tie |-> 0])
  <2>1. \A c \in WarDeck : Copies(<<>>, c) <= WarDecks BY CopiesNone, WarAssumption
  <2> QED BY <1>2, <1>3, <2>1 DEF Starts, Begins, WarInv, WarReadable, Hidden, Open
<1>4. ASSUME NEW cards \in Deals(WarDeck, WarDecks, Known(WarDeck, <<>>), 2),
             Starts("CasinoWar", b, [version |-> 0, stage |-> "Initial", cards |-> cards, tie |-> 0])
      PROVE  WarInv /\ game = "CasinoWar"
  <2>1. /\ cards \in Seq(WarDeck) /\ Len(cards) = 2
        /\ \A c \in WarDeck : Copies(cards, c) <= WarDecks
    BY WarFirstDeal
  <2> QED BY <1>2, <1>4, <2>1 DEF Starts, Begins, WarInv, WarReadable, Open
<1> QED BY <1>1, <1>3, <1>4

\* Two cards are compared: the game ends, or it is a tie.
LEMMA WarCompareInv ==
    ASSUME WarInv, IsOpen("CasinoWar"), NEW cards \in Seq(WarDeck), Len(cards) = 2,
           \A c \in WarDeck : Copies(cards, c) <= WarDecks,
           NEW stage, stage = IF state.version = 1 THEN "Complete" ELSE "Initial",
           WarCompare(cards, stage)
    PROVE  WarInv' /\ game' = "CasinoWar"
<1> DEFINE over == [state EXCEPT !.cards = cards, !.stage = stage]
<1>1. ASSUME NEW s \in {stage, "War"}, state' = [over EXCEPT !.stage = s],
             UNCHANGED <<session, charged>>, settled' = settled,
             result'.kind \in {"Win", "Loss"} \/ result' = result
      PROVE  WarInv' /\ game' = "CasinoWar"
  <2>1. state' = [state EXCEPT !.cards = cards, !.stage = s] BY <1>1 DEF WarInv
  <2>2. /\ WarReadable(state') /\ state'.tie = state.tie /\ state'.cards = cards
        /\ state' \in [version : {0, 1}, stage : {"Betting", "Initial", "War", "Complete"},
                       cards : Seq(WarDeck), tie : Nat]
    BY <1>1, <2>1 DEF WarInv, WarReadable
  <2> QED BY <1>1, <2>2 DEF WarInv, IsOpen, session, Open
<1>2. CASE Ends(over, "Loss", 0)
  <2>1. state' = [over EXCEPT !.stage = stage] BY <1>2 DEF Ends, WarInv
  <2> QED BY <1>1, <1>2, <2>1 DEF Ends
<1>3. ASSUME NEW n, WarWin(over, n) PROVE WarInv' /\ game' = "CasinoWar"
  <2>1. state' = [over EXCEPT !.stage = stage] BY <1>3 DEF WarWin, Ends, WarInv
  <2> QED BY <1>1, <1>3, <2>1 DEF WarWin, Ends
<1>4. ASSUME NEW n, Pays([over EXCEPT !.stage = "War"], 0, n) PROVE WarInv' /\ game' = "CasinoWar"
  BY <1>1, <1>4 DEF Pays, WarInv
<1> HIDE DEF over
<1> QED BY <1>2, <1>3, <1>4 DEF WarCompare, over

\* Every move of Casino War keeps the books.
LEMMA WarNextInv == WarInv /\ WarNext => WarInv' /\ game' = "CasinoWar"
<1> SUFFICES ASSUME WarInv, WarNext PROVE WarInv' /\ game' = "CasinoWar" OBVIOUS
<1>1. ASSUME NEW n \in SideBets, WarSetTieBet(n) PROVE WarInv' /\ game' = "CasinoWar"
  <2>1. n \in Nat BY TableAssumption
  <2>2. /\ state.stage = "Betting" /\ state' = [state EXCEPT !.tie = n]
        /\ charged' = charged + (n - state.tie) /\ UNCHANGED <<session, settled, result>>
        /\ game = "CasinoWar" /\ result = Open
    BY <1>1 DEF WarSetTieBet, Wagers, IsOpen
  <2>3. WarReadable(state') /\ state'.tie = n /\ state'.cards = state.cards
    BY <2>1, <2>2 DEF WarInv, WarReadable
  <2>4. state' \in [version : {0, 1}, stage : {"Betting", "Initial", "War", "Complete"},
                    cards : Seq(WarDeck), tie : Nat]
    BY <2>1, <2>2 DEF WarInv
  <2> QED BY <2>1, <2>2, <2>3, <2>4 DEF WarInv, session
<1>2. CASE WarPlay
  <2>1. IsOpen("CasinoWar") BY <1>2 DEF WarPlay
  <2>2. ASSUME NEW cards \in Deals(WarDeck, WarDecks, Known(WarDeck, <<>>), 2),
               state.stage = "Betting", WarCompare(cards, "Complete")
        PROVE  WarInv' /\ game' = "CasinoWar"
    <3>1. state.version = 1 BY <2>2 DEF WarInv, WarReadable
    <3> QED BY <2>1, <2>2, <3>1, WarFirstDeal, WarCompareInv
  <2>3. CASE state.stage = "Initial" /\ WarCompare(state.cards, "Initial")
    <3>1. state.version = 0 /\ Len(state.cards) = 2 BY <2>3 DEF WarInv, WarReadable
    <3> QED BY <2>1, <2>3, <3>1, WarCompareInv DEF WarInv
  <2> QED BY <1>2, <2>2, <2>3 DEF WarPlay
<1>3. CASE WarSurrender
  BY <1>3 DEF WarSurrender, WarInv, WarReadable, Ends, session, IsOpen, Open
<1>4. CASE WarGoToWar
  <2> SUFFICES ASSUME NEW cards \in Deals(WarDeck, WarDecks, Known(WarDeck, state.cards), 2),
                      NEW kind \in {"Win", "LossWithExtraDeduction"}, NEW n,
                      Ends([state EXCEPT !.cards = cards,
                                         !.stage = IF state.version = 1 THEN "Complete" ELSE "War"],
                           kind, n)
               PROVE  WarInv' /\ game' = "CasinoWar"
    BY <1>4 DEF WarGoToWar, WarWin
  <2>1. /\ state' = [state EXCEPT !.cards = cards,
                                  !.stage = IF state.version = 1 THEN "Complete" ELSE "War"]
        /\ result'.kind = kind /\ UNCHANGED <<session, charged, settled>>
    BY DEF Ends
  <2>2. /\ cards \in Seq(WarDeck) /\ Len(cards) = 2
        /\ \A c \in WarDeck : Copies(cards, c) <= WarDecks
    BY WarDeal DEF WarInv
  <2>3. game = "CasinoWar" /\ state.stage = "War" BY <1>4 DEF WarGoToWar, IsOpen
  <2>4. /\ WarReadable(state') /\ state'.cards = cards
        /\ state' \in [version : {0, 1}, stage : {"Betting", "Initial", "War", "Complete"},
                       cards : Seq(WarDeck), tie : Nat]
    BY <2>1, <2>2, <2>3 DEF WarInv, WarReadable
  <2> QED BY <2>1, <2>2, <2>3, <2>4 DEF WarInv, session, Open
<1> QED BY <1>1, <1>2, <1>3, <1>4 DEF WarNext


----------------------------------------------------------------------------
(* Three Card Poker. *)

ThreeCardStates ==
    [stage : {"Betting", "Decision", "AwaitingReveal", "Complete"},
     player : ThreeCardHands \cup {{}}, dealer : ThreeCardHands \cup {{}},
     pairplus : Nat, six : Nat, progressive : Nat]

ThreeCardSides(s) == s.pairplus + s.six + s.progressive

ThreeCardInv ==
    /\ bet \in Nat /\ charged \in Int /\ settled = 0
    /\ state \in ThreeCardStates
    /\ state.player \cap state.dealer = {}
    /\ result = Open =>
         /\ state.stage # "Complete" /\ state.dealer = {}
         /\ state.stage # "AwaitingReveal" => charged = bet + ThreeCardSides(state)
         /\ state.stage = "AwaitingReveal" => charged = 2 * bet + ThreeCardSides(state)
    /\ result.kind = "LossPreDeducted" => result.amount = charged
    /\ result.kind # "Credited"

\* A hand is not dealt yet, or has three cards.
LEMMA ThreeCardCards ==
    ASSUME NEW hand \in ThreeCardHands \cup {{}}
    PROVE  Cardinality(hand) \in {0, 3}
BY ThreeCardAssumption, FS_EmptySet DEF kSubset

\* A session starts with the ante.
LEMMA ThreeCardInitInv == ThreeCardInit => ThreeCardInv /\ game = "ThreeCard"
BY TableAssumption
DEF ThreeCardInit, Starts, Begins, ThreeCardInv, ThreeCardStates, ThreeCardSides, Open

\* What a showdown or a fold reports as lost is what was charged.
LEMMA ThreeCardSettleInv ==
    ASSUME ThreeCardInv, IsOpen("ThreeCard"), NEW dealer \in ThreeCardDeals(state.player),
           NEW wagered \in Nat, NEW return,
           wagered + ThreeCardSides(state) = charged,
           ThreeCardSettle(dealer, wagered, return)
    PROVE  ThreeCardInv' /\ game' = "ThreeCard"
<1> DEFINE over == [state EXCEPT !.stage = "Complete", !.dealer = dealer]
<1>1. dealer \in ThreeCardHands /\ dealer \cap state.player = {} BY DEF ThreeCardDeals
<1>2. over \in ThreeCardStates /\ over.player \cap over.dealer = {}
  BY <1>1 DEF ThreeCardInv, ThreeCardStates
<1>3. state.pairplus \in Nat /\ state.six \in Nat /\ state.progressive \in Nat
  BY DEF ThreeCardInv, ThreeCardStates
<1>4. \/ Ends(over, "LossPreDeducted", wagered + state.pairplus + state.six + state.progressive)
      \/ \E n : Ends(over, "Win", n)
  BY Zenon DEF ThreeCardSettle
<1> HIDE DEF over
<1>5. CASE Ends(over, "LossPreDeducted", wagered + state.pairplus + state.six + state.progressive)
  BY <1>2, <1>3, <1>5 DEF Ends, ThreeCardInv, ThreeCardSides, IsOpen, session, Open
<1>6. CASE \E n : Ends(over, "Win", n)
  BY <1>2, <1>6 DEF Ends, ThreeCardInv, IsOpen, session, Open
<1> QED BY <1>4, <1>5, <1>6

\* Every move of Three Card Poker keeps the books.
LEMMA ThreeCardNextInv == ThreeCardInv /\ ThreeCardNext => ThreeCardInv' /\ game' = "ThreeCard"
<1> SUFFICES ASSUME ThreeCardInv, ThreeCardNext PROVE ThreeCardInv' /\ game' = "ThreeCard" OBVIOUS
<1>1. state \in ThreeCardStates BY DEF ThreeCardInv
<1>2. ASSUME NEW which \in {"pairplus", "six", "progressive"}, NEW n \in SideBets, ThreeCardSide(which, n)
      PROVE  ThreeCardInv' /\ game' = "ThreeCard"
  <2>1. n \in Nat BY TableAssumption
  <2>2. /\ state.stage = "Betting" /\ state' = [state EXCEPT ![which] = n]
        /\ charged' = charged + (n - state[which]) /\ UNCHANGED <<session, settled, result>>
        /\ game = "ThreeCard" /\ result = Open
    BY <1>2 DEF ThreeCardSide, Wagers, IsOpen
  <2>3. /\ state' \in ThreeCardStates /\ state'.stage = "Betting" /\ state[which] \in Nat
        /\ state'.player = state.player /\ state'.dealer = state.dealer
        /\ ThreeCardSides(state') = ThreeCardSides(state) + (n - state[which])
        /\ ThreeCardSides(state) \in Nat
    BY <1>1, <2>1, <2>2 DEF ThreeCardStates, ThreeCardSides
  <2> QED BY <2>1, <2>2, <2>3 DEF ThreeCardInv, session, Open
<1>3. ASSUME NEW n \in SideBets, ThreeCardDeal(n) PROVE ThreeCardInv' /\ game' = "ThreeCard"
  <2>1. n \in Nat BY TableAssumption
  <2>2. PICK hand \in ThreeCardDeals({}) :
          /\ state' = [state EXCEPT !.stage = "Decision", !.player = hand, !.pairplus = n]
          /\ charged' = charged + (n - state.pairplus) /\ UNCHANGED <<session, settled, result>>
    BY <1>3 DEF ThreeCardDeal, Wagers
  <2>3. /\ state.stage = "Betting" /\ game = "ThreeCard" /\ result = Open /\ state.dealer = {}
    BY <1>3 DEF ThreeCardDeal, IsOpen, ThreeCardInv
  <2>4. /\ state' \in ThreeCardStates /\ state'.stage = "Decision" /\ state.pairplus \in Nat
        /\ state'.dealer = {}
        /\ ThreeCardSides(state') = ThreeCardSides(state) + (n - state.pairplus)
        /\ ThreeCardSides(state) \in Nat
    <3>1. hand \in ThreeCardHands BY DEF ThreeCardDeals
    <3>2. /\ state' \in ThreeCardStates /\ state'.stage = "Decision" /\ state'.pairplus = n
          /\ state'.six = state.six /\ state'.progressive = state.progressive
          /\ state'.dealer = {}
      BY <1>1, <2>1, <2>2, <2>3, <3>1 DEF ThreeCardStates
    <3>3. state.pairplus \in Nat /\ state.six \in Nat /\ state.progressive \in Nat
      BY <1>1 DEF ThreeCardStates
    <3> QED BY <2>1, <3>2, <3>3 DEF ThreeCardSides
  <2> QED BY <2>1, <2>2, <2>3, <2>4 DEF ThreeCardInv, session, Open
<1>4. CASE ThreeCardPlay
  <2>1. /\ state.stage = "Decision" /\ game = "ThreeCard" /\ result = Open
        /\ state' = [state EXCEPT !.stage = "AwaitingReveal"]
        /\ charged' = charged + bet /\ UNCHANGED <<session, settled, result>>
    BY <1>4 DEF ThreeCardPlay, IsOpen, Wagers
  <2>2. /\ state' \in ThreeCardStates /\ state'.stage = "AwaitingReveal"
        /\ state'.player = state.player /\ state'.dealer = state.dealer
        /\ ThreeCardSides(state') = ThreeCardSides(state) /\ ThreeCardSides(state) \in Nat
    BY <1>1, <2>1 DEF ThreeCardStates, ThreeCardSides
  <2> QED BY <2>1, <2>2 DEF ThreeCardInv, session, Open
<1>5. ThreeCardSides(state) \in Nat BY <1>1 DEF ThreeCardStates, ThreeCardSides
<1>6. CASE ThreeCardFold
  <2>1. IsOpen("ThreeCard") /\ bet \in Nat /\ bet + ThreeCardSides(state) = charged
    BY <1>5, <1>6 DEF ThreeCardFold, IsOpen, ThreeCardInv
  <2>2. PICK dealer \in ThreeCardDeals(state.player) :
          ThreeCardSettle(dealer, bet, ThreeCardSideReturn(dealer))
    BY <1>6 DEF ThreeCardFold
  <2> QED BY <2>1, <2>2, ThreeCardSettleInv
<1>7. CASE ThreeCardReveal
  <2>1. IsOpen("ThreeCard") /\ 2 * bet \in Nat /\ 2 * bet + ThreeCardSides(state) = charged
    BY <1>5, <1>7 DEF ThreeCardReveal, IsOpen, ThreeCardInv
  <2>2. PICK dealer \in ThreeCardDeals(state.player) :
          \E return : ThreeCardSettle(dealer, 2 * bet, return)
    BY <1>7, Zenon DEF ThreeCardReveal
  <2> QED BY <2>1, <2>2, ThreeCardSettleInv
<1> QED BY <1>2, <1>3, <1>4, <1>6, <1>7 DEF ThreeCardNext

----------------------------------------------------------------------------
(* Ultimate Texas Hold'em: the cards of the table come in five parts, each *)
(* dealt at most once and from what the others leave of the deck.          *)

HoldemParts == {"player", "flop", "turn", "dealer", "bonus"}
HoldemSize == [player |-> 2, flop |-> 3, turn |-> 2, dealer |-> 2, bonus |-> 4]

HoldemStates ==
    [stage : {"Betting", "Preflop", "Flop", "River", "AwaitingReveal", "Showdown"},
     player : SUBSET Cards, flop : SUBSET Cards, turn : SUBSET Cards,
     dealer : SUBSET Cards, bonus : SUBSET Cards,
     play : 0 .. 4, trips : Nat, six : Nat, progressive : Nat]

HoldemSides(s) == s.trips + s.six + s.progressive

HoldemFair(s) ==
    /\ \A part \in HoldemParts : Cardinality(s[part]) \in {0, HoldemSize[part]}
    /\ \A one, other \in HoldemParts : one # other => s[one] \cap s[other] = {}

HoldemInv ==
    /\ bet \in Nat /\ charged \in Int /\ settled = 0
    /\ state \in HoldemStates /\ HoldemFair(state)
    /\ state.stage = "Betting" => \A part \in HoldemParts : state[part] = {}
    /\ result = Open =>
         /\ state.stage # "Showdown"
         /\ charged = bet + state.play * bet + HoldemSides(state)
    /\ result.kind = "LossPreDeducted" => result.amount = charged + bet
    /\ result.kind # "Credited"

\* One part is dealt.
LEMMA HoldemDealt ==
    ASSUME NEW s \in HoldemStates, HoldemFair(s), NEW field \in HoldemParts, NEW cards,
           cards \in HoldemDeals(HoldemSize[field], HoldemKnown(s)),
           NEW t, t[field] = cards, \A part \in HoldemParts : part # field => t[part] = s[part]
    PROVE  cards \in SUBSET Cards /\ HoldemFair(t)
<1>1. HoldemSize[field] # 0 BY DEF HoldemSize, HoldemParts
<1>2. cards \in HoldemGroups /\ Cardinality(cards) = HoldemSize[field] /\ cards \cap HoldemKnown(s) = {}
  BY <1>1 DEF HoldemDeals
<1>3. cards \in SUBSET Cards BY <1>2, HoldemAssumption
<1>4. \A part \in HoldemParts : s[part] \subseteq HoldemKnown(s) BY DEF HoldemKnown, HoldemParts
<1>5. \A part \in HoldemParts : cards \cap s[part] = {} BY <1>2, <1>4
<1>6. \A one, other \in HoldemParts : one # other => t[one] \cap t[other] = {}
  BY <1>5 DEF HoldemFair
<1>7. \A part \in HoldemParts : Cardinality(t[part]) \in {0, HoldemSize[part]}
  BY <1>2 DEF HoldemFair
<1> QED BY <1>3, <1>6, <1>7 DEF HoldemFair

\* A part that is covered is dealt, and one that is not stays.
HoldemTurned(s, field, n) ==
    {[s EXCEPT ![field] = @ \cup cards] :
       cards \in HoldemDeals(IF s[field] = {} THEN n ELSE 0, HoldemKnown(s))}

HoldemAlike(s, t) ==
    /\ s \in HoldemStates /\ HoldemFair(s)
    /\ s.stage = t.stage /\ s.play = t.play /\ s.trips = t.trips /\ s.six = t.six
    /\ s.progressive = t.progressive

\* Turning up one part of the cards changes nothing else.
LEMMA HoldemTurnedAlike ==
    ASSUME NEW t, NEW s, HoldemAlike(s, t), NEW field \in HoldemParts,
           NEW n \in {0, HoldemSize[field]}, NEW u \in HoldemTurned(s, field, n)
    PROVE  HoldemAlike(u, t)
<1>1. PICK cards \in HoldemDeals(IF s[field] = {} THEN n ELSE 0, HoldemKnown(s)) :
        u = [s EXCEPT ![field] = s[field] \cup cards]
  BY DEF HoldemTurned
<1>2. s \in HoldemStates /\ HoldemFair(s) BY DEF HoldemAlike
<1>3. CASE s[field] = {} /\ n = HoldemSize[field]
  <2>1. cards \in HoldemDeals(HoldemSize[field], HoldemKnown(s)) BY <1>3
  <2>2. u[field] = cards /\ \A part \in HoldemParts : part # field => u[part] = s[part]
    BY <1>1, <1>2, <1>3 DEF HoldemStates, HoldemParts
  <2>3. cards \in SUBSET Cards /\ HoldemFair(u) BY <1>2, <2>1, <2>2, HoldemDealt
  <2>4. u = [s EXCEPT ![field] = cards] BY <1>1, <1>3
  <2>5. /\ u \in HoldemStates /\ u.stage = s.stage /\ u.play = s.play /\ u.trips = s.trips
        /\ u.six = s.six /\ u.progressive = s.progressive
    BY <1>2, <2>3, <2>4 DEF HoldemStates, HoldemParts
  <2> QED BY <2>3, <2>5 DEF HoldemAlike
<1>4. CASE s[field] # {} \/ n = 0
  <2>1. cards = {} BY <1>4 DEF HoldemDeals
  <2>2. u = s BY <1>1, <1>2, <2>1 DEF HoldemStates, HoldemParts
  <2> QED BY <2>2
<1> QED BY <1>3, <1>4

\* ... and so does the showdown, which turns up all that are left.
LEMMA HoldemShowdownsAlike ==
    ASSUME state \in HoldemStates, HoldemFair(state), NEW s \in HoldemShowdowns
    PROVE  HoldemAlike(s, state)
<1> DEFINE Covered(r) == IF r.six > 0 THEN 4 ELSE 0
           flopped == HoldemTurned(state, "flop", 3)
           turned == UNION {HoldemTurned(r, "turn", 2) : r \in flopped}
           dealt == UNION {HoldemTurned(r, "dealer", 2) : r \in turned}
<1>1. HoldemShowdowns = UNION {HoldemTurned(r, "bonus", Covered(r)) : r \in dealt}
  BY Zenon DEF HoldemShowdowns, HoldemTurned
<1>2. PICK c \in dealt : s \in HoldemTurned(c, "bonus", Covered(c)) BY <1>1, Zenon
<1>3. PICK b \in turned : c \in HoldemTurned(b, "dealer", 2) BY <1>2, Zenon
<1>4. PICK a \in flopped : b \in HoldemTurned(a, "turn", 2) BY <1>3, Zenon
<1>5. /\ "flop" \in HoldemParts /\ "turn" \in HoldemParts /\ "dealer" \in HoldemParts
      /\ "bonus" \in HoldemParts
      /\ 3 \in {0, HoldemSize["flop"]} /\ 2 \in {0, HoldemSize["turn"]}
      /\ 2 \in {0, HoldemSize["dealer"]} /\ Covered(c) \in {0, HoldemSize["bonus"]}
  BY DEF HoldemParts, HoldemSize
<1>6. HoldemAlike(state, state) BY DEF HoldemAlike
<1> HIDE DEF Covered, turned, dealt
<1>7. HoldemAlike(a, state) BY <1>4, <1>5, <1>6, HoldemTurnedAlike, Zenon DEF flopped
<1>8. HoldemAlike(b, state) BY <1>4, <1>5, <1>7, HoldemTurnedAlike, Zenon
<1>9. HoldemAlike(c, state) BY <1>3, <1>5, <1>8, HoldemTurnedAlike, Zenon
<1> QED BY <1>2, <1>5, <1>9, HoldemTurnedAlike, Zenon

\* A session starts with the ante.
LEMMA HoldemInitInv == HoldemInit => HoldemInv /\ game = "UltimateHoldem"
<1> SUFFICES ASSUME HoldemInit PROVE HoldemInv /\ game = "UltimateHoldem" OBVIOUS
<1>1. PICK b \in Stakes :
        Starts("UltimateHoldem", b,
               [stage |-> "Betting", player |-> {}, flop |-> {}, turn |-> {}, dealer |-> {},
                bonus |-> {}, play |-> 0, trips |-> 0, six |-> 0, progressive |-> 0])
  BY DEF HoldemInit
<1>2. b \in Nat BY TableAssumption
<1>3. /\ state \in HoldemStates /\ state.stage = "Betting" /\ state.play = 0 /\ HoldemSides(state) = 0
      /\ \A part \in HoldemParts : state[part] = {}
  BY <1>1 DEF Starts, Begins, HoldemStates, HoldemSides, HoldemParts
<1>4. HoldemFair(state) BY <1>3, FS_EmptySet DEF HoldemFair
<1> QED BY <1>1, <1>2, <1>3, <1>4 DEF Starts, Begins, HoldemInv, Open

\* A showdown or a fold reports the blind as lost too.
LEMMA HoldemSettleInv ==
    ASSUME HoldemInv, IsOpen("UltimateHoldem"), NEW s \in HoldemShowdowns, HoldemSettle(s)
    PROVE  HoldemInv' /\ game' = "UltimateHoldem"
<1> DEFINE over == [s EXCEPT !.stage = "Showdown"]
<1>1. HoldemAlike(s, state) BY HoldemShowdownsAlike DEF HoldemInv
<1>2. /\ over \in HoldemStates /\ over.stage = "Showdown"
      /\ \A part \in HoldemParts : over[part] = s[part]
  BY <1>1 DEF HoldemAlike, HoldemStates, HoldemParts
<1>3. HoldemFair(over)
  <2> HIDE DEF over
  <2> QED BY <1>1, <1>2 DEF HoldemAlike, HoldemFair
<1>4. /\ s.play \in Nat /\ s.trips \in Nat /\ s.six \in Nat /\ s.progressive \in Nat
      /\ s.play * bet = state.play * bet /\ s.play * bet \in Nat
      /\ s.trips + s.six + s.progressive = HoldemSides(state)
  <2>1. s.play \in Nat /\ s.trips \in Nat /\ s.six \in Nat /\ s.progressive \in Nat
    BY <1>1 DEF HoldemAlike, HoldemStates
  <2>2. s.play * bet \in Nat BY <2>1, ProductPositive DEF HoldemInv
  <2> QED BY <1>1, <2>1, <2>2 DEF HoldemAlike, HoldemSides
<1>5. \/ Ends(over, "LossPreDeducted", (2 + s.play) * bet + s.trips + s.six + s.progressive)
      \/ \E n : Ends(over, "Win", n)
  BY Zenon DEF HoldemSettle
<1> HIDE DEF over
<1>6. CASE Ends(over, "LossPreDeducted", (2 + s.play) * bet + s.trips + s.six + s.progressive)
  <2>1. (2 + s.play) * bet + s.trips + s.six + s.progressive = charged + bet
    <3>1. charged = bet + state.play * bet + HoldemSides(state) /\ bet \in Nat
      BY DEF HoldemInv, IsOpen
    <3>2. (2 + s.play) * bet = 2 * bet + s.play * bet BY <1>4, <3>1
    <3> QED BY <1>4, <3>1, <3>2
  <2> QED BY <1>2, <1>3, <1>6, <2>1 DEF Ends, HoldemInv, IsOpen, session, Open
<1>7. CASE \E n : Ends(over, "Win", n)
  BY <1>2, <1>3, <1>7 DEF Ends, HoldemInv, IsOpen, session, Open
<1> QED BY <1>5, <1>6, <1>7

\* Every move of Ultimate Texas Hold'em keeps the books.
LEMMA HoldemNextInv == HoldemInv /\ HoldemNext => HoldemInv' /\ game' = "UltimateHoldem"
<1> SUFFICES ASSUME HoldemInv, HoldemNext PROVE HoldemInv' /\ game' = "UltimateHoldem" OBVIOUS
<1>1. state \in HoldemStates /\ HoldemFair(state) BY DEF HoldemInv
<1>2. ASSUME NEW which \in {"trips", "six", "progressive"}, NEW n \in SideBets, HoldemSide(which, n)
      PROVE  HoldemInv' /\ game' = "UltimateHoldem"
  <2>1. n \in Nat BY TableAssumption
  <2>2. /\ state.stage = "Betting" /\ state' = [state EXCEPT ![which] = n]
        /\ charged' = charged + (n - state[which]) /\ UNCHANGED <<session, settled, result>>
        /\ game = "UltimateHoldem" /\ result = Open
    BY <1>2 DEF HoldemSide, Wagers, IsOpen
  <2>3. /\ state' \in HoldemStates /\ state'.stage = "Betting" /\ state[which] \in Nat
        /\ \A part \in HoldemParts : state'[part] = state[part]
        /\ state'.play = state.play
        /\ HoldemSides(state') = HoldemSides(state) + (n - state[which])
        /\ HoldemSides(state) \in Nat
    BY <1>1, <2>1, <2>2 DEF HoldemStates, HoldemSides, HoldemParts
  <2>4. HoldemFair(state') BY <1>1, <2>3 DEF HoldemFair
  <2>5. state.play * bet \in Nat
    <3>1. state.play \in Nat BY <1>1 DEF HoldemStates
    <3> QED BY <3>1, ProductPositive DEF HoldemInv
  <2> QED BY <2>1, <2>2, <2>3, <2>4, <2>5 DEF HoldemInv, session, Open
<1>3. ASSUME NEW n \in SideBets, HoldemDeal(n) PROVE HoldemInv' /\ game' = "UltimateHoldem"
  <2>1. n \in Nat BY TableAssumption
  <2>2. PICK hand \in HoldemDeals(2, {}) :
          /\ state' = [state EXCEPT !.stage = "Preflop", !.player = hand, !.trips = n]
          /\ charged' = charged + (n - state.trips) /\ UNCHANGED <<session, settled, result>>
    BY <1>3 DEF HoldemDeal, Wagers
  <2>3. state.stage = "Betting" /\ game = "UltimateHoldem" /\ result = Open
    BY <1>3 DEF HoldemDeal, IsOpen
  <2>4. HoldemKnown(state) = {} /\ "player" \in HoldemParts /\ HoldemSize["player"] = 2
    BY <2>3 DEF HoldemInv, HoldemKnown, HoldemParts, HoldemSize
  <2>5. state'["player"] = hand /\ \A part \in HoldemParts : part # "player" => state'[part] = state[part]
    BY <1>1, <2>2 DEF HoldemStates, HoldemParts
  <2>6. hand \in SUBSET Cards /\ HoldemFair(state')
    <3>1. hand \in HoldemDeals(HoldemSize["player"], HoldemKnown(state)) BY <2>4
    <3>2. PICK t, field : t = state' /\ field = "player" OBVIOUS
    <3>3. t[field] = hand /\ \A part \in HoldemParts : part # field => t[part] = state[part]
      BY <2>5, <3>2
    <3>4. field \in HoldemParts /\ hand \in HoldemDeals(HoldemSize[field], HoldemKnown(state))
      BY <2>4, <3>1, <3>2
    <3>5. hand \in SUBSET Cards /\ HoldemFair(t) BY <1>1, <3>3, <3>4, HoldemDealt
    <3> QED BY <3>2, <3>5
  <2>7. /\ state' \in HoldemStates /\ state'.stage = "Preflop" /\ state.trips \in Nat
        /\ state'.play = state.play
        /\ HoldemSides(state') = HoldemSides(state) + (n - state.trips)
        /\ HoldemSides(state) \in Nat
    <3>1. /\ state' \in HoldemStates /\ state'.stage = "Preflop" /\ state'.play = state.play
          /\ state'.trips = n /\ state'.six = state.six /\ state'.progressive = state.progressive
      <4>1. "Preflop" \in {"Betting", "Preflop", "Flop", "River", "AwaitingReveal", "Showdown"} OBVIOUS
      <4> HIDE DEF Cards
      <4> QED BY <1>1, <2>1, <2>2, <2>6, <4>1 DEF HoldemStates
    <3>2. state.trips \in Nat /\ state.six \in Nat /\ state.progressive \in Nat
      BY <1>1 DEF HoldemStates
    <3> QED BY <2>1, <3>1, <3>2 DEF HoldemSides
  <2>8. state.play * bet \in Nat
    <3>1. state.play \in Nat BY <1>1 DEF HoldemStates
    <3> QED BY <3>1, ProductPositive DEF HoldemInv
  <2> QED BY <2>1, <2>2, <2>3, <2>6, <2>7, <2>8 DEF HoldemInv, session, Open
<1>4. CASE HoldemCheck
  <2>1. game = "UltimateHoldem" /\ result = Open BY <1>4 DEF HoldemCheck, IsOpen
  <2>2. ASSUME NEW field \in {"flop", "turn"}, NEW stage \in {"Flop", "River"},
               NEW cards \in HoldemDeals(HoldemSize[field], HoldemKnown(state)),
               state' = [state EXCEPT !.stage = stage, ![field] = cards],
               UNCHANGED <<session, charged, result>>, settled' = settled + 0
        PROVE  HoldemInv' /\ game' = "UltimateHoldem"
    <3>1. field \in HoldemParts BY DEF HoldemParts
    <3>2. state'[field] = cards /\ \A part \in HoldemParts : part # field => state'[part] = state[part]
      BY <1>1, <2>2 DEF HoldemStates, HoldemParts
    <3>3. cards \in SUBSET Cards /\ HoldemFair(state')
      <4>1. PICK t : t = state' OBVIOUS
      <4>2. t[field] = cards /\ \A part \in HoldemParts : part # field => t[part] = state[part]
        BY <3>2, <4>1
      <4>3. cards \in SUBSET Cards /\ HoldemFair(t) BY <1>1, <2>2, <3>1, <4>2, HoldemDealt
      <4> QED BY <4>1, <4>3
    <3>4. /\ state' \in HoldemStates /\ state'.stage = stage /\ state'.play = state.play
          /\ HoldemSides(state') = HoldemSides(state)
      BY <1>1, <2>2, <3>3 DEF HoldemStates, HoldemSides
    <3> QED BY <2>1, <2>2, <3>3, <3>4 DEF HoldemInv, session, Open
  <2>3. HoldemSize["flop"] = 3 /\ HoldemSize["turn"] = 2 BY DEF HoldemSize
  <2>4. ASSUME NEW cards \in HoldemDeals(3, HoldemKnown(state)),
               Continues([state EXCEPT !.stage = "Flop", !.flop = cards])
        PROVE  HoldemInv' /\ game' = "UltimateHoldem"
    <3>1. /\ state' = [state EXCEPT !.stage = "Flop", !["flop"] = cards]
          /\ UNCHANGED <<session, charged, result>> /\ settled' = settled + 0
      BY <2>4, Zenon DEF Continues, Pays
    <3> QED BY <2>2, <2>3, <3>1, Zenon
  <2>5. ASSUME NEW cards \in HoldemDeals(2, HoldemKnown(state)),
               Continues([state EXCEPT !.stage = "River", !.turn = cards])
        PROVE  HoldemInv' /\ game' = "UltimateHoldem"
    <3>1. /\ state' = [state EXCEPT !.stage = "River", !["turn"] = cards]
          /\ UNCHANGED <<session, charged, result>> /\ settled' = settled + 0
      BY <2>5, Zenon DEF Continues, Pays
    <3> QED BY <2>2, <2>3, <3>1, Zenon
  <2> QED BY <1>4, <2>4, <2>5 DEF HoldemCheck
<1>5. ASSUME NEW times \in 1 .. 4, HoldemBet(times) PROVE HoldemInv' /\ game' = "UltimateHoldem"
  <2>1. /\ game = "UltimateHoldem" /\ result = Open /\ state.play = 0
        /\ state' = [state EXCEPT !.stage = "AwaitingReveal", !.play = times]
        /\ charged' = charged + times * bet /\ UNCHANGED <<session, settled, result>>
    BY <1>5 DEF HoldemBet, IsOpen, Wagers
  <2>2. /\ state' \in HoldemStates /\ state'.stage = "AwaitingReveal" /\ state'.play = times
        /\ \A part \in HoldemParts : state'[part] = state[part]
        /\ HoldemSides(state') = HoldemSides(state) /\ HoldemSides(state) \in Nat
    <3>1. times \in 0 .. 4 OBVIOUS
    <3>2. /\ state' \in HoldemStates /\ state'.stage = "AwaitingReveal" /\ state'.play = times
          /\ state'.trips = state.trips /\ state'.six = state.six
          /\ state'.progressive = state.progressive
      BY <1>1, <2>1, <3>1 DEF HoldemStates
    <3>3. \A part \in HoldemParts : state'[part] = state[part]
      BY <1>1, <2>1 DEF HoldemStates, HoldemParts
    <3>4. state.trips \in Nat /\ state.six \in Nat /\ state.progressive \in Nat
      BY <1>1 DEF HoldemStates
    <3> QED BY <3>2, <3>3, <3>4 DEF HoldemSides
  <2>3. HoldemFair(state') BY <1>1, <2>2 DEF HoldemFair
  <2>4. times * bet \in Nat BY ProductPositive DEF HoldemInv
  <2>5. charged = bet + HoldemSides(state) /\ bet \in Nat BY <2>1, <2>2 DEF HoldemInv
  <2>6. charged' = bet' + state'.play * bet' + HoldemSides(state') /\ charged' \in Int
    BY <2>1, <2>2, <2>4, <2>5 DEF session
  <2> QED BY <2>1, <2>2, <2>3, <2>6 DEF HoldemInv, session, Open
<1>6. CASE HoldemFold \/ HoldemReveal
  BY <1>6, HoldemSettleInv DEF HoldemFold, HoldemReveal
<1> QED BY <1>2, <1>3, <1>4, <1>5, <1>6 DEF HoldemNext

----------------------------------------------------------------------------
(* The layouts of Roulette and Sic Bo: a bag of bets. *)

Layout(bets) ==
    /\ IsFiniteSet(DOMAIN bets)
    /\ bets \in [DOMAIN bets -> Nat]
    /\ \A b \in DOMAIN bets : b.amount \in Nat

\* Nothing is placed at first.
LEMMA EmptyLayout ==
    Layout(EmptyBag) /\ Total(EmptyBag) = 0 /\ AtStake(EmptyBag) = 0
<1>1. DOMAIN EmptyBag = {} /\ EmptyBag \in [DOMAIN EmptyBag -> Nat] BY DEF EmptyBag, SetToBag
<1>2. IsFiniteSet(DOMAIN EmptyBag) BY <1>1, FS_EmptySet
<1>3. Total(EmptyBag) = 0 BY <1>1, TotalOfNobody, Zenon
<1>4. AtStake(EmptyBag) = 0
  <2> DEFINE costs == [b \in DOMAIN EmptyBag |-> EmptyBag[b] * b.amount]
  <2>1. DOMAIN costs = {} BY <1>1
  <2> HIDE DEF costs
  <2>2. Total(costs) = 0 BY <2>1, TotalOfNobody, Zenon
  <2> QED BY <2>2 DEF AtStake, costs
<1> QED BY <1>1, <1>2, <1>3, <1>4 DEF Layout

\* Bets and their costs are natural numbers.
LEMMA LayoutCosts ==
    ASSUME NEW bets, Layout(bets)
    PROVE  /\ [b \in DOMAIN bets |-> bets[b] * b.amount] \in [DOMAIN bets -> Nat]
           /\ AtStake(bets) \in Nat /\ Total(bets) \in Nat
<1> DEFINE costs == [b \in DOMAIN bets |-> bets[b] * b.amount]
<1>1. \A b \in DOMAIN bets : bets[b] \in Nat /\ b.amount \in Nat BY DEF Layout
<1>2. \A b \in DOMAIN bets : bets[b] * b.amount \in Nat BY <1>1, ProductPositive
<1>3. costs \in [DOMAIN bets -> Nat] BY <1>2
<1> HIDE DEF costs
<1>4. Total(costs) \in Nat BY <1>3, TotalType DEF Layout
<1>5. Total(bets) \in Nat BY TotalType DEF Layout
<1> QED BY <1>3, <1>4, <1>5 DEF costs, AtStake

\* One more bet costs its amount.
LEMMA PlacedLayout ==
    ASSUME NEW bets, Layout(bets), NEW spot, NEW n \in Nat
    PROVE  /\ Layout(Placed(bets, spot, n))
           /\ DOMAIN Placed(bets, spot, n) = DOMAIN bets \cup {[spot |-> spot, amount |-> n]}
           /\ Total(Placed(bets, spot, n)) = Total(bets) + 1
           /\ AtStake(Placed(bets, spot, n)) = AtStake(bets) + n
<1> DEFINE D == DOMAIN bets
           after == Placed(bets, spot, n)
           costs == [b \in D |-> bets[b] * b.amount]
           costly == [b \in DOMAIN after |-> after[b] * b.amount]
<1>1. PICK x : x = [spot |-> spot, amount |-> n] OBVIOUS
<1>2. x.amount = n BY <1>1
<1>3. /\ DOMAIN after = D \cup {x}
      /\ \A b \in D \cup {x} :
           after[b] = (IF b \in D THEN bets[b] ELSE 0) + (IF b = x THEN 1 ELSE 0)
  BY <1>1 DEF Placed
<1>4. after = [b \in D \cup {x} |-> after[b]] BY <1>1 DEF Placed
<1>5. /\ IsFiniteSet(D) /\ bets \in [D -> Nat]
  BY DEF Layout
<1>6. \A b \in D : bets[b] \in Nat /\ b.amount \in Nat BY DEF Layout
<1> HIDE DEF after, D
<1>7. /\ \A b \in D : b # x => after[b] = bets[b]
      /\ after[x] = (IF x \in D THEN bets[x] ELSE 0) + 1
  BY <1>3, <1>6
<1>8. \A b \in D \cup {x} : after[b] \in Nat /\ b.amount \in Nat BY <1>2, <1>6, <1>7
<1>9. after \in [D \cup {x} -> Nat] BY <1>8, <1>4
<1>10. IsFiniteSet(D \cup {x}) BY <1>5, FS_AddElement
<1>11. Layout(after) BY <1>3, <1>8, <1>9, <1>10 DEF Layout
<1>12. Total(after) = Total(bets) + 1
  <2>1. 1 \in Nat OBVIOUS
  <2> QED BY <1>5, <1>9, <1>7, <2>1, TotalPut
<1>13. Total(costly) = Total(costs) + n
  <2>1. costs \in [D -> Nat] BY LayoutCosts DEF D
  <2>2. costly \in [D \cup {x} -> Nat] BY <1>3, <1>11, LayoutCosts
  <2>3. \A b \in D : b # x => costly[b] = costs[b] BY <1>3, <1>7
  <2>4. costly[x] = (IF x \in D THEN costs[x] ELSE 0) + n
    <3>0. costly[x] = after[x] * n BY <1>2, <1>3
    <3>1. CASE x \in D
      <4>1. costs[x] = bets[x] * n /\ bets[x] \in Nat BY <1>2, <1>6, <3>1
      <4>2. after[x] = bets[x] + 1 BY <1>7, <3>1
      <4> HIDE DEF costs, costly
      <4> QED BY <3>0, <3>1, <4>1, <4>2
    <3>2. CASE x \notin D
      <4>1. after[x] = 1 BY <1>7, <3>2
      <4> HIDE DEF costs, costly
      <4> QED BY <3>0, <3>2, <4>1
    <3> QED BY <3>1, <3>2
  <2> HIDE DEF costly, costs
  <2> QED BY <1>5, <2>1, <2>2, <2>3, <2>4, TotalPut
<1>14. AtStake(after) = Total(costly) /\ AtStake(bets) = Total(costs) BY DEF AtStake, D
<1> HIDE DEF costly, costs
<1>15. AtStake(after) = AtStake(bets) + n BY <1>13, <1>14
<1> QED BY <1>1, <1>3, <1>11, <1>12, <1>15 DEF after, D

\* The books: the wagers are what was charged and is not settled, unless the last bet
\* was credited.
Books(wagered) ==
    /\ result = Open => wagered = charged - settled
    /\ result.kind = "Credited" => wagered = charged - settled + 2 * I64Range

\* A bet that is placed without a check is charged or credited.
LEMMA BetIsCharged ==
    ASSUME charged \in Int, settled \in Int, result = Open,
           NEW s, NEW n \in Payloads, BetsUnchecked(s, n)
    PROVE  /\ state' = s /\ UNCHANGED <<session, settled>> /\ charged' \in Int
           /\ result'.kind \in {"Open", "Credited"}
           /\ \A before, after \in Int :
                Books(before) /\ after = before + n =>
                  /\ result' = Open => after = charged' - settled'
                  /\ result'.kind = "Credited" => after = charged' - settled' + 2 * I64Range
<1>1. n \in Nat /\ I64Range \in Nat BY TableAssumption, WidthAssumption
<1>2. CASE Bets(s, n)
  <2>1. state' = s /\ charged' = charged + n /\ UNCHANGED <<session, settled, result>>
    BY <1>2 DEF Bets, Wagers
  <2> QED BY <1>1, <2>1 DEF Books, Open
<1>3. CASE Credits(s, 2 * I64Range - n)
  <2>1. /\ state' = s /\ charged' = charged - (2 * I64Range - n) /\ UNCHANGED <<session, settled>>
        /\ result' = [kind |-> "Credited", amount |-> 2 * I64Range - n]
    BY <1>3 DEF Credits
  <2>2. result'.kind = "Credited" /\ result' # Open BY <2>1 DEF Open
  <2> QED BY <1>1, <2>1, <2>2 DEF Books, Open
<1> QED BY <1>2, <1>3 DEF BetsUnchecked

----------------------------------------------------------------------------
(* Sic Bo. *)

SicBoInv ==
    /\ charged \in Int /\ settled \in Int
    /\ state = [bets |-> state.bets, dice |-> state.dice]
    /\ Layout(state.bets)
    /\ Books(AtStake(state.bets))
    /\ result.kind = "LossPreDeducted" => result.amount = charged - settled

\* A session starts without bets of its own.
LEMMA SicBoInitInv == SicBoInit => SicBoInv /\ game = "SicBo"
BY TableAssumption, SicBoAssumption, EmptyLayout DEF SicBoInit, StartsEmpty, Begins, SicBoInv, Books, Open

\* Every move of Sic Bo keeps the books.
LEMMA SicBoNextInv == SicBoInv /\ SicBoNext => SicBoInv' /\ game' = "SicBo"
<1> SUFFICES ASSUME SicBoInv, SicBoNext PROVE SicBoInv' /\ game' = "SicBo" OBVIOUS
<1>1. /\ state = [bets |-> state.bets, dice |-> state.dice] /\ Layout(state.bets)
      /\ AtStake(state.bets) \in Nat /\ Total(state.bets) \in Nat
  BY LayoutCosts DEF SicBoInv
<1>2. ASSUME NEW spot \in SicBoSpots, NEW n \in Payloads, SicBoPlace(spot, n)
      PROVE  SicBoInv' /\ game' = "SicBo"
  <2> DEFINE bets == Placed(state.bets, spot, n)
  <2>1. n \in Nat BY TableAssumption
  <2>2. game = "SicBo" /\ result = Open /\ BetsUnchecked([state EXCEPT !.bets = bets], n)
    BY <1>2 DEF SicBoPlace, SicBoOpen, IsOpen
  <2>3. Layout(bets) /\ AtStake(bets) = AtStake(state.bets) + n BY <1>1, <2>1, PlacedLayout
  <2> HIDE DEF bets
  <2>4. AtStake(bets) \in Int BY <1>1, <2>1, <2>3
  <2>5. /\ state' = [state EXCEPT !.bets = bets] /\ UNCHANGED <<session, settled>> /\ charged' \in Int
        /\ result'.kind \in {"Open", "Credited"}
        /\ result' = Open => AtStake(bets) = charged' - settled'
        /\ result'.kind = "Credited" => AtStake(bets) = charged' - settled' + 2 * I64Range
    BY <1>1, <2>2, <2>3, <2>4, BetIsCharged DEF SicBoInv
  <2>6. state'.bets = bets /\ state' = [bets |-> state'.bets, dice |-> state'.dice] BY <1>1, <2>5
  <2> QED BY <1>1, <2>2, <2>3, <2>5, <2>6 DEF SicBoInv, Books, session
<1>3. CASE SicBoClear
  <2>1. /\ game = "SicBo" /\ result = Open /\ state' = [state EXCEPT !.bets = EmptyBag]
        /\ settled' = settled + AtStake(state.bets) /\ UNCHANGED <<session, charged, result>>
    BY <1>3 DEF SicBoClear, SicBoOpen, IsOpen, Pays
  <2>2. state'.bets = EmptyBag /\ state' = [bets |-> state'.bets, dice |-> state'.dice] BY <1>1, <2>1
  <2> HIDE DEF EmptyBag
  <2>3. Layout(state'.bets) /\ AtStake(state'.bets) = 0 BY <2>2, EmptyLayout
  <2> QED BY <1>1, <2>1, <2>2, <2>3 DEF SicBoInv, Books, session, Open
<1>4. CASE SicBoRoll
  <2>1. PICK dice : \/ \E n : Ends([state EXCEPT !.dice = dice], "Win", n)
                    \/ Ends([state EXCEPT !.dice = dice], "LossPreDeducted", AtStake(state.bets))
    BY <1>4, Zenon DEF SicBoRoll
  <2>2. game = "SicBo" /\ result = Open BY <1>4 DEF SicBoRoll, SicBoOpen, IsOpen
  <2>3. PICK kind, n :
          /\ kind \in {"Win", "LossPreDeducted"}
          /\ state' = [state EXCEPT !.dice = dice] /\ result' = [kind |-> kind, amount |-> n]
          /\ kind = "LossPreDeducted" => n = AtStake(state.bets)
          /\ UNCHANGED <<session, charged, settled>>
    BY <2>1 DEF Ends
  <2>4. state'.bets = state.bets /\ state' = [bets |-> state'.bets, dice |-> state'.dice]
    BY <1>1, <2>3
  <2> QED BY <1>1, <2>2, <2>3, <2>4 DEF SicBoInv, Books, session, Open
<1> QED BY <1>2, <1>3, <1>4 DEF SicBoNext

----------------------------------------------------------------------------
(* Roulette. *)

RouletteTypes ==
    EvenMoney \cup {"Straight", "Dozen", "Column", "SplitH", "SplitV", "Street", "Corner", "SixLine"}

RouletteInv ==
    /\ charged \in Int /\ settled \in Int
    /\ \A m \in mults : m.by \in Nat
    /\ state = [rule |-> state.rule, phase |-> state.phase, wagered |-> state.wagered,
                pending |-> state.pending, bets |-> state.bets, spun |-> state.spun]
    /\ state.rule \in ZeroRules /\ state.phase \in {"Betting", "Prison"}
    /\ state.wagered \in Nat /\ state.pending \in Nat
    /\ Layout(state.bets) /\ Total(state.bets) <= MaxBets
    /\ \A b \in DOMAIN state.bets : b.spot.type \in RouletteTypes
    /\ Books(state.wagered)
    /\ result.kind = "LossPreDeducted" => result.amount = charged - settled

\* Super mode multiplies by natural numbers.
LEMMA RouletteMultipliersType ==
    ASSUME NEW ms \in Generated("Roulette"), NEW m \in ms
    PROVE  m.by \in Nat
<1> DEFINE values == {50, 100, 200, 300, 400, 500}
<1>1. ASSUME NEW drawn \in RouletteMultipliers, NEW d \in drawn PROVE d.by \in Nat
  <2>1. PICK chosen, by :
          drawn = Multipliers("Number", chosen, by) /\ \A i \in chosen : by[i] \in values
    BY DEF RouletteMultipliers, Drawn
  <2>2. PICK i \in chosen : d = [kind |-> "Number", id |-> i, by |-> by[i]]
    BY <2>1 DEF Multipliers
  <2> QED BY <2>1, <2>2
<1>2. ms \in RouletteMultipliers \/ \E drawn \in RouletteMultipliers : ms = Enhanced(drawn)
  BY Zenon DEF Generated
<1>3. CASE ms \in RouletteMultipliers BY <1>1, <1>3
<1>4. ASSUME NEW drawn \in RouletteMultipliers, ms = Enhanced(drawn) PROVE m.by \in Nat
  <2>1. PICK d \in drawn : m = [d EXCEPT !.by = (d.by * 3) \div 2] BY <1>4 DEF Enhanced
  <2>2. d.by \in Nat BY <1>1
  <2>3. PICK chosen, by : drawn = Multipliers("Number", chosen, by)
    BY DEF RouletteMultipliers, Drawn
  <2>4. PICK i \in chosen : d = [kind |-> "Number", id |-> i, by |-> by[i]]
    BY <2>3 DEF Multipliers
  <2>5. m.by = (d.by * 3) \div 2 BY <2>1, <2>4
  <2> QED BY <2>2, <2>5
<1> QED BY <1>2, <1>3, <1>4

\* The types of the bets.
LEMMA RouletteSpotsType ==
    ASSUME NEW spot \in RouletteSpots
    PROVE  spot.type \in RouletteTypes
BY DEF RouletteSpots, RouletteTypes

\* A payout that is boosted is a natural number.
LEMMA BoostedByType ==
    ASSUME \A m \in mults : m.by \in Nat, NEW kind, NEW id, NEW payout \in Nat
    PROVE  BoostedBy(kind, id, payout) \in Nat
<1> DEFINE matching == {m \in mults : m.kind = kind /\ m.id = id}
           chosen == CHOOSE m \in matching : TRUE
<1>1. BoostedBy(kind, id, payout) \in {payout} \/ (matching # {} /\ BoostedBy(kind, id, payout) = payout * chosen.by)
  BY DEF BoostedBy, BoostElement
<1>2. matching # {} => chosen \in matching OBVIOUS
<1>3. matching # {} => chosen.by \in Nat BY <1>2
<1> HIDE DEF matching, chosen
<1>4. matching # {} => payout * chosen.by \in Nat BY <1>3, ProductPositive
<1> QED BY <1>1, <1>4

\* A spin returns a natural number.
LEMMA ReturnedOnType ==
    ASSUME RouletteInv, NEW n
    PROVE  ReturnedOn(n) \in Nat
<1> DEFINE half(b) == IF n = 0 /\ state.rule = "LaPartage" /\ b.spot.type \in EvenMoney
                      THEN b.amount \div 2 ELSE 0
           f == [b \in DOMAIN state.bets |-> state.bets[b] * (Winnings(b, n) + half(b))]
<1>1. ASSUME NEW b \in DOMAIN state.bets PROVE state.bets[b] * (Winnings(b, n) + half(b)) \in Nat
  <2>1. b.amount \in Nat /\ state.bets[b] \in Nat /\ b.spot.type \in RouletteTypes
    BY DEF RouletteInv, Layout
  <2>2. SpotPays(b.spot.type) \in Nat BY <2>1 DEF SpotPays, RouletteTypes, EvenMoney
  <2>3. b.amount * (SpotPays(b.spot.type) + 1) \in Nat BY <2>1, <2>2, ProductPositive
  <2>4. Winnings(b, n) \in Nat BY <2>3 DEF Winnings
  <2>5. half(b) \in Nat BY <2>1
  <2> HIDE DEF half
  <2>6. Winnings(b, n) + half(b) \in Nat BY <2>4, <2>5
  <2> QED BY <2>1, <2>6, ProductPositive
<1>2. f \in [DOMAIN state.bets -> Nat] BY <1>1
<1>3. IsFiniteSet(DOMAIN state.bets) BY DEF RouletteInv, Layout
<1>4. ReturnedOn(n) = Total(f) BY Zenon DEF ReturnedOn, Over
<1> HIDE DEF f
<1> QED BY <1>2, <1>3, <1>4, TotalType

\* The bets that a zero imprisons are a part of the layout.
LEMMA ImprisonedLayout ==
    ASSUME RouletteInv, NEW n
    PROVE  /\ Layout(Imprisoned(n)) /\ Total(Imprisoned(n)) <= MaxBets
           /\ \A b \in DOMAIN Imprisoned(n) : b.spot.type \in RouletteTypes
<1>1. CASE Imprisoned(n) = EmptyBag
  <2>1. DOMAIN EmptyBag = {} BY DEF EmptyBag, SetToBag
  <2> HIDE DEF EmptyBag
  <2> QED BY <1>1, <2>1, EmptyLayout, TableAssumption
<1>2. CASE Imprisoned(n) = [b \in {b \in DOMAIN state.bets : b.spot.type \in EvenMoney} |-> state.bets[b]]
  <2> DEFINE D == DOMAIN state.bets
             A == {b \in D : b.spot.type \in EvenMoney}
             g == [b \in A |-> state.bets[b]]
             h == [b \in D \ A |-> state.bets[b]]
  <2>1. IsFiniteSet(D) /\ state.bets \in [D -> Nat] /\ A \in SUBSET D BY DEF RouletteInv, Layout
  <2>2. \A b \in D : state.bets[b] \in Nat /\ b.amount \in Nat /\ b.spot.type \in RouletteTypes
    BY DEF RouletteInv, Layout
  <2> HIDE DEF D, A
  <2>3. IsFiniteSet(A) /\ IsFiniteSet(D \ A) BY <2>1, FS_Subset
  <2>4. g \in [A -> Nat] /\ h \in [D \ A -> Nat] BY <2>1, <2>2
  <2>5. Layout(g) BY <2>1, <2>2, <2>3, <2>4 DEF Layout
  <2>6. Total(state.bets) = Total(g) + Total(h) BY <2>1, TotalSplit
  <2>7. DOMAIN g = A OBVIOUS
  <2> HIDE DEF g, h
  <2>8. Total(g) \in Nat /\ Total(h) \in Nat BY <2>3, <2>4, TotalType
  <2>9. Total(g) <= MaxBets BY <2>6, <2>8, TableAssumption DEF RouletteInv
  <2>10. Imprisoned(n) = g BY <1>2 DEF g, A, D
  <2> QED BY <2>1, <2>2, <2>5, <2>7, <2>9, <2>10
<1> QED BY <1>1, <1>2 DEF Imprisoned

\* A session starts without bets of its own.
LEMMA RouletteInitInv == RouletteInit => RouletteInv /\ game = "Roulette"
<1> SUFFICES ASSUME RouletteInit PROVE RouletteInv /\ game = "Roulette" OBVIOUS
<1>1. PICK b \in OpeningBets :
        Begins("Roulette", b, b, [rule |-> "Standard", phase |-> "Betting", wagered |-> 0,
                                  pending |-> 0, bets |-> EmptyBag, spun |-> -1])
  BY DEF RouletteInit, StartsEmpty
<1>2. b \in Nat BY TableAssumption
<1>3. \A m \in mults : m.by \in Nat BY <1>1, RouletteMultipliersType DEF Begins
<1>4. /\ game = "Roulette" /\ charged = b /\ settled = b /\ result = Open
      /\ state = [rule |-> "Standard", phase |-> "Betting", wagered |-> 0,
                  pending |-> 0, bets |-> EmptyBag, spun |-> -1]
  BY <1>1 DEF Begins
<1>5. DOMAIN EmptyBag = {} BY DEF EmptyBag, SetToBag
<1> HIDE DEF EmptyBag
<1> QED BY <1>2, <1>3, <1>4, <1>5, EmptyLayout, TableAssumption DEF RouletteInv, Books, Open, ZeroRules

\* A spin that ends the game with a loss reports what was wagered.
LEMMA RouletteEndInv ==
    ASSUME RouletteInv, IsOpen("Roulette"), NEW n, NEW return,
           RouletteEnd([state EXCEPT !.spun = n], return)
    PROVE  RouletteInv' /\ game' = "Roulette"
<1>1. PICK kind, amount :
        /\ kind \in {"Win", "LossPreDeducted"}
        /\ state' = [state EXCEPT !.spun = n] /\ result' = [kind |-> kind, amount |-> amount]
        /\ kind = "LossPreDeducted" => amount = state.wagered
        /\ UNCHANGED <<session, charged, settled>>
  <2>1. CASE return > 0 BY <2>1 DEF RouletteEnd, Ends
  <2>2. CASE ~(return > 0) BY <2>2 DEF RouletteEnd, Ends
  <2> QED BY <2>1, <2>2
<1>2. /\ state'.rule = state.rule /\ state'.phase = state.phase /\ state'.wagered = state.wagered
      /\ state'.pending = state.pending /\ state'.bets = state.bets
      /\ state' = [rule |-> state'.rule, phase |-> state'.phase, wagered |-> state'.wagered,
                   pending |-> state'.pending, bets |-> state'.bets, spun |-> state'.spun]
  BY <1>1 DEF RouletteInv
<1> QED BY <1>1, <1>2 DEF RouletteInv, Books, session, IsOpen, Open

\* What a step that leaves the game open has to keep.
LEMMA RouletteStays ==
    ASSUME RouletteInv, IsOpen("Roulette"), UNCHANGED <<session, settled>>,
           result'.kind \in {"Open", "Credited"},
           NEW rule \in ZeroRules, NEW phase \in {"Betting", "Prison"}, NEW wagered \in Nat,
           NEW pending \in Nat, NEW bets, NEW spun,
           state' = [rule |-> rule, phase |-> phase, wagered |-> wagered,
                     pending |-> pending, bets |-> bets, spun |-> spun],
           Layout(bets), Total(bets) <= MaxBets, \A b \in DOMAIN bets : b.spot.type \in RouletteTypes,
           charged' \in Int, result' = Open => wagered = charged' - settled',
           result'.kind = "Credited" => wagered = charged' - settled' + 2 * I64Range
    PROVE  RouletteInv' /\ game' = "Roulette"
<1>1. /\ state'.rule = rule /\ state'.phase = phase /\ state'.wagered = wagered
      /\ state'.pending = pending /\ state'.bets = bets
      /\ state' = [rule |-> state'.rule, phase |-> state'.phase, wagered |-> state'.wagered,
                   pending |-> state'.pending, bets |-> state'.bets, spun |-> state'.spun]
  OBVIOUS
<1> QED BY <1>1 DEF RouletteInv, Books, session, IsOpen, Open

\* Every move of Roulette keeps the books.
LEMMA RouletteNextInv == RouletteInv /\ RouletteNext => RouletteInv' /\ game' = "Roulette"
<1> SUFFICES ASSUME RouletteInv, RouletteNext PROVE RouletteInv' /\ game' = "Roulette" OBVIOUS
<1>1. /\ state = [rule |-> state.rule, phase |-> state.phase, wagered |-> state.wagered,
                  pending |-> state.pending, bets |-> state.bets, spun |-> state.spun]
      /\ state.rule \in ZeroRules /\ state.phase \in {"Betting", "Prison"}
      /\ state.wagered \in Nat /\ state.pending \in Nat
      /\ Layout(state.bets) /\ Total(state.bets) <= MaxBets
      /\ \A b \in DOMAIN state.bets : b.spot.type \in RouletteTypes
      /\ charged \in Int /\ settled \in Int
  BY DEF RouletteInv
<1>2. ASSUME NEW spot \in RouletteSpots, NEW n \in Payloads, RoulettePlace(spot, n)
      PROVE  RouletteInv' /\ game' = "Roulette"
  <2> DEFINE bets == Placed(state.bets, spot, n)
  <2>1. n \in Nat BY TableAssumption
  <2>2. /\ IsOpen("Roulette") /\ Total(state.bets) < MaxBets
        /\ BetsUnchecked([state EXCEPT !.bets = bets, !.wagered = @ + n], n)
    BY <1>2, Zenon DEF RoulettePlace, RouletteBetting
  <2>3. /\ Layout(bets) /\ Total(bets) = Total(state.bets) + 1
        /\ DOMAIN bets = DOMAIN state.bets \cup {[spot |-> spot, amount |-> n]}
    <3>1. Layout(state.bets) BY <1>1
    <3> QED BY <2>1, <3>1, PlacedLayout, Zenon
  <2> HIDE DEF bets
  <2>4. Total(bets) <= MaxBets
    <3>1. Total(state.bets) \in Nat BY <1>1, LayoutCosts
    <3> QED BY <2>2, <2>3, <3>1, TableAssumption
  <2>5. spot.type \in RouletteTypes BY RouletteSpotsType
  <2>6. \A b \in DOMAIN bets : b.spot.type \in RouletteTypes
    <3>1. SUFFICES ASSUME NEW b \in DOMAIN bets PROVE b.spot.type \in RouletteTypes OBVIOUS
    <3>2. b \in DOMAIN state.bets \/ b = [spot |-> spot, amount |-> n] BY <2>3
    <3> HIDE DEF RouletteTypes
    <3> QED BY <1>1, <2>5, <3>2
  <2>7. [state EXCEPT !.bets = bets, !.wagered = @ + n] =
          [rule |-> state.rule, phase |-> state.phase, wagered |-> state.wagered + n,
           pending |-> state.pending, bets |-> bets, spun |-> state.spun]
    <3>1. PICK s : s = [state EXCEPT !.bets = bets] OBVIOUS
    <3>2. s = [rule |-> state.rule, phase |-> state.phase, wagered |-> state.wagered,
               pending |-> state.pending, bets |-> bets, spun |-> state.spun]
      BY <1>1, <3>1
    <3>3. [s EXCEPT !.wagered = @ + n] =
            [rule |-> state.rule, phase |-> state.phase, wagered |-> state.wagered + n,
             pending |-> state.pending, bets |-> bets, spun |-> state.spun]
      BY <3>2
    <3>4. [state EXCEPT !.bets = bets, !.wagered = @ + n] = [s EXCEPT !.wagered = @ + n] BY <3>1
    <3> QED BY <3>3, <3>4
  <2>8. /\ state' = [state EXCEPT !.bets = bets, !.wagered = @ + n]
        /\ UNCHANGED <<session, settled>> /\ charged' \in Int /\ state.wagered + n \in Nat
        /\ result'.kind \in {"Open", "Credited"}
        /\ result' = Open => state.wagered + n = charged' - settled'
        /\ result'.kind = "Credited" => state.wagered + n = charged' - settled' + 2 * I64Range
    <3>1. result = Open /\ Books(state.wagered) BY <2>2 DEF RouletteInv, IsOpen
    <3>2. state.wagered \in Int /\ state.wagered + n \in Int /\ state.wagered + n \in Nat BY <1>1, <2>1
    <3> QED BY <1>1, <2>2, <3>1, <3>2, BetIsCharged
  <2> QED BY <1>1, <2>2, <2>3, <2>4, <2>6, <2>7, <2>8, RouletteStays
<1>3. ASSUME IsOpen("Roulette"), NEW rule \in ZeroRules, NEW phase \in {"Betting", "Prison"},
             NEW pending \in Nat, NEW bets, NEW spun,
             Continues([rule |-> rule, phase |-> phase, wagered |-> state.wagered,
                        pending |-> pending, bets |-> bets, spun |-> spun]),
             Layout(bets), Total(bets) <= MaxBets, \A b \in DOMAIN bets : b.spot.type \in RouletteTypes
      PROVE  RouletteInv' /\ game' = "Roulette"
  <2>1. /\ state' = [rule |-> rule, phase |-> phase, wagered |-> state.wagered,
                     pending |-> pending, bets |-> bets, spun |-> spun]
        /\ settled' = settled + 0 /\ UNCHANGED <<session, charged, result>>
    BY <1>3 DEF Continues, Pays
  <2>2. /\ settled' = settled /\ charged' \in Int /\ state.wagered = charged' - settled'
        /\ result'.kind = "Open"
    BY <1>1, <1>3, <2>1 DEF RouletteInv, Books, IsOpen, Open
  <2> QED BY <1>1, <1>3, <2>1, <2>2, RouletteStays
<1>4. CASE RouletteClear
  <2>1. IsOpen("Roulette") /\ Continues([state EXCEPT !.bets = EmptyBag])
    BY <1>4 DEF RouletteClear, RouletteBetting
  <2>2. DOMAIN EmptyBag = {} BY DEF EmptyBag, SetToBag
  <2> HIDE DEF EmptyBag
  <2>3. [state EXCEPT !.bets = EmptyBag] =
          [rule |-> state.rule, phase |-> state.phase, wagered |-> state.wagered,
           pending |-> state.pending, bets |-> EmptyBag, spun |-> state.spun]
    BY <1>1
  <2>4. Layout(EmptyBag) /\ Total(EmptyBag) <= MaxBets BY EmptyLayout, TableAssumption
  <2>5. \A b \in DOMAIN EmptyBag : b.spot.type \in RouletteTypes BY <2>2
  <2> QED BY <1>1, <1>3, <2>1, <2>3, <2>4, <2>5
<1>5. ASSUME NEW rule \in ZeroRules, RouletteRule(rule) PROVE RouletteInv' /\ game' = "Roulette"
  <2>1. IsOpen("Roulette") /\ Continues([state EXCEPT !.rule = rule])
    BY <1>5 DEF RouletteRule, RouletteBetting
  <2>2. [state EXCEPT !.rule = rule] =
          [rule |-> rule, phase |-> state.phase, wagered |-> state.wagered,
           pending |-> state.pending, bets |-> state.bets, spun |-> state.spun]
    BY <1>1
  <2> QED BY <1>1, <1>3, <2>1, <2>2
<1>6. CASE RouletteSpin
  <2>1. PICK n : LET return == BoostedBy("Number", n, ReturnedOn(n))
                     held == Imprisoned(n)
                 IN  IF held # EmptyBag
                     THEN Continues([state EXCEPT !.spun = n, !.phase = "Prison",
                                                  !.bets = held, !.pending = return])
                     ELSE RouletteEnd([state EXCEPT !.spun = n], return)
    BY <1>6, Zenon DEF RouletteSpin
  <2>2. IsOpen("Roulette") BY <1>6 DEF RouletteSpin, RouletteBetting
  <2> DEFINE return == BoostedBy("Number", n, ReturnedOn(n))
             held == Imprisoned(n)
  <2>3. return \in Nat BY ReturnedOnType, BoostedByType DEF RouletteInv
  <2>4. Layout(held) /\ Total(held) <= MaxBets /\ \A b \in DOMAIN held : b.spot.type \in RouletteTypes
    BY ImprisonedLayout
  <2> HIDE DEF return, held
  <2>5. CASE Continues([state EXCEPT !.spun = n, !.phase = "Prison", !.bets = held, !.pending = return])
    <3>1. [state EXCEPT !.spun = n, !.phase = "Prison", !.bets = held, !.pending = return] =
            [rule |-> state.rule, phase |-> "Prison", wagered |-> state.wagered,
             pending |-> return, bets |-> held, spun |-> n]
      <4>1. PICK s : s = [state EXCEPT !.spun = n] OBVIOUS
      <4>2. s = [rule |-> state.rule, phase |-> state.phase, wagered |-> state.wagered,
                 pending |-> state.pending, bets |-> state.bets, spun |-> n]
        BY <1>1, <4>1
      <4>3. PICK t : t = [s EXCEPT !.phase = "Prison"] OBVIOUS
      <4>4. t = [rule |-> state.rule, phase |-> "Prison", wagered |-> state.wagered,
                 pending |-> state.pending, bets |-> state.bets, spun |-> n]
        BY <4>2, <4>3
      <4>5. PICK u : u = [t EXCEPT !.bets = held] OBVIOUS
      <4>6. u = [rule |-> state.rule, phase |-> "Prison", wagered |-> state.wagered,
                 pending |-> state.pending, bets |-> held, spun |-> n]
        BY <4>4, <4>5
      <4>7. [u EXCEPT !.pending = return] =
              [rule |-> state.rule, phase |-> "Prison", wagered |-> state.wagered,
               pending |-> return, bets |-> held, spun |-> n]
        BY <4>6
      <4>8. [state EXCEPT !.spun = n, !.phase = "Prison", !.bets = held, !.pending = return]
              = [u EXCEPT !.pending = return]
        BY <4>1, <4>3, <4>5
      <4> QED BY <4>7, <4>8
    <3> QED BY <1>1, <1>3, <2>2, <2>3, <2>4, <2>5, <3>1
  <2>6. CASE RouletteEnd([state EXCEPT !.spun = n], return) BY <2>2, <2>6, RouletteEndInv
  <2> QED BY <2>1, <2>5, <2>6, Zenon DEF return, held
<1>7. CASE RouletteSpinAgain
  <2>1. PICK n : \/ Continues([state EXCEPT !.spun = n])
                 \/ \E return : RouletteEnd([state EXCEPT !.spun = n], return)
    BY <1>7, Zenon DEF RouletteSpinAgain
  <2>2. IsOpen("Roulette") BY <1>7 DEF RouletteSpinAgain
  <2>3. CASE Continues([state EXCEPT !.spun = n])
    <3>1. [state EXCEPT !.spun = n] =
            [rule |-> state.rule, phase |-> state.phase, wagered |-> state.wagered,
             pending |-> state.pending, bets |-> state.bets, spun |-> n]
      BY <1>1
    <3> QED BY <1>1, <1>3, <2>2, <2>3, <3>1
  <2>4. CASE \E return : RouletteEnd([state EXCEPT !.spun = n], return)
    BY <2>2, <2>4, RouletteEndInv
  <2> QED BY <2>1, <2>3, <2>4
<1> QED BY <1>2, <1>4, <1>5, <1>6, <1>7 DEF RouletteNext

----------------------------------------------------------------------------
(* Baccarat: the hands are made of different cards of the shoe. *)

BaccaratInv ==
    /\ charged \in Int /\ settled \in Int
    /\ state = [bets |-> state.bets, hands |-> state.hands]
    /\ state.bets \in [BaccaratBets -> Nat]
    /\ Len(state.hands.player) <= MaxHandSize /\ Len(state.hands.banker) <= MaxHandSize
    /\ \A c \in BaccaratDeck : Copies(state.hands.player \o state.hands.banker, c) <= BaccaratDecks
    /\ Books(Total(state.bets))
    /\ result.kind = "LossPreDeducted" => result.amount = charged - settled

\* There are six types of bets.
LEMMA BaccaratBetsFinite == IsFiniteSet(BaccaratBets) /\ Cardinality(BaccaratBets) <= 6
<1> DEFINE m == [i \in 1 .. 6 |-> <<"Player", "Banker", "Tie", "PlayerPair", "BankerPair", "Lucky6">>[i]]
<1>1. m \in [1 .. 6 -> BaccaratBets] BY DEF BaccaratBets
<1>2. \A t \in BaccaratBets : \E i \in 1 .. 6 : m[i] = t
  <2>1. /\ m[1] = "Player" /\ m[2] = "Banker" /\ m[3] = "Tie" /\ m[4] = "PlayerPair"
        /\ m[5] = "BankerPair" /\ m[6] = "Lucky6"
    OBVIOUS
  <2> HIDE DEF m
  <2> QED BY <2>1 DEF BaccaratBets
<1> HIDE DEF m
<1>3. m \in Surjection(1 .. 6, BaccaratBets) BY <1>1, <1>2, Zenon DEF Surjection
<1>4. IsFiniteSet(1 .. 6) /\ Cardinality(1 .. 6) = 6
  <2>1. 1 \in Int /\ 6 \in Int OBVIOUS
  <2>2. IsFiniteSet(1 .. 6) /\ Cardinality(1 .. 6) = IF 1 > 6 THEN 0 ELSE 6 - 1 + 1
    BY <2>1, FS_Interval, Zenon
  <2> QED BY <2>2
<1>5. IsFiniteSet(BaccaratBets) /\ Cardinality(BaccaratBets) <= Cardinality(1 .. 6)
  BY <1>3, <1>4, FS_Surjection, Zenon
<1> QED BY <1>4, <1>5

\* A hand of two cards, with or without a third.
IsPuncto(hand, S, a, b, c) ==
    /\ hand \in Seq(S) /\ Len(hand) \in 2 .. 3
    /\ hand[1] = a /\ hand[2] = b /\ (Len(hand) = 3 => hand[3] = c)

\* Two cards and perhaps a third.
LEMMA PunctoHand ==
    ASSUME NEW S, NEW a \in S, NEW b \in S, NEW c \in S, NEW third \in {<<>>, <<c>>},
           NEW hand, hand = <<a, b>> \o third
    PROVE  IsPuncto(hand, S, a, b, c)
<1> DEFINE two == <<a, b>>
<1>1. two \in Seq(S) /\ Len(two) = 2 /\ two[1] = a /\ two[2] = b OBVIOUS
<1>2. third \in Seq(S) /\ Len(third) \in 0 .. 1 /\ (Len(third) = 1 => third[1] = c)
  <2>1. CASE third = <<>> BY <2>1
  <2>2. CASE third = <<c>> BY <2>2
  <2> QED BY <2>1, <2>2
<1> HIDE DEF two
<1>3. /\ hand \in Seq(S) /\ Len(hand) = Len(two) + Len(third)
      /\ \A i \in 1 .. Len(two) + Len(third) :
           hand[i] = IF i <= Len(two) THEN two[i] ELSE third[i - Len(two)]
  BY <1>1, <1>2, ConcatProperties DEF two
<1>4. /\ hand[1] = two[1] /\ hand[2] = two[2]
      /\ Len(third) = 1 => hand[3] = third[1]
  BY <1>1, <1>2, <1>3
<1> QED BY <1>1, <1>2, <1>3, <1>4 DEF IsPuncto

\* Two such hands, from different places of the shoe.
LEMMA PunctoCopies ==
    ASSUME NEW S, NEW shoe \in Seq(S), DOMAIN shoe = 1 .. 6,
           NEW p \in Seq(S), Len(p) \in 2 .. 3, p[1] = shoe[1], p[2] = shoe[2],
           Len(p) = 3 => p[3] = shoe[5],
           NEW b \in Seq(S), Len(b) \in 2 .. 3, b[1] = shoe[3], b[2] = shoe[4],
           Len(b) = 3 => b[3] = shoe[6],
           NEW c
    PROVE  Copies(p \o b, c) <= Copies(shoe, c)
<1> DEFINE n == Len(p)
           k == Len(b)
           all == p \o b
           Place(i) == IF i <= n THEN IF i = 3 THEN 5 ELSE i
                       ELSE IF i - n = 3 THEN 6 ELSE i - n + 2
           from == [i \in 1 .. n + k |-> Place(i)]
<1>1. /\ all \in Seq(S) /\ Len(all) = n + k
      /\ \A i \in 1 .. n + k : all[i] = IF i <= n THEN p[i] ELSE b[i - n]
  BY ConcatProperties
<1>2. DOMAIN all = 1 .. n + k BY <1>1, LenProperties
<1> HIDE DEF all, n, k
<1>3. n \in 2 .. 3 /\ k \in 2 .. 3 BY DEF n, k
<1>4. ASSUME NEW i \in 1 .. n + k PROVE Place(i) \in 1 .. 6 /\ all[i] = shoe[Place(i)]
  <2>1. CASE i <= n
    <3>1. i = 1 \/ i = 2 \/ (i = 3 /\ n = 3) BY <1>3, <2>1
    <3> QED BY <1>1, <2>1, <3>1 DEF n
  <2>2. CASE ~(i <= n)
    <3>1. i - n = 1 \/ i - n = 2 \/ (i - n = 3 /\ k = 3) BY <1>3, <2>2
    <3>2. all[i] = b[i - n] BY <1>1, <2>2
    <3>3. Place(i) = IF i - n = 3 THEN 6 ELSE i - n + 2 BY <2>2
    <3> HIDE DEF Place
    <3>4. CASE i - n = 1 BY <3>2, <3>3, <3>4
    <3>5. CASE i - n = 2 BY <3>2, <3>3, <3>5
    <3>6. CASE i - n = 3 /\ k = 3 BY <3>2, <3>3, <3>6 DEF k
    <3> QED BY <3>1, <3>4, <3>5, <3>6
  <2> QED BY <2>1, <2>2
<1>5. ASSUME NEW i \in 1 .. n + k, NEW j \in 1 .. n + k, Place(i) = Place(j) PROVE i = j
  <2>1. CASE n = 2 BY <1>3, <1>5, <2>1
  <2>2. CASE n = 3 BY <1>3, <1>5, <2>2
  <2> QED BY <1>3, <2>1, <2>2
<1>6. \A i \in DOMAIN all : from[i] = Place(i) BY <1>2
<1> HIDE DEF from, Place
<1>7. \A i \in DOMAIN all : from[i] \in DOMAIN shoe /\ all[i] = shoe[from[i]]
  BY <1>2, <1>4, <1>6
<1>8. \A i, j \in DOMAIN all : from[i] = from[j] => i = j BY <1>2, <1>5, <1>6
<1>9. Copies(all, c) <= Copies(shoe, c) BY <1>1, <1>7, <1>8, CopiesFrom
<1> QED BY <1>9 DEF all

\* The third cards come from places of the shoe that nobody else uses.
LEMMA PunctoHandsRespectTheShoe ==
    ASSUME NEW shoe \in Deals(BaccaratDeck, BaccaratDecks, Known(BaccaratDeck, <<>>), 6)
    PROVE  LET hands == PunctoHands(shoe)
           IN  /\ Len(hands.player) <= MaxHandSize /\ Len(hands.banker) <= MaxHandSize
               /\ \A c \in BaccaratDeck : Copies(hands.player \o hands.banker, c) <= BaccaratDecks
<1> DEFINE known == Known(BaccaratDeck, <<>>)
<1>1. known \in [BaccaratDeck -> Nat] /\ \A c \in BaccaratDeck : known[c] = 0
  BY CopiesNone DEF Known
<1>2. BaccaratDecks \in Nat /\ 6 \in Nat /\ \A c \in BaccaratDeck : known[c] <= BaccaratDecks
  BY <1>1, BaccaratAssumption
<1>3. shoe \in Deals(BaccaratDeck, BaccaratDecks, known, 6) OBVIOUS
<1> HIDE DEF known
<1>4. /\ shoe \in Seq(BaccaratDeck) /\ Len(shoe) = 6 /\ DOMAIN shoe = 1 .. 6
      /\ \A i \in 1 .. 6 : shoe[i] \in BaccaratDeck
      /\ \A c \in BaccaratDeck : known[c] + Copies(shoe, c) <= BaccaratDecks
  BY <1>1, <1>2, <1>3, DealsRespectTheShoe, Zenon
<1>5. PICK p, b : p = PunctoHands(shoe).player /\ b = PunctoHands(shoe).banker OBVIOUS
<1>6. /\ \E third : (third = <<>> \/ third = <<shoe[5]>>) /\ p = <<shoe[1], shoe[2]>> \o third
      /\ \E third : (third = <<>> \/ third = <<shoe[6]>>) /\ b = <<shoe[3], shoe[4]>> \o third
  <2>1. PICK third, fourth :
          /\ third = <<>> \/ third = <<shoe[5]>>
          /\ fourth = <<>> \/ fourth = <<shoe[6]>>
          /\ PunctoHands(shoe) = [player |-> <<shoe[1], shoe[2]>> \o third,
                                  banker |-> <<shoe[3], shoe[4]>> \o fourth]
    BY Zenon DEF PunctoHands
  <2>2. p = <<shoe[1], shoe[2]>> \o third /\ b = <<shoe[3], shoe[4]>> \o fourth
    BY <1>5, <2>1
  <2> QED BY <2>1, <2>2, Zenon
<1>7. /\ shoe[1] \in BaccaratDeck /\ shoe[2] \in BaccaratDeck /\ shoe[3] \in BaccaratDeck
      /\ shoe[4] \in BaccaratDeck /\ shoe[5] \in BaccaratDeck /\ shoe[6] \in BaccaratDeck
  BY <1>4
<1>8. /\ p \in Seq(BaccaratDeck) /\ Len(p) \in 2 .. 3
      /\ p[1] = shoe[1] /\ p[2] = shoe[2] /\ (Len(p) = 3 => p[3] = shoe[5])
  <2>1. PICK third : (third = <<>> \/ third = <<shoe[5]>>) /\ p = <<shoe[1], shoe[2]>> \o third
    BY <1>6, Zenon
  <2>2. PICK x, y, z : x = shoe[1] /\ y = shoe[2] /\ z = shoe[5] OBVIOUS
  <2>3. /\ x \in BaccaratDeck /\ y \in BaccaratDeck /\ z \in BaccaratDeck
        /\ third \in {<<>>, <<z>>}
        /\ p = <<x, y>> \o third
    BY <1>7, <2>1, <2>2, Zenon
  <2>4. IsPuncto(p, BaccaratDeck, x, y, z) BY <2>3, PunctoHand, Zenon
  <2> QED BY <2>2, <2>4, Zenon DEF IsPuncto
<1>9. /\ b \in Seq(BaccaratDeck) /\ Len(b) \in 2 .. 3
      /\ b[1] = shoe[3] /\ b[2] = shoe[4] /\ (Len(b) = 3 => b[3] = shoe[6])
  <2>1. PICK third : (third = <<>> \/ third = <<shoe[6]>>) /\ b = <<shoe[3], shoe[4]>> \o third
    BY <1>6, Zenon
  <2>2. PICK x, y, z : x = shoe[3] /\ y = shoe[4] /\ z = shoe[6] OBVIOUS
  <2>3. /\ x \in BaccaratDeck /\ y \in BaccaratDeck /\ z \in BaccaratDeck
        /\ third \in {<<>>, <<z>>}
        /\ b = <<x, y>> \o third
    BY <1>7, <2>1, <2>2, Zenon
  <2>4. IsPuncto(b, BaccaratDeck, x, y, z) BY <2>3, PunctoHand, Zenon
  <2> QED BY <2>2, <2>4, Zenon DEF IsPuncto
<1>10. \A c \in BaccaratDeck : Copies(p \o b, c) <= Copies(shoe, c)
  BY <1>4, <1>8, <1>9, PunctoCopies, Zenon
<1>11. p \o b \in Seq(BaccaratDeck) BY <1>8, <1>9, ConcatProperties
<1>12. \A c \in BaccaratDeck : Copies(p \o b, c) \in Nat /\ Copies(shoe, c) \in Nat
  BY <1>4, <1>11, CopiesType, Zenon
<1>13. \A c \in BaccaratDeck : Copies(p \o b, c) <= BaccaratDecks
  <2> SUFFICES ASSUME NEW c \in BaccaratDeck PROVE Copies(p \o b, c) <= BaccaratDecks OBVIOUS
  <2>1. known[c] = 0 /\ known[c] + Copies(shoe, c) <= BaccaratDecks BY <1>1, <1>4, Zenon
  <2>2. Copies(p \o b, c) <= Copies(shoe, c) /\ Copies(p \o b, c) \in Nat /\ Copies(shoe, c) \in Nat
    BY <1>10, <1>12, Zenon
  <2>3. BaccaratDecks \in Nat BY <1>2
  <2> QED BY <2>1, <2>2, <2>3
<1>14. Len(p) <= MaxHandSize /\ Len(b) <= MaxHandSize
  <2>1. Len(p) \in 2 .. 3 /\ Len(b) \in 2 .. 3 BY <1>8, <1>9, Zenon
  <2>2. \A l \in 2 .. 3 : l <= MaxHandSize BY DEF MaxHandSize
  <2> QED BY <2>1, <2>2, Zenon
<1> QED BY <1>5, <1>13, <1>14, Zenon

\* A session starts without bets of its own.
LEMMA BaccaratInitInv == BaccaratInit => BaccaratInv /\ game = "Baccarat"
<1> SUFFICES ASSUME BaccaratInit PROVE BaccaratInv /\ game = "Baccarat" OBVIOUS
<1>1. PICK b \in OpeningBets :
        Begins("Baccarat", b, b, [bets |-> NoBaccaratBets, hands |-> NoHands])
  BY DEF BaccaratInit, StartsEmpty
<1>2. b \in Nat BY TableAssumption
<1>3. NoBaccaratBets \in [BaccaratBets -> Nat] /\ Total(NoBaccaratBets) = 0
  BY TotalEmpty DEF NoBaccaratBets
<1>4. \A c \in BaccaratDeck : Copies(<<>>, c) <= BaccaratDecks BY CopiesNone, BaccaratAssumption
<1>5. Len(<<>>) <= MaxHandSize /\ <<>> \o <<>> = <<>> BY DEF MaxHandSize
<1>6. /\ state = [bets |-> NoBaccaratBets, hands |-> NoHands] /\ game = "Baccarat"
      /\ charged = b /\ settled = b /\ result = Open
  BY <1>1 DEF Begins
<1>7. /\ state.bets = NoBaccaratBets /\ state.hands.player = <<>> /\ state.hands.banker = <<>>
      /\ state = [bets |-> state.bets, hands |-> state.hands]
  BY <1>6 DEF NoHands
<1> HIDE DEF NoBaccaratBets
<1>8. /\ Len(state.hands.player) <= MaxHandSize /\ Len(state.hands.banker) <= MaxHandSize
      /\ \A c \in BaccaratDeck : Copies(state.hands.player \o state.hands.banker, c) <= BaccaratDecks
  BY <1>4, <1>5, <1>7
<1>9. Total(state.bets) = charged - settled BY <1>2, <1>3, <1>6, <1>7
<1> QED BY <1>2, <1>3, <1>6, <1>7, <1>8, <1>9 DEF BaccaratInv, Books, Open

\* Every move of Baccarat keeps the books.
LEMMA BaccaratNextInv == BaccaratInv /\ BaccaratNext => BaccaratInv' /\ game' = "Baccarat"
<1> SUFFICES ASSUME BaccaratInv, BaccaratNext PROVE BaccaratInv' /\ game' = "Baccarat" OBVIOUS
<1>1. /\ state = [bets |-> state.bets, hands |-> state.hands] /\ state.bets \in [BaccaratBets -> Nat]
      /\ Total(state.bets) \in Nat /\ charged \in Int /\ settled \in Int
  BY BaccaratBetsFinite, TotalType DEF BaccaratInv
<1>2. ASSUME NEW type \in BaccaratBets, NEW n \in Payloads, BaccaratPlace(type, n)
      PROVE  BaccaratInv' /\ game' = "Baccarat"
  <2> DEFINE bets == Add(state.bets, type, n)
  <2>1. n \in Nat BY TableAssumption
  <2>2. game = "Baccarat" /\ result = Open /\ BetsUnchecked([state EXCEPT !.bets[type] = @ + n], n)
    BY <1>2 DEF BaccaratPlace, IsOpen
  <2>3. bets \in [BaccaratBets -> Nat] BY <1>1, <2>1, AddType
  <2>4. Total(bets) = Total(state.bets) + n BY <1>1, <2>1, BaccaratBetsFinite, TotalAdd
  <2>5. [state EXCEPT !.bets[type] = @ + n] = [state EXCEPT !.bets = bets] BY <1>1 DEF Add
  <2> HIDE DEF bets
  <2>6. Total(bets) \in Int /\ Total(state.bets) \in Int BY <1>1, <2>1, <2>4
  <2>7. /\ state' = [state EXCEPT !.bets = bets] /\ UNCHANGED <<session, settled>> /\ charged' \in Int
        /\ result'.kind \in {"Open", "Credited"}
        /\ result' = Open => Total(bets) = charged' - settled'
        /\ result'.kind = "Credited" => Total(bets) = charged' - settled' + 2 * I64Range
    <3>1. Books(Total(state.bets)) BY DEF BaccaratInv
    <3>2. BetsUnchecked([state EXCEPT !.bets = bets], n) BY <2>2, <2>5, Zenon
    <3> QED BY <1>1, <2>2, <2>4, <2>6, <3>1, <3>2, BetIsCharged
  <2>8. /\ state'.bets = bets /\ state'.hands = state.hands
        /\ state' = [bets |-> state'.bets, hands |-> state'.hands]
    BY <1>1, <2>7
  <2> QED BY <1>1, <2>2, <2>3, <2>7, <2>8 DEF BaccaratInv, Books, session
<1>3. CASE BaccaratClear
  <2>1. /\ game = "Baccarat" /\ result = Open /\ state' = [state EXCEPT !.bets = NoBaccaratBets]
        /\ settled' = settled + Total(state.bets) /\ UNCHANGED <<session, charged, result>>
    BY <1>3 DEF BaccaratClear, IsOpen, Pays
  <2>2. NoBaccaratBets \in [BaccaratBets -> Nat] /\ Total(NoBaccaratBets) = 0
    BY TotalEmpty DEF NoBaccaratBets
  <2>3. /\ state'.bets = NoBaccaratBets /\ state'.hands = state.hands
        /\ state' = [bets |-> state'.bets, hands |-> state'.hands]
    BY <1>1, <2>1
  <2> QED BY <1>1, <2>1, <2>2, <2>3 DEF BaccaratInv, Books, session, Open
<1>4. CASE BaccaratDeal
  <2>1. PICK shoe \in Deals(BaccaratDeck, BaccaratDecks, Known(BaccaratDeck, <<>>), 6) :
          BaccaratSettle(PunctoHands(shoe))
    BY <1>4 DEF BaccaratDeal
  <2>2. game = "Baccarat" /\ result = Open BY <1>4 DEF BaccaratDeal, IsOpen
  <2> DEFINE hands == PunctoHands(shoe)
  <2>3. /\ Len(hands.player) <= MaxHandSize /\ Len(hands.banker) <= MaxHandSize
        /\ \A c \in BaccaratDeck : Copies(hands.player \o hands.banker, c) <= BaccaratDecks
    BY PunctoHandsRespectTheShoe
  <2> HIDE DEF hands
  <2>4. \/ Ends([state EXCEPT !.hands = hands], "LossPreDeducted", Total(state.bets))
        \/ \E n : Ends([state EXCEPT !.hands = hands], "Win", n)
    BY <2>1, Zenon DEF BaccaratSettle, hands
  <2>5. PICK kind, n :
          /\ kind \in {"Win", "LossPreDeducted"}
          /\ state' = [state EXCEPT !.hands = hands] /\ result' = [kind |-> kind, amount |-> n]
          /\ kind = "LossPreDeducted" => n = Total(state.bets)
          /\ UNCHANGED <<session, charged, settled>>
    BY <2>4 DEF Ends
  <2>6. /\ state'.bets = state.bets /\ state'.hands = hands
        /\ state' = [bets |-> state'.bets, hands |-> state'.hands]
    BY <1>1, <2>5
  <2> QED BY <1>1, <2>2, <2>3, <2>5, <2>6 DEF BaccaratInv, Books, session, Open
<1> QED BY <1>2, <1>3, <1>4 DEF BaccaratNext

----------------------------------------------------------------------------
(* Blackjack: the hands after the one that is played are all still to be   *)
(* played, so that only the last hand can bust all; what hands and dealer  *)
(* hold comes from one shoe.                                               *)

HandStatus == {"Playing", "Standing", "Busted", "Blackjack"}
BlackjackHands ==
    [cards : Seq(BlackjackDeck), mult : {1, 2}, status : HandStatus, split : BOOLEAN]

\* A hand that is hit once too often has one card more than are read back.
HandBound == MaxBlackjackHand + 1

BlackjackShape(s) ==
    /\ s = [stage |-> s.stage, side |-> s.side, first |-> s.first, active |-> s.active,
            hands |-> s.hands, dealer |-> s.dealer]
    /\ s.side \in Nat
    /\ s.hands \in Seq(BlackjackHands) /\ Len(s.hands) <= MaxHands
    /\ \A i \in DOMAIN s.hands : Len(s.hands[i].cards) <= HandBound
    /\ s.dealer \in Seq(BlackjackDeck) /\ Len(s.dealer) <= 1 + DealerDraws
    /\ \A c \in BlackjackDeck : InHands(s.hands, c) + Copies(s.dealer, c) <= BlackjackDecks

BlackjackTurns(s) ==
    /\ s.stage \in {"Betting", "PlayerTurn", "AwaitingReveal", "Complete"}
    /\ s.stage = "Betting" => s.hands = <<>> /\ s.dealer = <<>> /\ s.active = 1
    /\ s.stage \in {"PlayerTurn", "AwaitingReveal"} => Len(s.dealer) = 1
    /\ s.stage = "PlayerTurn" =>
         /\ s.active \in DOMAIN s.hands
         /\ \A i \in DOMAIN s.hands : i >= s.active => s.hands[i].status = "Playing"

BlackjackInv ==
    /\ bet \in Nat /\ charged \in Int /\ settled = 0
    /\ BlackjackShape(state) /\ BlackjackTurns(state)
    /\ result = Open =>
         charged = IF state.stage = "Betting" THEN bet + state.side ELSE BlackjackWagered(state)
    /\ result.kind # "Credited"
    /\ result.kind = "LossPreDeducted" =>
         \/ result.amount = charged
         \/ /\ result.amount = charged + bet
            /\ AllBusted(state) /\ state.hands[Len(state.hands)].mult = 2

\* What the hands are doubled by, and hold of a card.
Mults(hands) == [i \in DOMAIN hands |-> hands[i].mult]
Holding(hands, c) == [i \in DOMAIN hands |-> Copies(hands[i].cards, c)]

\* The multiples of the hands, and their copies of a card, are ledgers over the hands.
LEMMA HandLedgers ==
    ASSUME NEW hands \in Seq(BlackjackHands), NEW c
    PROVE  /\ Len(hands) \in Nat /\ DOMAIN hands = 1 .. Len(hands) /\ IsFiniteSet(DOMAIN hands)
           /\ \A i \in DOMAIN hands : hands[i] \in BlackjackHands
           /\ Mults(hands) \in [DOMAIN hands -> Nat] /\ Total(Mults(hands)) \in Nat
           /\ Holding(hands, c) \in [DOMAIN hands -> Nat] /\ Total(Holding(hands, c)) \in Nat
           /\ InHands(hands, c) = Total(Holding(hands, c))
<1>1. Len(hands) \in Nat /\ DOMAIN hands = 1 .. Len(hands) BY LenProperties, Zenon
<1>2. 1 \in Int /\ Len(hands) \in Int BY <1>1
<1>3. IsFiniteSet(DOMAIN hands) BY <1>1, <1>2, FS_Interval, Zenon
<1>4. \A i \in DOMAIN hands : hands[i] \in BlackjackHands BY <1>1, ElementOfSeq, Zenon
<1>5. \A i \in DOMAIN hands : hands[i].mult \in Nat /\ hands[i].cards \in Seq(BlackjackDeck)
  BY <1>4 DEF BlackjackHands
<1>6. \A i \in DOMAIN hands : Copies(hands[i].cards, c) \in Nat BY <1>5, CopiesType, Zenon
<1>7. Mults(hands) \in [DOMAIN hands -> Nat] BY <1>5 DEF Mults
<1>8. Holding(hands, c) \in [DOMAIN hands -> Nat] BY <1>6 DEF Holding
<1>9. Total(Mults(hands)) \in Nat /\ Total(Holding(hands, c)) \in Nat
  BY <1>3, <1>7, <1>8, TotalType, Zenon
<1>10. InHands(hands, c) = Total(Holding(hands, c)) BY Zenon DEF InHands, Holding
<1> QED BY <1>1, <1>3, <1>4, <1>7, <1>8, <1>9, <1>10

\* One holder gets n more and the others keep what they have.
Raises(P, f, g, p, n) == g[p] = f[p] + n /\ \A q \in P : q # p => g[q] = f[q]

\* ... which raises the total by n.
LEMMA TotalRaised ==
    ASSUME NEW P, IsFiniteSet(P), NEW f \in [P -> Nat], NEW g \in [P -> Nat], NEW p \in P, NEW n \in Nat,
           Raises(P, f, g, p, n)
    PROVE  Total(g) = Total(f) + n
<1>1. g = Add(f, p, n) BY DEF Add, Raises
<1> QED BY <1>1, TotalAdd

\* One holder's share is divided between two neighbours, who get n more.
LEMMA TotalDivided ==
    ASSUME NEW n \in Nat, NEW p \in 1 .. n, NEW k \in Nat,
           NEW f \in [1 .. n -> Nat], NEW g \in [1 .. n + 1 -> Nat],
           \A i \in 1 .. n : i < p => g[i] = f[i],
           \A i \in 1 .. n : i > p => g[i + 1] = f[i],
           g[p] + g[p + 1] = f[p] + k
    PROVE  Total(g) = Total(f) + k
<1> DEFINE P == 1 .. n
           Q == 1 .. n + 1
           base == [i \in Q |-> IF i = p \/ i = p + 1 THEN 0 ELSE g[i]]
           h == [base EXCEPT ![p] = f[p]]
           one == [base EXCEPT ![p] = g[p]]
           r == [i \in P |-> IF i <= p THEN i ELSE i + 1]
           s == [i \in Q |-> IF i <= p THEN i ELSE i - 1]
<1>1. IsFiniteSet(P) /\ IsFiniteSet(Q)
  <2>1. 1 \in Int /\ n \in Int /\ n + 1 \in Int OBVIOUS
  <2> QED BY <2>1, FS_Interval, Zenon
<1>2. /\ p \in P /\ p \in Q /\ p + 1 \in Q /\ p # p + 1
      /\ g[p] \in Nat /\ g[p + 1] \in Nat /\ f[p] \in Nat
  OBVIOUS
<1>3. base \in [Q -> Nat] /\ h \in [Q -> Nat] /\ one \in [Q -> Nat] BY <1>2
<1>4. /\ base[p] = 0 /\ base[p + 1] = 0 /\ h[p] = f[p] /\ h[p + 1] = 0
      /\ one[p] = g[p] /\ one[p + 1] = 0
      /\ \A i \in Q : i # p => h[i] = base[i] /\ one[i] = base[i]
      /\ \A i \in Q : i # p /\ i # p + 1 => base[i] = g[i]
  BY <1>2
<1> HIDE DEF base, h, one
<1>5. Total(h) = Total(base) + f[p]
  <2>1. \A i \in Q : i # p => h[i] = base[i] BY <1>4
  <2>2. h[p] = base[p] + f[p] BY <1>2, <1>4
  <2> HIDE DEF Q
  <2>3. Raises(Q, base, h, p, f[p]) BY <2>1, <2>2, Zenon DEF Raises
  <2> QED BY <1>1, <1>2, <1>3, <2>3, TotalRaised, Zenon
<1>6. Total(one) = Total(base) + g[p]
  <2>1. \A i \in Q : i # p => one[i] = base[i] BY <1>4
  <2>2. one[p] = base[p] + g[p] BY <1>2, <1>4
  <2> HIDE DEF Q
  <2>3. Raises(Q, base, one, p, g[p]) BY <2>1, <2>2, Zenon DEF Raises
  <2> QED BY <1>1, <1>2, <1>3, <2>3, TotalRaised, Zenon
<1>7. Total(g) = Total(one) + g[p + 1]
  <2> DEFINE q == p + 1
  <2>1. \A i \in Q : i # q => g[i] = one[i] BY <1>2, <1>4
  <2>2. g[q] = one[q] + g[q] /\ q \in Q /\ g[q] \in Nat BY <1>2, <1>4
  <2>3. g \in [Q -> Nat] OBVIOUS
  <2> HIDE DEF Q, q
  <2>4. Raises(Q, one, g, q, g[q]) BY <2>1, <2>2, Zenon DEF Raises
  <2>5. Total(g) = Total(one) + g[q] BY <1>1, <1>3, <2>2, <2>3, <2>4, TotalRaised, Zenon
  <2> QED BY <2>5 DEF q
<1>8. \A i \in P : f[i] > 0 => r[i] \in Q /\ f[i] = h[r[i]] /\ s[r[i]] = i
  <2> SUFFICES ASSUME NEW i \in P PROVE r[i] \in Q /\ f[i] = h[r[i]] /\ s[r[i]] = i OBVIOUS
  <2>1. CASE i < p
    <3>1. r[i] = i /\ i \in Q /\ s[i] = i /\ i # p /\ i # p + 1 BY <2>1
    <3>2. h[i] = g[i] BY <1>4, <3>1, Zenon
    <3> QED BY <2>1, <3>1, <3>2
  <2>2. CASE i = p BY <1>2, <1>4, <2>2
  <2>3. CASE i > p
    <3> DEFINE j == i + 1
    <3>1. r[i] = j /\ j \in Q /\ s[j] = i /\ j # p /\ j # p + 1 /\ g[j] = f[i] BY <2>3
    <3> HIDE DEF j
    <3>2. h[j] = g[j] BY <1>4, <3>1, Zenon
    <3> QED BY <3>1, <3>2
  <2> QED BY <2>1, <2>2, <2>3
<1>9. \A i \in Q : h[i] > 0 => s[i] \in P /\ h[i] = f[s[i]] /\ r[s[i]] = i
  <2> SUFFICES ASSUME NEW i \in Q, h[i] > 0 PROVE s[i] \in P /\ h[i] = f[s[i]] /\ r[s[i]] = i OBVIOUS
  <2>0. i # p + 1 BY <1>4
  <2>1. CASE i < p
    <3>1. r[i] = i /\ i \in P /\ s[i] = i /\ i # p /\ i # p + 1 BY <2>1
    <3>2. h[i] = g[i] BY <1>4, <3>1, Zenon
    <3> QED BY <2>1, <3>1, <3>2
  <2>2. CASE i = p BY <1>2, <1>4, <2>2
  <2>3. CASE i > p + 1
    <3> DEFINE j == i - 1
    <3>1. s[i] = j /\ j \in P /\ r[j] = i /\ i # p /\ i # p + 1 /\ j > p /\ i = j + 1 BY <2>3
    <3>2. h[i] = g[i] BY <1>4, <3>1, Zenon
    <3> HIDE DEF j
    <3>3. g[j + 1] = f[j] BY <3>1
    <3> QED BY <3>1, <3>2, <3>3
  <2> QED BY <2>0, <2>1, <2>2, <2>3
<1>10. Total(f) = Total(h)
  <2> HIDE DEF P, Q, r, s
  <2>1. Reindexes(P, Q, f, h, r, s) BY <1>8, <1>9, Zenon DEF Reindexes
  <2>2. f \in [P -> Nat] BY DEF P
  <2> QED BY <1>1, <1>3, <2>1, <2>2, TotalReindexed, Zenon
<1>11. Total(base) \in Nat BY <1>1, <1>3, TotalType, Zenon
<1>12. PICK a, b, c : a = g[p] /\ b = g[p + 1] /\ c = f[p] OBVIOUS
<1>13. a + b = c + k /\ a \in Nat /\ b \in Nat /\ c \in Nat BY <1>2, <1>12
<1>14. Total(g) = Total(base) + a + b /\ Total(f) = Total(base) + c BY <1>5, <1>6, <1>7, <1>10, <1>12
<1> HIDE DEF P, Q, r, s
<1>15. PICK u, v, w : u = Total(base) /\ v = Total(g) /\ w = Total(f) OBVIOUS
<1>16. u \in Nat /\ v = u + a + b /\ w = u + c BY <1>11, <1>14, <1>15, Zenon
<1>17. v = w + k BY <1>13, <1>16
<1> QED BY <1>15, <1>17, Zenon

\* Cards one by one.
LEMMA CopiesSingle ==
    ASSUME NEW S, NEW x \in S, NEW c
    PROVE  Copies(<<x>>, c) = IF x = c THEN 1 ELSE 0
<1> DEFINE A == {i \in DOMAIN <<x>> : <<x>>[i] = c}
<1>1. CASE x = c
  <2>1. A = {1} BY <1>1
  <2> QED BY <1>1, <2>1, FS_Singleton DEF Copies
<1>2. CASE x # c
  <2>1. A = {} BY <1>2
  <2> QED BY <1>2, <2>1, FS_EmptySet DEF Copies
<1> QED BY <1>1, <1>2

\* Of two cards.
LEMMA CopiesPair ==
    ASSUME NEW S, NEW x \in S, NEW y \in S, NEW c
    PROVE  Copies(<<x, y>>, c) = (IF x = c THEN 1 ELSE 0) + (IF y = c THEN 1 ELSE 0)
<1>1. PICK one, other : one = <<x>> /\ other = <<y>> OBVIOUS
<1>2. /\ one \in Seq(S) /\ Len(one) = 1 /\ one[1] = x
      /\ other \in Seq(S) /\ Len(other) = 1 /\ other[1] = y
  BY <1>1
<1>3. /\ one \o other \in Seq(S) /\ Len(one \o other) = 2
      /\ (one \o other)[1] = x /\ (one \o other)[2] = y
  BY <1>2, ConcatProperties
<1>4. <<x, y>> = one \o other
  <2>1. <<x, y>> \in Seq(S) /\ Len(<<x, y>>) = 2 /\ <<x, y>>[1] = x /\ <<x, y>>[2] = y OBVIOUS
  <2> HIDE DEF Copies
  <2>2. \A i \in 1 .. 2 : <<x, y>>[i] = (one \o other)[i]
    <3>1. \A i \in 1 .. 2 : i = 1 \/ i = 2 OBVIOUS
    <3> QED BY <1>3, <2>1, <3>1, Zenon
  <2>3. PICK s, t : s = <<x, y>> /\ t = one \o other OBVIOUS
  <2>4. /\ s \in Seq(S) /\ t \in Seq(S) /\ Len(s) = Len(t) /\ Len(s) = 2
        /\ \A i \in 1 .. Len(s) : s[i] = t[i]
    BY <1>3, <2>1, <2>2, <2>3, Zenon
  <2>5. s = t BY <2>4, SeqEqual, Zenon
  <2> QED BY <2>3, <2>5, Zenon
<1>5. Copies(one \o other, c) = Copies(one, c) + Copies(other, c) BY <1>2, CopiesConcat, Zenon
<1>6. Copies(one, c) = (IF x = c THEN 1 ELSE 0) /\ Copies(other, c) = (IF y = c THEN 1 ELSE 0)
  BY <1>1, CopiesSingle
<1> QED BY <1>4, <1>5, <1>6

\* A pair that is split between two hands, each of which gets one of two cards.
LEMMA CopiesOfSplit ==
    ASSUME NEW S, NEW pair \in Seq(S), Len(pair) = 2, NEW cards \in Seq(S), Len(cards) = 2, NEW c
    PROVE  Copies(<<pair[1], cards[1]>>, c) + Copies(<<pair[2], cards[2]>>, c)
             = Copies(pair, c) + Copies(cards, c)
<1>1. /\ pair = <<pair[1], pair[2]>> /\ cards = <<cards[1], cards[2]>>
      /\ pair[1] \in S /\ pair[2] \in S /\ cards[1] \in S /\ cards[2] \in S
  <2>1. pair[1] \in S /\ pair[2] \in S /\ cards[1] \in S /\ cards[2] \in S BY ElementOfSeq
  <2> QED BY <2>1, SeqEqual
<1>2. PICK a, b, x, y : a = pair[1] /\ b = pair[2] /\ x = cards[1] /\ y = cards[2] OBVIOUS
<1>3. /\ Copies(<<a, b>>, c) = (IF a = c THEN 1 ELSE 0) + (IF b = c THEN 1 ELSE 0)
      /\ Copies(<<x, y>>, c) = (IF x = c THEN 1 ELSE 0) + (IF y = c THEN 1 ELSE 0)
      /\ Copies(<<a, x>>, c) = (IF a = c THEN 1 ELSE 0) + (IF x = c THEN 1 ELSE 0)
      /\ Copies(<<b, y>>, c) = (IF b = c THEN 1 ELSE 0) + (IF y = c THEN 1 ELSE 0)
  <2>1. a \in S /\ b \in S /\ x \in S /\ y \in S BY <1>1, <1>2
  <2> QED BY <2>1, CopiesPair
<1>4. Copies(<<a, x>>, c) + Copies(<<b, y>>, c) = Copies(<<a, b>>, c) + Copies(<<x, y>>, c)
  BY <1>3
<1>5. pair = <<a, b>> /\ cards = <<x, y>> BY <1>1, <1>2
<1> QED BY <1>2, <1>4, <1>5

\* The hands after one of them got the card, and a wager that is m times the bet.
HandPlayed(hands, a, h, m, card, after) ==
    /\ after \in Seq(BlackjackHands) /\ Len(after) = Len(hands) /\ DOMAIN after = DOMAIN hands
    /\ after[a] = h /\ \A i \in DOMAIN hands : i # a => after[i] = hands[i]
    /\ Total(Mults(after)) = Total(Mults(hands)) + m
    /\ \A c \in BlackjackDeck : InHands(after, c) = InHands(hands, c) + Copies(card, c)

\* Only the hand that is played changes the totals.
LEMMA PlayingAHand ==
    ASSUME NEW hands \in Seq(BlackjackHands), NEW a \in DOMAIN hands, NEW h \in BlackjackHands,
           NEW m \in Nat, h.mult = hands[a].mult + m,
           NEW card \in Seq(BlackjackDeck), h.cards = hands[a].cards \o card,
           NEW after, after = [hands EXCEPT ![a] = h]
    PROVE  HandPlayed(hands, a, h, m, card, after)
<1>1. /\ Len(hands) \in Nat /\ DOMAIN hands = 1 .. Len(hands) /\ IsFiniteSet(DOMAIN hands)
      /\ \A i \in DOMAIN hands : hands[i] \in BlackjackHands
      /\ Mults(hands) \in [DOMAIN hands -> Nat]
  BY HandLedgers
<1>2. /\ after \in Seq(BlackjackHands) /\ Len(after) = Len(hands) /\ DOMAIN after = DOMAIN hands
      /\ after[a] = h /\ \A i \in DOMAIN hands : i # a => after[i] = hands[i]
  BY <1>1, ExceptSeq
<1>3. Total(Mults(after)) = Total(Mults(hands)) + m
  <2> DEFINE f == Mults(hands)
             g == Mults(after)
             P == DOMAIN hands
  <2>1. g \in [P -> Nat] BY <1>2, HandLedgers
  <2>2. Raises(P, f, g, a, m) BY <1>2 DEF Raises, Mults
  <2> HIDE DEF f, g, P
  <2>3. f \in [P -> Nat] /\ IsFiniteSet(P) /\ a \in P BY <1>1 DEF f, P
  <2> QED BY <2>1, <2>2, <2>3, TotalRaised, Zenon DEF f, g
<1>4. ASSUME NEW c \in BlackjackDeck PROVE InHands(after, c) = InHands(hands, c) + Copies(card, c)
  <2> DEFINE f == Holding(hands, c)
             g == Holding(after, c)
             P == DOMAIN hands
  <2>1. /\ f \in [P -> Nat] /\ InHands(hands, c) = Total(f)
        /\ g \in [P -> Nat] /\ InHands(after, c) = Total(g)
    BY <1>2, HandLedgers
  <2>2. hands[a].cards \in Seq(BlackjackDeck) BY <1>1 DEF BlackjackHands
  <2>3. Copies(hands[a].cards \o card, c) = Copies(hands[a].cards, c) + Copies(card, c)
    BY <2>2, CopiesConcat
  <2>4. Copies(card, c) \in Nat BY CopiesType, Zenon
  <2>5. Raises(P, f, g, a, Copies(card, c)) BY <1>2, <2>3 DEF Raises, Holding
  <2> HIDE DEF f, g, P
  <2>6. IsFiniteSet(P) /\ a \in P BY <1>1 DEF P
  <2> QED BY <2>1, <2>4, <2>5, <2>6, TotalRaised, Zenon
<1> QED BY <1>2, <1>3, <1>4, Zenon DEF HandPlayed

Inserted(S, s, e, p, t) ==
    /\ t \in Seq(S) /\ Len(t) = Len(s) + 1 /\ t[p + 1] = e
    /\ \A i \in 1 .. Len(s) : i <= p => t[i] = s[i]
    /\ \A i \in 1 .. Len(s) : i > p => t[i + 1] = s[i]

\* An element that is inserted moves those behind it by one.
LEMMA InsertingAt ==
    ASSUME NEW S, NEW s \in Seq(S), NEW e \in S, NEW p \in 1 .. Len(s),
           NEW t, t = InsertAt(s, p + 1, e)
    PROVE  Inserted(S, s, e, p, t)
<1> DEFINE n == Len(s)
           left == SubSeq(s, 1, p)
           mid == <<e>>
           right == SubSeq(s, p + 1, n)
<1>1. n \in Nat /\ p \in Int /\ p + 1 \in Int /\ n \in Int /\ p + 1 - 1 = p BY LenProperties
<1>2. \A i \in 1 .. n : s[i] \in S BY ElementOfSeq
<1>3. t = (left \o mid) \o right
  <2>1. PICK k : k = p + 1 OBVIOUS
  <2>2. t = InsertAt(s, k, e) BY <2>1
  <2>3. t = (SubSeq(s, 1, k - 1) \o <<e>>) \o SubSeq(s, k, Len(s)) BY <2>2 DEF InsertAt
  <2>4. k - 1 = p BY <1>1, <2>1
  <2> QED BY <2>1, <2>3, <2>4, Zenon
<1>4. left \in Seq(S) /\ Len(left) = p /\ \A i \in 1 .. p : left[i] = s[i]
  <2>1. \A i \in 1 .. p : s[i] \in S BY <1>1, <1>2
  <2> QED BY <1>1, <2>1, SubSeqProperties
<1>5. right \in Seq(S) /\ Len(right) = n - p /\ \A i \in 1 .. n - p : right[i] = s[p + i]
  <2> DEFINE q == p + 1
  <2>1. \A i \in q .. n : s[i] \in S BY <1>1, <1>2
  <2>2. q \in Int BY <1>1
  <2> HIDE DEF q, n
  <2>3. /\ SubSeq(s, q, n) \in Seq(S)
        /\ Len(SubSeq(s, q, n)) = IF q <= n THEN n - q + 1 ELSE 0
        /\ \A i \in 1 .. n - q + 1 : SubSeq(s, q, n)[i] = s[q + i - 1]
    BY <1>1, <2>1, <2>2, SubSeqProperties
  <2>4. p <= n BY DEF n
  <2>5. \A i \in 1 .. n - p : q + i - 1 = p + i /\ i \in 1 .. n - q + 1 BY <1>1 DEF q
  <2>6. (IF q <= n THEN n - q + 1 ELSE 0) = n - p BY <1>1, <2>4 DEF q
  <2>7. right = SubSeq(s, q, n) BY DEF q
  <2> HIDE DEF right
  <2>8. \A i \in 1 .. n - p : right[i] = s[p + i]
    <3> SUFFICES ASSUME NEW i \in 1 .. n - p PROVE right[i] = s[p + i] OBVIOUS
    <3>1. q + i - 1 = p + i /\ i \in 1 .. n - q + 1 BY <2>5
    <3>2. SubSeq(s, q, n)[i] = s[q + i - 1] BY <2>3, <3>1
    <3> QED BY <2>7, <3>1, <3>2
  <2> QED BY <2>3, <2>6, <2>7, <2>8
<1>6. mid \in Seq(S) /\ Len(mid) = 1 /\ mid[1] = e OBVIOUS
<1> HIDE DEF left, mid, right, n
<1>7. /\ left \o mid \in Seq(S) /\ Len(left \o mid) = p + 1
      /\ \A i \in 1 .. p : (left \o mid)[i] = s[i]
      /\ (left \o mid)[p + 1] = e
  <2>1. /\ left \o mid \in Seq(S) /\ Len(left \o mid) = Len(left) + Len(mid)
        /\ \A i \in 1 .. Len(left) + Len(mid) :
             (left \o mid)[i] = IF i <= Len(left) THEN left[i] ELSE mid[i - Len(left)]
    BY <1>4, <1>6, ConcatProperties, Zenon
  <2>2. PICK front : front = left \o mid OBVIOUS
  <2>3. \A i \in 1 .. p + 1 : front[i] = IF i <= p THEN left[i] ELSE mid[i - p]
    BY <1>4, <1>6, <2>1, <2>2
  <2>4. p \in Nat OBVIOUS
  <2>5. \A i \in 1 .. p : front[i] = s[i] BY <1>4, <2>3, <2>4
  <2>6. front[p + 1] = mid[1]
    <3>1. p + 1 \in 1 .. p + 1 /\ ~(p + 1 <= p) /\ p + 1 - p = 1 BY <2>4
    <3> QED BY <2>3, <3>1
  <2> QED BY <1>4, <1>6, <2>1, <2>2, <2>5, <2>6
<1>8. PICK front : front = left \o mid OBVIOUS
<1>9. /\ t \in Seq(S) /\ Len(t) = p + 1 + (n - p)
      /\ \A i \in 1 .. p + 1 + (n - p) : t[i] = IF i <= p + 1 THEN front[i] ELSE right[i - (p + 1)]
  <2>1. front \in Seq(S) /\ Len(front) = p + 1 /\ t = front \o right BY <1>3, <1>7, <1>8, Zenon
  <2>2. /\ front \o right \in Seq(S) /\ Len(front \o right) = Len(front) + Len(right)
        /\ \A i \in 1 .. Len(front) + Len(right) :
             (front \o right)[i] = IF i <= Len(front) THEN front[i] ELSE right[i - Len(front)]
    BY <1>5, <2>1, ConcatProperties, Zenon
  <2>3. Len(right) = n - p BY <1>5
  <2> QED BY <2>1, <2>2, <2>3, Zenon
<1>10. p \in 1 .. n BY DEF n
<1>11. \A i \in 1 .. n : i <= p => t[i] = s[i]
  <2> SUFFICES ASSUME NEW i \in 1 .. n, i <= p PROVE t[i] = s[i] OBVIOUS
  <2>1. i \in 1 .. p + 1 + (n - p) /\ i <= p + 1 /\ i \in 1 .. p BY <1>1, <1>10
  <2>2. t[i] = front[i] BY <1>9, <2>1
  <2> QED BY <1>7, <1>8, <2>1, <2>2
<1>12. \A i \in 1 .. n : i > p => t[i + 1] = s[i]
  <2> SUFFICES ASSUME NEW i \in 1 .. n, i > p PROVE t[i + 1] = s[i] OBVIOUS
  <2> DEFINE j == i + 1
             k == i - p
  <2>1. j \in 1 .. p + 1 + (n - p) /\ ~(j <= p + 1) /\ j - (p + 1) = k BY <1>1, <1>10
  <2>2. k \in 1 .. n - p /\ p + k = i BY <1>1, <1>10
  <2> HIDE DEF j, k
  <2>3. t[j] = right[k] BY <1>9, <2>1
  <2>4. right[k] = s[p + k] BY <1>5, <2>2
  <2> QED BY <2>2, <2>3, <2>4 DEF j
<1>13. Len(t) = n + 1 BY <1>1, <1>9, <1>10
<1>14. t[p + 1] = e
  <2>1. p + 1 \in 1 .. p + 1 + (n - p) /\ p + 1 <= p + 1 BY <1>1, <1>10
  <2>2. t[p + 1] = front[p + 1] BY <1>9, <2>1
  <2> QED BY <1>7, <1>8, <2>2
<1> QED BY <1>9, <1>11, <1>12, <1>13, <1>14, Zenon DEF Inserted, n

\* The hands after one of them was split in two, each of which got one of the cards.
HandsSplit(hands, a, one, two, cards, after) ==
    /\ after \in Seq(BlackjackHands) /\ Len(after) = Len(hands) + 1
    /\ DOMAIN after = 1 .. Len(hands) + 1
    /\ after[a] = one /\ after[a + 1] = two
    /\ \A i \in 1 .. Len(hands) : i < a => after[i] = hands[i]
    /\ \A i \in 1 .. Len(hands) : i > a => after[i + 1] = hands[i]
    /\ Total(Mults(after)) = Total(Mults(hands)) + 1
    /\ \A c \in BlackjackDeck : InHands(after, c) = InHands(hands, c) + Copies(cards, c)

\* A split adds one bet to the hands, and the two cards.
LEMMA SplittingAHand ==
    ASSUME NEW hands \in Seq(BlackjackHands), NEW a \in DOMAIN hands, Len(hands[a].cards) = 2,
           NEW cards \in Seq(BlackjackDeck), Len(cards) = 2,
           NEW one \in BlackjackHands, one.cards = <<hands[a].cards[1], cards[1]>>,
           one.mult = hands[a].mult,
           NEW two \in BlackjackHands, two.cards = <<hands[a].cards[2], cards[2]>>, two.mult = 1,
           NEW after, after = InsertAt([hands EXCEPT ![a] = one], a + 1, two)
    PROVE  HandsSplit(hands, a, one, two, cards, after)
<1> DEFINE n == Len(hands)
<1>1. /\ n \in Nat /\ DOMAIN hands = 1 .. n /\ IsFiniteSet(DOMAIN hands)
      /\ \A i \in DOMAIN hands : hands[i] \in BlackjackHands
      /\ Mults(hands) \in [DOMAIN hands -> Nat]
  BY HandLedgers
<1>2. PICK front : front = [hands EXCEPT ![a] = one] OBVIOUS
<1>3. /\ front \in Seq(BlackjackHands) /\ Len(front) = n
      /\ front[a] = one /\ \A i \in DOMAIN hands : i # a => front[i] = hands[i]
  BY <1>1, <1>2, ExceptSeq
<1>4. Inserted(BlackjackHands, front, two, a, after)
  <2>1. a \in 1 .. Len(front) /\ after = InsertAt(front, a + 1, two) BY <1>1, <1>2, <1>3
  <2> QED BY <1>3, <2>1, InsertingAt, Zenon
<1>5. /\ after \in Seq(BlackjackHands) /\ Len(after) = n + 1 /\ DOMAIN after = 1 .. n + 1
      /\ after[a + 1] = two
      /\ \A i \in 1 .. n : i <= a => after[i] = front[i]
      /\ \A i \in 1 .. n : i > a => after[i + 1] = front[i]
  BY <1>3, <1>4, LenProperties DEF Inserted
<1> HIDE DEF n
<1>6. a \in 1 .. n /\ a \in Nat BY <1>1
<1>7. /\ after[a] = one
      /\ \A i \in 1 .. n : i < a => after[i] = hands[i]
      /\ \A i \in 1 .. n : i > a => after[i + 1] = hands[i]
  <2>1. after[a] = front[a]
    <3>1. a <= a BY <1>6
    <3> QED BY <1>5, <1>6, <3>1, Zenon
  <2>2. ASSUME NEW i \in 1 .. n, i < a PROVE after[i] = hands[i]
    <3>1. i <= a /\ i # a /\ i \in DOMAIN hands BY <1>1, <1>6, <2>2
    <3> QED BY <1>3, <1>5, <3>1
  <2>3. ASSUME NEW i \in 1 .. n, i > a PROVE after[i + 1] = hands[i]
    <3>1. i # a /\ i \in DOMAIN hands BY <1>1, <1>6, <2>3
    <3> QED BY <1>3, <1>5, <2>3, <3>1
  <2> QED BY <1>3, <2>1, <2>2, <2>3
<1>8. /\ a \in DOMAIN after /\ a + 1 \in DOMAIN after
      /\ \A i \in 1 .. n : i \in DOMAIN hands /\ i \in DOMAIN after /\ i + 1 \in DOMAIN after
  <2>1. a \in 1 .. n + 1 /\ a + 1 \in 1 .. n + 1 BY <1>1, <1>6
  <2>2. \A i \in 1 .. n : i \in 1 .. n + 1 /\ i + 1 \in 1 .. n + 1 BY <1>1
  <2> QED BY <1>1, <1>5, <2>1, <2>2, Zenon
<1>9. Total(Mults(after)) = Total(Mults(hands)) + 1
  <2> DEFINE f == Mults(hands)
             g == Mults(after)
  <2>1. f \in [1 .. n -> Nat] /\ g \in [1 .. n + 1 -> Nat] BY <1>1, <1>5, HandLedgers
  <2>2. \A i \in 1 .. n : i < a => g[i] = f[i] BY <1>7, <1>8 DEF Mults
  <2>3. \A i \in 1 .. n : i > a => g[i + 1] = f[i] BY <1>7, <1>8 DEF Mults
  <2>4. g[a] = f[a] /\ g[a + 1] = 1 BY <1>5, <1>7, <1>8 DEF Mults
  <2> HIDE DEF f, g
  <2>5. g[a] + g[a + 1] = f[a] + 1 BY <2>4
  <2>6. 1 \in Nat OBVIOUS
  <2>7. Total(g) = Total(f) + 1
    BY <1>1, <1>6, <2>1, <2>2, <2>3, <2>5, <2>6, TotalDivided, Zenon
  <2> QED BY <2>7, Zenon DEF f, g
<1>10. ASSUME NEW c \in BlackjackDeck PROVE InHands(after, c) = InHands(hands, c) + Copies(cards, c)
  <2> DEFINE f == Holding(hands, c)
             g == Holding(after, c)
  <2>1. /\ f \in [1 .. n -> Nat] /\ InHands(hands, c) = Total(f)
        /\ g \in [1 .. n + 1 -> Nat] /\ InHands(after, c) = Total(g)
    BY <1>1, <1>5, HandLedgers
  <2>2. \A i \in 1 .. n : i < a => g[i] = f[i] BY <1>7, <1>8 DEF Holding
  <2>3. \A i \in 1 .. n : i > a => g[i + 1] = f[i] BY <1>7, <1>8 DEF Holding
  <2>4. hands[a].cards \in Seq(BlackjackDeck) BY <1>1 DEF BlackjackHands
  <2>5. PICK pair : pair = hands[a].cards OBVIOUS
  <2>6. Copies(<<pair[1], cards[1]>>, c) + Copies(<<pair[2], cards[2]>>, c)
          = Copies(pair, c) + Copies(cards, c)
    <3>1. pair \in Seq(BlackjackDeck) /\ Len(pair) = 2 BY <2>4, <2>5
    <3> QED BY <3>1, CopiesOfSplit
  <2>7. f[a] = Copies(pair, c) BY <2>5 DEF Holding
  <2>8. g[a] = Copies(<<pair[1], cards[1]>>, c) BY <1>7, <1>8, <2>5, Zenon DEF Holding
  <2>9. g[a + 1] = Copies(<<pair[2], cards[2]>>, c) BY <1>5, <1>8, <2>5, Zenon DEF Holding
  <2> HIDE DEF f, g
  <2>10. g[a] + g[a + 1] = f[a] + Copies(cards, c) BY <2>6, <2>7, <2>8, <2>9
  <2>11. Copies(cards, c) \in Nat BY CopiesType, Zenon
  <2>12. Total(g) = Total(f) + Copies(cards, c)
    BY <1>1, <1>6, <2>1, <2>2, <2>3, <2>10, <2>11, TotalDivided, Zenon
  <2> QED BY <2>1, <2>12, Zenon
<1> QED BY <1>5, <1>7, <1>9, <1>10, Zenon DEF HandsSplit, n

\* advance_turn after the active hand was played: to the next hand, if there is one.
Advances(st, h, m, t) ==
    /\ BlackjackShape(t) /\ BlackjackTurns(t) /\ t.stage \in {"PlayerTurn", "AwaitingReveal"}
    /\ t.side = st.side /\ Total(Mults(t.hands)) = Total(Mults(st.hands)) + m
    /\ AllBusted(t) => t.hands[Len(t.hands)] = h

StillPlaying(after, a) == {i \in DOMAIN after : i >= a /\ after[i].status = "Playing"}

\* Only the stage and the active hand change.
LEMMA AdvancedRecord ==
    ASSUME NEW mid, NEW t, t = Advanced(mid), mid.stage = "PlayerTurn",
           mid = [stage |-> mid.stage, side |-> mid.side, first |-> mid.first, active |-> mid.active,
                  hands |-> mid.hands, dealer |-> mid.dealer]
    PROVE  /\ \/ /\ t.stage = "PlayerTurn" /\ StillPlaying(mid.hands, mid.active) # {}
                 /\ t.active = Min(StillPlaying(mid.hands, mid.active))
              \/ t.stage = "AwaitingReveal"
           /\ t.side = mid.side /\ t.hands = mid.hands /\ t.dealer = mid.dealer
           /\ t = [stage |-> t.stage, side |-> t.side, first |-> t.first, active |-> t.active,
                   hands |-> t.hands, dealer |-> t.dealer]
<1> DEFINE playing == StillPlaying(mid.hands, mid.active)
<1>1. \/ playing # {} /\ t = [mid EXCEPT !.active = Min(playing)]
      \/ \E end : t = [mid EXCEPT !.active = end, !.stage = "AwaitingReveal"]
  BY DEF Advanced, StillPlaying
<1> HIDE DEF playing
<1>2. PICK low : low = Min(playing) OBVIOUS
<1>3. CASE playing # {} /\ t = [mid EXCEPT !.active = low]
  <2>1. /\ t.stage = "PlayerTurn" /\ t.active = low /\ t.side = mid.side /\ t.hands = mid.hands
        /\ t.dealer = mid.dealer
    BY <1>3
  <2>2. t = [stage |-> t.stage, side |-> t.side, first |-> t.first, active |-> t.active,
             hands |-> t.hands, dealer |-> t.dealer]
    BY <1>3
  <2> QED BY <1>2, <1>3, <2>1, <2>2, Zenon DEF playing
<1>4. ASSUME NEW end, t = [mid EXCEPT !.active = end, !.stage = "AwaitingReveal"]
      PROVE  /\ t.stage = "AwaitingReveal" /\ t.side = mid.side /\ t.hands = mid.hands
             /\ t.dealer = mid.dealer
             /\ t = [stage |-> t.stage, side |-> t.side, first |-> t.first, active |-> t.active,
                     hands |-> t.hands, dealer |-> t.dealer]
  <2>1. PICK moved : moved = [mid EXCEPT !.active = end] OBVIOUS
  <2>2. /\ moved = [stage |-> moved.stage, side |-> moved.side, first |-> moved.first,
                    active |-> moved.active, hands |-> moved.hands, dealer |-> moved.dealer]
        /\ moved.side = mid.side /\ moved.hands = mid.hands /\ moved.dealer = mid.dealer
    BY <2>1
  <2>3. t = [moved EXCEPT !.stage = "AwaitingReveal"] BY <1>4, <2>1, Zenon
  <2> QED BY <2>2, <2>3
<1> QED BY <1>1, <1>2, <1>3, <1>4, Zenon

\* ... and how it was played: with a card that the shoe still had.
Plays(st, h, m, card, mid) ==
    /\ BlackjackShape(st) /\ BlackjackTurns(st) /\ st.stage = "PlayerTurn"
    /\ h \in BlackjackHands /\ m \in Nat /\ card \in Seq(BlackjackDeck)
    /\ h.cards = st.hands[st.active].cards \o card /\ Len(h.cards) <= HandBound
    /\ h.mult = st.hands[st.active].mult + m
    /\ \A c \in BlackjackDeck :
         InHands(st.hands, c) + Copies(st.dealer, c) + Copies(card, c) <= BlackjackDecks
    /\ mid = [st EXCEPT !.hands = [st.hands EXCEPT ![st.active] = h]]

\* All hands from the next one on are still to be played.
LEMMA AdvancingTheTurn ==
    ASSUME NEW st, NEW h, NEW m, NEW card, NEW mid, Plays(st, h, m, card, mid),
           NEW t, t = Advanced(mid)
    PROVE  Advances(st, h, m, t)
<1> DEFINE hands == st.hands
           a == st.active
           after == [hands EXCEPT ![a] = h]
           playing == StillPlaying(after, a)
<1>1. /\ hands \in Seq(BlackjackHands) /\ a \in DOMAIN hands /\ Len(hands) <= MaxHands
      /\ Len(st.dealer) = 1
      /\ \A i \in DOMAIN hands : i >= a => hands[i].status = "Playing"
      /\ \A i \in DOMAIN hands : Len(hands[i].cards) <= HandBound
      /\ st = [stage |-> "PlayerTurn", side |-> st.side, first |-> st.first, active |-> a,
               hands |-> hands, dealer |-> st.dealer]
      /\ st.side \in Nat /\ st.dealer \in Seq(BlackjackDeck) /\ Len(st.dealer) <= 1 + DealerDraws
      /\ h \in BlackjackHands /\ m \in Nat /\ card \in Seq(BlackjackDeck)
  BY Zenon DEF Plays, BlackjackShape, BlackjackTurns
<1>2. DOMAIN hands = 1 .. Len(hands) /\ Len(hands) \in Nat BY <1>1, HandLedgers
<1>3. HandPlayed(hands, a, h, m, card, after)
  <2> HIDE DEF hands, a
  <2>1. h.cards = hands[a].cards \o card /\ h.mult = hands[a].mult + m BY Zenon DEF Plays, hands, a
  <2>2. PICK x : x = after OBVIOUS
  <2>3. x = [hands EXCEPT ![a] = h] BY <2>2
  <2>4. HandPlayed(hands, a, h, m, card, x) BY <1>1, <2>1, <2>3, PlayingAHand, Zenon
  <2> QED BY <2>2, <2>4, Zenon
<1>4. mid = [stage |-> "PlayerTurn", side |-> st.side, first |-> st.first, active |-> a,
             hands |-> after, dealer |-> st.dealer]
  <2> HIDE DEF after
  <2>1. mid = [st EXCEPT !.hands = after] BY Zenon DEF Plays, after
  <2> HIDE DEF hands, a
  <2>2. PICK side, first, dealer : side = st.side /\ first = st.first /\ dealer = st.dealer OBVIOUS
  <2>3. st = [stage |-> "PlayerTurn", side |-> side, first |-> first, active |-> a,
              hands |-> hands, dealer |-> dealer]
    BY <1>1, <2>2, Zenon
  <2>4. mid = [stage |-> "PlayerTurn", side |-> side, first |-> first, active |-> a,
               hands |-> after, dealer |-> dealer]
    BY <2>1, <2>3
  <2> QED BY <2>2, <2>4, Zenon
<1> HIDE DEF after
<1>5. /\ \/ t.stage = "PlayerTurn" /\ playing # {} /\ t.active = Min(playing)
         \/ t.stage = "AwaitingReveal"
      /\ t.side = st.side /\ t.hands = after /\ t.dealer = st.dealer
      /\ t = [stage |-> t.stage, side |-> t.side, first |-> t.first, active |-> t.active,
              hands |-> t.hands, dealer |-> t.dealer]
  <2> HIDE DEF a, hands
  <2>1. /\ mid.stage = "PlayerTurn" /\ mid.side = st.side /\ mid.active = a /\ mid.hands = after
        /\ mid.dealer = st.dealer
        /\ mid = [stage |-> mid.stage, side |-> mid.side, first |-> mid.first, active |-> mid.active,
                  hands |-> mid.hands, dealer |-> mid.dealer]
    <3>1. PICK side, first, dealer : side = st.side /\ first = st.first /\ dealer = st.dealer OBVIOUS
    <3>2. mid = [stage |-> "PlayerTurn", side |-> side, first |-> first, active |-> a,
                 hands |-> after, dealer |-> dealer]
      BY <1>4, <3>1, Zenon
    <3>3. /\ mid.stage = "PlayerTurn" /\ mid.side = side /\ mid.active = a /\ mid.hands = after
          /\ mid.dealer = dealer /\ mid.first = first
      BY <3>2
    <3> QED BY <3>1, <3>2, <3>3, Zenon
  <2>2. /\ \/ /\ t.stage = "PlayerTurn" /\ StillPlaying(mid.hands, mid.active) # {}
              /\ t.active = Min(StillPlaying(mid.hands, mid.active))
           \/ t.stage = "AwaitingReveal"
        /\ t.side = mid.side /\ t.hands = mid.hands /\ t.dealer = mid.dealer
        /\ t = [stage |-> t.stage, side |-> t.side, first |-> t.first, active |-> t.active,
                hands |-> t.hands, dealer |-> t.dealer]
    BY <2>1, AdvancedRecord, Zenon
  <2> QED BY <2>1, <2>2, Zenon
<1>6. BlackjackShape(t)
  <2> HIDE DEF hands, a
  <2>1. \A i \in DOMAIN after : Len(after[i].cards) <= HandBound
    <3>1. Len(h.cards) <= HandBound BY Zenon DEF Plays
    <3> QED BY <1>1, <1>3, <3>1, Zenon DEF HandPlayed
  <2>2. ASSUME NEW c \in BlackjackDeck PROVE InHands(after, c) + Copies(st.dealer, c) <= BlackjackDecks
    <3>1. InHands(after, c) = InHands(hands, c) + Copies(card, c) BY <1>3 DEF HandPlayed
    <3>2. InHands(hands, c) + Copies(st.dealer, c) + Copies(card, c) <= BlackjackDecks
      BY Zenon DEF Plays, hands
    <3>3. Copies(st.dealer, c) \in Nat /\ Copies(card, c) \in Nat BY <1>1, CopiesType, Zenon
    <3>4. InHands(hands, c) \in Nat BY <1>1, HandLedgers
    <3> QED BY <3>1, <3>2, <3>3, <3>4, BlackjackAssumption
  <2>3. after \in Seq(BlackjackHands) /\ Len(after) <= MaxHands BY <1>1, <1>3 DEF HandPlayed
  <2> HIDE DEF HandBound
  <2> QED BY <1>1, <1>5, <2>1, <2>2, <2>3 DEF BlackjackShape
<1>7. \A i \in DOMAIN after : i > a => after[i].status = "Playing"
  <2> HIDE DEF hands, a
  <2>1. a \in Nat /\ DOMAIN after = DOMAIN hands BY <1>1, <1>2, <1>3 DEF HandPlayed
  <2> SUFFICES ASSUME NEW i \in DOMAIN after, i > a PROVE after[i].status = "Playing" OBVIOUS
  <2>2. i # a /\ i >= a /\ i \in DOMAIN hands BY <1>2, <2>1
  <2> QED BY <1>1, <1>3, <2>2 DEF HandPlayed
<1>8. DOMAIN after = 1 .. Len(hands) /\ Len(after) = Len(hands) /\ a \in 1 .. Len(hands)
  BY <1>1, <1>2, <1>3 DEF HandPlayed
<1>9. BlackjackTurns(t)
  <2> HIDE DEF hands, a
  <2>1. CASE t.stage = "PlayerTurn" /\ playing # {} /\ t.active = Min(playing)
    <3>1. playing \subseteq Nat BY <1>2, <1>8 DEF StillPlaying
    <3>2. PICK next : next = t.active OBVIOUS
    <3>3. next \in playing
      <4> HIDE DEF playing
      <4>1. \E x \in playing : \A y \in playing : x =< y BY <2>1, <3>1, LeastExists
      <4> QED BY <2>1, <3>2, <4>1, Zenon DEF Min
    <3>4. next \in DOMAIN after /\ next >= a /\ after[next].status = "Playing" BY <3>3 DEF StillPlaying
    <3>5. \A i \in DOMAIN after : i >= next => after[i].status = "Playing"
      <4> SUFFICES ASSUME NEW i \in DOMAIN after, i >= next PROVE after[i].status = "Playing" OBVIOUS
      <4>1. CASE i = next BY <3>4, <4>1
      <4>2. CASE i # next
        <5>1. i > a BY <1>2, <1>8, <3>4, <4>2
        <5> QED BY <1>7, <5>1
      <4> QED BY <4>1, <4>2
    <3> HIDE DEF playing
    <3> QED BY <1>1, <1>5, <2>1, <3>2, <3>4, <3>5 DEF BlackjackTurns
  <2>2. CASE t.stage = "AwaitingReveal" BY <1>1, <1>5, <2>2 DEF BlackjackTurns
  <2> HIDE DEF playing
  <2> QED BY <1>5, <2>1, <2>2, Zenon
<1>10. AllBusted(t) => t.hands[Len(t.hands)] = h
  <2> HIDE DEF hands, a
  <2> SUFFICES ASSUME AllBusted(t) PROVE after[Len(after)] = h BY <1>5
  <2>1. \A i \in DOMAIN after : after[i].status = "Busted" BY <1>5 DEF AllBusted
  <2>2. Len(hands) \in DOMAIN after BY <1>2, <1>8
  <2>3. ~(Len(hands) > a) BY <1>7, <2>1, <2>2
  <2>4. Len(after) = a
    <3>1. PICK n : n = Len(hands) OBVIOUS
    <3>2. n \in Nat /\ a \in 1 .. n /\ ~(n > a) /\ Len(after) = n BY <1>2, <1>8, <2>3, <3>1, Zenon
    <3>3. n = a BY <3>2
    <3> QED BY <3>2, <3>3, Zenon
  <2> QED BY <1>3, <2>4 DEF HandPlayed
<1>11. Total(Mults(t.hands)) = Total(Mults(hands)) + m BY <1>3, <1>5 DEF HandPlayed
<1>12. t.stage \in {"PlayerTurn", "AwaitingReveal"} BY <1>5, <1>5
<1> QED BY <1>5, <1>6, <1>9, <1>10, <1>11, <1>12, Zenon DEF Advances

\* A move after which the game goes on, with n more wagered.
LEMMA BlackjackGoesOn ==
    ASSUME BlackjackInv, game = "Blackjack", result = Open,
           NEW t, BlackjackShape(t), BlackjackTurns(t), t.stage # "Betting", NEW n \in Int,
           bet * Total(Mults(t.hands)) + t.side = charged + n,
           state' = t, charged' = charged + n, UNCHANGED <<session, settled, result>>
    PROVE  BlackjackInv' /\ game' = "Blackjack"
<1>1. bet \in Nat /\ charged \in Int /\ settled = 0 BY DEF BlackjackInv
<1>2. bet' = bet /\ game' = game /\ settled' = settled /\ result' = result BY DEF session
<1>3. BlackjackShape(state)' /\ BlackjackTurns(state)' /\ state'.stage # "Betting"
  <2>1. BlackjackShape(state') /\ BlackjackTurns(state') /\ state'.stage # "Betting" BY Zenon
  <2> QED BY <2>1 DEF BlackjackShape, BlackjackTurns
<1>4. BlackjackWagered(state)' = charged'
  <2>1. BlackjackWagered(state)' = bet' * Total(Mults(state'.hands)) + state'.side
    BY DEF BlackjackWagered, Mults
  <2> QED BY <1>2, <2>1
<1>5. result'.kind # "LossPreDeducted" BY <1>2 DEF Open
<1> QED BY <1>1, <1>2, <1>3, <1>4, <1>5 DEF BlackjackInv

\* A move that ends the game: it reports what the hands are worth, of which a
\* double that busted all was not charged.
LEMMA BlackjackSettles ==
    ASSUME BlackjackInv, game = "Blackjack", NEW t, BlackjackShape(t), NEW r, BlackjackSettle(t, r),
           \/ bet * Total(Mults(t.hands)) + t.side = charged
           \/ /\ bet * Total(Mults(t.hands)) + t.side = charged + bet
              /\ AllBusted(t) /\ t.hands[Len(t.hands)].mult = 2
    PROVE  BlackjackInv' /\ game' = "Blackjack"
<1> DEFINE over == [t EXCEPT !.stage = "Complete"]
           owed == BlackjackWagered(t)
<1>1. bet \in Nat /\ charged \in Int /\ settled = 0 BY DEF BlackjackInv
<1>2. owed = bet * Total(Mults(t.hands)) + t.side BY DEF BlackjackWagered, Mults
<1>3. /\ state' = over /\ UNCHANGED <<session, charged, settled>>
      /\ \/ result' = [kind |-> "LossPreDeducted", amount |-> owed]
         \/ \E n : result' = [kind |-> "Win", amount |-> n]
  <2> HIDE DEF over
  <2> QED BY Zenon DEF BlackjackSettle, Ends, over
<1>4. /\ over.stage = "Complete" /\ over.side = t.side /\ over.hands = t.hands /\ over.dealer = t.dealer
      /\ over = [stage |-> over.stage, side |-> over.side, first |-> over.first, active |-> over.active,
                 hands |-> over.hands, dealer |-> over.dealer]
  BY DEF BlackjackShape
<1> HIDE DEF over, owed
<1>5. BlackjackShape(over) /\ BlackjackTurns(over)
  <2>1. BlackjackTurns(over) BY <1>4 DEF BlackjackTurns
  <2>2. BlackjackShape(over)
    <3> HIDE DEF HandBound
    <3> QED BY <1>4 DEF BlackjackShape
  <2> QED BY <2>1, <2>2
<1>6. BlackjackShape(state)' /\ BlackjackTurns(state)'
  <2>1. BlackjackShape(state') /\ BlackjackTurns(state') BY <1>3, <1>5, Zenon
  <2> QED BY <2>1 DEF BlackjackShape, BlackjackTurns
<1>7. bet' = bet /\ game' = game /\ settled' = settled /\ charged' = charged BY <1>3 DEF session
<1>8. result' # Open BY <1>3 DEF Open
<1>9. result'.kind = "LossPreDeducted" => result'.amount = owed BY <1>3
<1>10. AllBusted(t) => AllBusted(state)' BY <1>3, <1>4 DEF AllBusted
<1>11. state'.hands = t.hands BY <1>3, <1>4
<1>12. result'.kind # "Credited" BY <1>3
<1> HIDE DEF Open, AllBusted
<1> QED BY <1>1, <1>2, <1>6, <1>7, <1>8, <1>9, <1>10, <1>11, <1>12 DEF BlackjackInv

\* A hand of one bet.
LEMMA NewHand ==
    ASSUME NEW cards \in Seq(BlackjackDeck), NEW status \in HandStatus, NEW split \in BOOLEAN
    PROVE  /\ Hand(cards, status, split) \in BlackjackHands
           /\ Hand(cards, status, split).cards = cards /\ Hand(cards, status, split).mult = 1
           /\ Hand(cards, status, split).status = status /\ Hand(cards, status, split).split = split
BY DEF Hand, BlackjackHands

\* There are no hands before the deal.
LEMMA NoHandsAtFirst ==
    /\ <<>> \in Seq(BlackjackHands) /\ <<>> \in Seq(BlackjackDeck) /\ Len(<<>>) = 0 /\ DOMAIN <<>> = {}
    /\ \A c \in BlackjackDeck : InHands(<<>>, c) = 0 /\ Copies(<<>>, c) = 0
<1>1. /\ <<>> \in Seq(BlackjackHands) /\ <<>> \in Seq(BlackjackDeck) /\ Len(<<>>) = 0
      /\ DOMAIN <<>> = {}
  OBVIOUS
<1>2. ASSUME NEW c \in BlackjackDeck PROVE InHands(<<>>, c) = 0 /\ Copies(<<>>, c) = 0
  <2> DEFINE f == [i \in DOMAIN <<>> |-> Copies(<<>>[i].cards, c)]
  <2>1. DOMAIN f = {} OBVIOUS
  <2> HIDE DEF f
  <2>2. Total(f) = 0 BY <2>1, TotalOfNobody, Zenon
  <2>3. InHands(<<>>, c) = 0 BY <2>2 DEF f, InHands
  <2> QED BY <2>3, CopiesNone
<1> QED BY <1>1, <1>2

\* The totals of a single hand.
LEMMA OneHand ==
    ASSUME NEW h \in BlackjackHands
    PROVE  /\ <<h>> \in Seq(BlackjackHands) /\ Len(<<h>>) = 1 /\ DOMAIN <<h>> = {1} /\ <<h>>[1] = h
           /\ Total(Mults(<<h>>)) = h.mult
           /\ \A c \in BlackjackDeck : InHands(<<h>>, c) = Copies(h.cards, c)
<1>1. PICK hands : hands = <<h>> OBVIOUS
<1>2. hands \in Seq(BlackjackHands) /\ Len(hands) = 1 /\ DOMAIN hands = {1} /\ hands[1] = h BY <1>1
<1>3. ASSUME NEW g \in [{1} -> Nat] PROVE Total(g) = g[1]
  <2> DEFINE f == [i \in {} |-> 0]
  <2>1. f \in [{} -> Nat] /\ IsFiniteSet({}) /\ g[1] \in Nat /\ g \in [{} \cup {1} -> Nat]
    BY FS_EmptySet
  <2>2. DOMAIN f = {} OBVIOUS
  <2> HIDE DEF f
  <2>3. Total(f) = 0 BY <2>2, TotalOfNobody, Zenon
  <2>4. g[1] = (IF 1 \in {} THEN f[1] ELSE 0) + g[1] BY <2>1
  <2>5. \A p \in {} : p # 1 => g[p] = f[p] OBVIOUS
  <2>6. PICK P, x, n : P = {} /\ x = 1 /\ n = g[1] OBVIOUS
  <2>7. /\ f \in [P -> Nat] /\ IsFiniteSet(P) /\ n \in Nat /\ g \in [P \cup {x} -> Nat]
        /\ g[x] = (IF x \in P THEN f[x] ELSE 0) + n
        /\ \A p \in P : p # x => g[p] = f[p]
    BY <2>1, <2>4, <2>5, <2>6, Zenon
  <2>8. Total(g) = Total(f) + n BY <2>7, TotalPut
  <2> QED BY <2>1, <2>3, <2>6, <2>8
<1>4. Total(Mults(hands)) = h.mult
  <2>1. Mults(hands) \in [{1} -> Nat] BY <1>2, HandLedgers
  <2>2. Mults(hands)[1] = h.mult BY <1>2 DEF Mults
  <2> QED BY <1>3, <2>1, <2>2
<1>5. ASSUME NEW c \in BlackjackDeck PROVE InHands(hands, c) = Copies(h.cards, c)
  <2>1. Holding(hands, c) \in [{1} -> Nat] /\ InHands(hands, c) = Total(Holding(hands, c))
    BY <1>2, HandLedgers
  <2>2. Holding(hands, c)[1] = Copies(h.cards, c) BY <1>2 DEF Holding
  <2> QED BY <1>3, <2>1, <2>2
<1> QED BY <1>1, <1>2, <1>4, <1>5, Zenon

\* A session starts with its bet.
LEMMA BlackjackInitInv == BlackjackInit => BlackjackInv /\ game = "Blackjack"
<1> SUFFICES ASSUME BlackjackInit PROVE BlackjackInv /\ game = "Blackjack" OBVIOUS
<1>1. PICK b \in Stakes :
        Begins("Blackjack", b, 0, [stage |-> "Betting", side |-> 0, first |-> <<>>, active |-> 1,
                                   hands |-> <<>>, dealer |-> <<>>])
  BY DEF BlackjackInit, Starts
<1>2. b \in Nat BY TableAssumption
<1>3. /\ game = "Blackjack" /\ bet = b /\ charged = b /\ settled = 0 /\ result = Open
      /\ state = [stage |-> "Betting", side |-> 0, first |-> <<>>, active |-> 1,
                  hands |-> <<>>, dealer |-> <<>>]
  BY <1>1 DEF Begins
<1>4. /\ state.stage = "Betting" /\ state.side = 0 /\ state.active = 1 /\ state.hands = <<>> /\ state.dealer = <<>>
      /\ state = [stage |-> state.stage, side |-> state.side, first |-> state.first,
                  active |-> state.active, hands |-> state.hands, dealer |-> state.dealer]
  BY <1>3
<1>5. BlackjackShape(state)
  <2>1. /\ Len(state.hands) <= MaxHands /\ Len(state.dealer) <= 1 + DealerDraws
        /\ state.hands \in Seq(BlackjackHands) /\ state.dealer \in Seq(BlackjackDeck)
        /\ \A i \in DOMAIN state.hands : Len(state.hands[i].cards) <= HandBound
    BY <1>4, NoHandsAtFirst, BlackjackAssumption
  <2>2. \A c \in BlackjackDeck : InHands(state.hands, c) + Copies(state.dealer, c) <= BlackjackDecks
    BY <1>4, NoHandsAtFirst, BlackjackAssumption
  <2> QED BY <1>4, <2>1, <2>2 DEF BlackjackShape
<1>6. BlackjackTurns(state) BY <1>4 DEF BlackjackTurns
<1> QED BY <1>2, <1>3, <1>4, <1>5, <1>6 DEF BlackjackInv, Open

\* With the cards on the table, those that are dealt come from one shoe.
LEMMA BlackjackDealt ==
    ASSUME BlackjackInv, NEW n \in Nat, NEW hand \in BlackjackDeals(n)
    PROVE  /\ hand \in Seq(BlackjackDeck) /\ Len(hand) = n
           /\ \A c \in BlackjackDeck :
                InHands(state.hands, c) + Copies(state.dealer, c) + Copies(hand, c) <= BlackjackDecks
<1>1. state.hands \in Seq(BlackjackHands) /\ state.dealer \in Seq(BlackjackDeck)
  BY DEF BlackjackInv, BlackjackShape
<1>2. \A c \in BlackjackDeck : InHands(state.hands, c) \in Nat /\ Copies(state.dealer, c) \in Nat
  BY <1>1, HandLedgers, CopiesType
<1>3. /\ BlackjackKnown \in [BlackjackDeck -> Nat]
      /\ \A c \in BlackjackDeck : BlackjackKnown[c] = InHands(state.hands, c) + Copies(state.dealer, c)
  BY <1>2 DEF BlackjackKnown
<1>4. BlackjackDecks \in Nat /\ \A c \in BlackjackDeck : BlackjackKnown[c] <= BlackjackDecks
  BY <1>3, BlackjackAssumption DEF BlackjackInv, BlackjackShape
<1>5. PICK known : known = BlackjackKnown OBVIOUS
<1>6. hand \in Deals(BlackjackDeck, BlackjackDecks, known, n) BY <1>5 DEF BlackjackDeals
<1>7. known \in [BlackjackDeck -> Nat] /\ \A c \in BlackjackDeck : known[c] <= BlackjackDecks
  BY <1>3, <1>4, <1>5
<1>8. /\ hand \in Seq(BlackjackDeck) /\ Len(hand) = n /\ DOMAIN hand = 1 .. n
      /\ \A i \in 1 .. n : hand[i] \in BlackjackDeck
      /\ \A c \in BlackjackDeck : known[c] + Copies(hand, c) <= BlackjackDecks
  BY <1>4, <1>6, <1>7, DealsRespectTheShoe, Zenon
<1> QED BY <1>3, <1>5, <1>8

\* A side bet replaces the one before.
LEMMA BlackjackSideInv ==
    ASSUME BlackjackInv, NEW n \in SideBets, BlackjackSide(n)
    PROVE  BlackjackInv' /\ game' = "Blackjack"
<1>1. n \in Nat BY TableAssumption
<1>2. /\ game = "Blackjack" /\ result = Open /\ state.stage = "Betting"
      /\ state' = [state EXCEPT !.side = n] /\ charged' = charged + (n - state.side)
      /\ UNCHANGED <<session, settled, result>>
  BY DEF BlackjackSide, BlackjackOpen, IsOpen, Wagers
<1>3. BlackjackShape(state) /\ BlackjackTurns(state) BY DEF BlackjackInv
<1>4. PICK t : t = state' OBVIOUS
<1>5. /\ t.stage = "Betting" /\ t.side = n /\ t.active = state.active /\ t.hands = state.hands /\ t.dealer = state.dealer
      /\ t = [stage |-> t.stage, side |-> t.side, first |-> t.first, active |-> t.active,
              hands |-> t.hands, dealer |-> t.dealer]
  BY <1>2, <1>3, <1>4 DEF BlackjackShape
<1>6. BlackjackShape(t)
  <2> HIDE DEF HandBound
  <2> QED BY <1>1, <1>3, <1>5 DEF BlackjackShape
<1>7. BlackjackTurns(t) BY <1>2, <1>3, <1>5 DEF BlackjackTurns
<1>8. BlackjackShape(state)' /\ BlackjackTurns(state)'
  <2>1. BlackjackShape(state') /\ BlackjackTurns(state') BY <1>4, <1>6, <1>7, Zenon
  <2> QED BY <2>1 DEF BlackjackShape, BlackjackTurns
<1>9. /\ bet' = bet /\ game' = game /\ settled' = settled /\ result' = result BY <1>2 DEF session
<1>10. state'.stage = "Betting" /\ state'.side = n BY <1>4, <1>5
<1>11. bet \in Nat /\ charged = bet + state.side /\ settled = 0 BY <1>2 DEF BlackjackInv
<1>12. state.side \in Nat BY <1>3 DEF BlackjackShape
<1>13. charged' = bet + n /\ charged' \in Int BY <1>1, <1>2, <1>11, <1>12
<1>14. result'.kind # "LossPreDeducted" BY <1>2, <1>9 DEF Open
<1> QED BY <1>2, <1>8, <1>9, <1>10, <1>11, <1>13, <1>14 DEF BlackjackInv

\* What the deal changes.
LEMMA BlackjackDealtRecord ==
    ASSUME NEW s, s = [stage |-> s.stage, side |-> s.side, first |-> s.first, active |-> s.active,
                       hands |-> s.hands, dealer |-> s.dealer],
           NEW stage, NEW first, NEW hands, NEW dealer, NEW t,
           t = [s EXCEPT !.stage = stage, !.first = first, !.hands = hands, !.dealer = dealer]
    PROVE  /\ t.stage = stage /\ t.side = s.side /\ t.active = s.active /\ t.hands = hands
           /\ t.dealer = dealer
           /\ t = [stage |-> t.stage, side |-> t.side, first |-> t.first, active |-> t.active,
                   hands |-> t.hands, dealer |-> t.dealer]
<1>1. PICK x : x = [s EXCEPT !.stage = stage] OBVIOUS
<1>2. x = [stage |-> stage, side |-> s.side, first |-> s.first, active |-> s.active,
           hands |-> s.hands, dealer |-> s.dealer]
  BY <1>1
<1>3. PICK y : y = [x EXCEPT !.first = first] OBVIOUS
<1>4. y = [stage |-> stage, side |-> s.side, first |-> first, active |-> s.active,
           hands |-> s.hands, dealer |-> s.dealer]
  BY <1>2, <1>3
<1>5. PICK z : z = [y EXCEPT !.hands = hands] OBVIOUS
<1>6. z = [stage |-> stage, side |-> s.side, first |-> first, active |-> s.active,
           hands |-> hands, dealer |-> s.dealer]
  BY <1>4, <1>5
<1>7. t = [z EXCEPT !.dealer = dealer] BY <1>1, <1>3, <1>5, Zenon
<1>8. t = [stage |-> stage, side |-> s.side, first |-> first, active |-> s.active,
           hands |-> hands, dealer |-> dealer]
  BY <1>6, <1>7
<1> QED BY <1>8

\* Two cards for the player and one for the dealer.
LEMMA BlackjackDealInv ==
    ASSUME BlackjackInv, BlackjackDeal
    PROVE  BlackjackInv' /\ game' = "Blackjack"
<1>1. game = "Blackjack" /\ result = Open /\ state.stage = "Betting" BY DEF BlackjackDeal, BlackjackOpen, IsOpen
<1>2. PICK cards, own, hand, stage :
        /\ cards \in BlackjackDeals(3)
        /\ own = SubSeq(cards, 1, 2)
        /\ \/ stage = "AwaitingReveal" /\ hand = Hand(own, "Blackjack", FALSE)
           \/ stage = "PlayerTurn" /\ hand = Hand(own, "Playing", FALSE)
        /\ Continues([state EXCEPT !.stage = stage, !.first = own, !.hands = <<hand>>,
                                   !.dealer = <<cards[3]>>])
  <2>1. PICK cards \in BlackjackDeals(3) :
          LET own == SubSeq(cards, 1, 2)
              natural == IsBlackjack(own)
              hand == Hand(own, IF natural THEN "Blackjack" ELSE "Playing", FALSE)
          IN  Continues([state EXCEPT !.stage = IF natural THEN "AwaitingReveal" ELSE "PlayerTurn",
                                      !.first = own, !.hands = <<hand>>, !.dealer = <<cards[3]>>])
    BY DEF BlackjackDeal
  <2>2. CASE IsBlackjack(SubSeq(cards, 1, 2)) BY <2>1, <2>2, Zenon
  <2>3. CASE ~IsBlackjack(SubSeq(cards, 1, 2)) BY <2>1, <2>3, Zenon
  <2> QED BY <2>2, <2>3
<1>3. /\ cards \in Seq(BlackjackDeck) /\ Len(cards) = 3
      /\ \A c \in BlackjackDeck :
           InHands(state.hands, c) + Copies(state.dealer, c) + Copies(cards, c) <= BlackjackDecks
  <2>1. 3 \in Nat OBVIOUS
  <2> QED BY <1>2, <2>1, BlackjackDealt
<1>4. BlackjackShape(state) /\ BlackjackTurns(state) BY DEF BlackjackInv
<1>5. state.hands = <<>> /\ state.dealer = <<>> /\ state.active = 1 /\ state.side \in Nat
  BY <1>1, <1>4 DEF BlackjackShape, BlackjackTurns
<1>6. \A c \in BlackjackDeck : Copies(cards, c) <= BlackjackDecks
  <2>1. \A c \in BlackjackDeck : Copies(cards, c) \in Nat BY <1>3, CopiesType, Zenon
  <2> QED BY <1>3, <1>5, <2>1, NoHandsAtFirst
<1>7. PICK top : top = <<cards[3]>> OBVIOUS
<1>8. /\ own \in Seq(BlackjackDeck) /\ Len(own) = 2 /\ own[1] = cards[1] /\ own[2] = cards[2]
      /\ top \in Seq(BlackjackDeck) /\ Len(top) = 1 /\ top[1] = cards[3]
  <2>1. \A i \in 1 .. 3 : cards[i] \in BlackjackDeck BY <1>3, ElementOfSeq
  <2>2. top \in Seq(BlackjackDeck) /\ Len(top) = 1 /\ top[1] = cards[3] BY <1>7, <2>1
  <2>3. own \in Seq(BlackjackDeck) /\ Len(own) = 2 /\ own[1] = cards[1] /\ own[2] = cards[2]
    <3>1. 1 \in Int /\ 2 \in Int /\ \A i \in 1 .. 2 : cards[i] \in BlackjackDeck BY <2>1
    <3> QED BY <1>2, <3>1, SubSeqProperties
  <2> QED BY <2>2, <2>3
<1>9. \A c \in BlackjackDeck : Copies(own, c) + Copies(top, c) = Copies(cards, c)
  <2>1. PICK all : all = own \o top OBVIOUS
  <2>2. /\ all \in Seq(BlackjackDeck) /\ Len(all) = 3
        /\ all[1] = cards[1] /\ all[2] = cards[2] /\ all[3] = cards[3]
    <3>1. /\ own \o top \in Seq(BlackjackDeck) /\ Len(own \o top) = Len(own) + Len(top)
          /\ \A i \in 1 .. Len(own) + Len(top) :
               (own \o top)[i] = IF i <= Len(own) THEN own[i] ELSE top[i - Len(own)]
      BY <1>8, ConcatProperties, Zenon
    <3>2. /\ all \in Seq(BlackjackDeck) /\ Len(all) = 3
          /\ \A i \in 1 .. 3 : all[i] = IF i <= 2 THEN own[i] ELSE top[i - 2]
      BY <1>8, <2>1, <3>1
    <3>3. all[1] = own[1] /\ all[2] = own[2] /\ all[3] = top[1] BY <3>2
    <3> QED BY <1>8, <3>2, <3>3
  <2>3. \A i \in 1 .. 3 : i = 1 \/ i = 2 \/ i = 3 OBVIOUS
  <2>4. \A i \in 1 .. 3 : all[i] = cards[i] BY <2>2, <2>3, Zenon
  <2>5. all = cards
    <3>1. Len(all) = Len(cards) /\ \A i \in 1 .. Len(all) : all[i] = cards[i] BY <1>3, <2>2, <2>4
    <3> QED BY <1>3, <2>2, <3>1, SeqEqual, Zenon
  <2>6. \A c \in BlackjackDeck : Copies(own \o top, c) = Copies(own, c) + Copies(top, c)
    BY <1>8, CopiesConcat, Zenon
  <2> QED BY <2>1, <2>5, <2>6, Zenon
<1>10. /\ hand \in BlackjackHands /\ hand.mult = 1 /\ hand.cards = own
       /\ stage = "PlayerTurn" => hand.status = "Playing"
  <2>1. PICK status \in HandStatus :
          hand = Hand(own, status, FALSE) /\ (stage = "PlayerTurn" => status = "Playing")
    <3>1. "Blackjack" \in HandStatus /\ "Playing" \in HandStatus /\ "AwaitingReveal" # "PlayerTurn"
      BY DEF HandStatus
    <3> QED BY <1>2, <3>1, Zenon
  <2>2. FALSE \in BOOLEAN OBVIOUS
  <2> QED BY <1>8, <2>1, <2>2, NewHand
<1>11. PICK hands : hands = <<hand>> OBVIOUS
<1>12. /\ hands \in Seq(BlackjackHands) /\ Len(hands) = 1 /\ DOMAIN hands = {1} /\ hands[1] = hand
       /\ Total(Mults(hands)) = 1
       /\ \A c \in BlackjackDeck : InHands(hands, c) = Copies(own, c)
  BY <1>10, <1>11, OneHand
<1>13. PICK t : t = [state EXCEPT !.stage = stage, !.first = own, !.hands = hands, !.dealer = top] OBVIOUS
<1>14. /\ state' = t /\ settled' = settled + 0 /\ UNCHANGED <<session, charged, result>>
  BY <1>2, <1>7, <1>11, <1>13, Zenon DEF Continues, Pays
<1>15. /\ t.stage = stage /\ t.side = state.side /\ t.active = 1 /\ t.hands = hands /\ t.dealer = top
       /\ t = [stage |-> t.stage, side |-> t.side, first |-> t.first, active |-> t.active,
               hands |-> t.hands, dealer |-> t.dealer]
  <2>1. PICK s : s = state OBVIOUS
  <2>2. s = [stage |-> s.stage, side |-> s.side, first |-> s.first, active |-> s.active,
             hands |-> s.hands, dealer |-> s.dealer]
    BY <1>4, <2>1, Zenon DEF BlackjackShape
  <2>3. t = [s EXCEPT !.stage = stage, !.first = own, !.hands = hands, !.dealer = top]
    BY <1>13, <2>1, Zenon
  <2>4. /\ t.stage = stage /\ t.side = s.side /\ t.active = s.active /\ t.hands = hands
        /\ t.dealer = top
        /\ t = [stage |-> t.stage, side |-> t.side, first |-> t.first, active |-> t.active,
                hands |-> t.hands, dealer |-> t.dealer]
    BY <2>2, <2>3, BlackjackDealtRecord, Zenon
  <2> QED BY <1>5, <2>1, <2>4, Zenon
<1>16. BlackjackShape(t)
  <2>1. \A i \in DOMAIN hands : Len(hands[i].cards) <= HandBound
    <3>1. 2 <= HandBound BY BlackjackAssumption DEF HandBound
    <3>2. \A i \in DOMAIN hands : hands[i].cards = own BY <1>10, <1>12
    <3> QED BY <1>8, <3>1, <3>2, Zenon
  <2>2. \A c \in BlackjackDeck : InHands(hands, c) + Copies(top, c) <= BlackjackDecks
    BY <1>6, <1>9, <1>12
  <2>3. Len(hands) <= MaxHands /\ Len(top) <= 1 + DealerDraws BY <1>8, <1>12, BlackjackAssumption
  <2> QED BY <1>5, <1>8, <1>12, <1>15, <2>1, <2>2, <2>3, Zenon DEF BlackjackShape
<1>17. BlackjackTurns(t)
  <2>1. stage \in {"PlayerTurn", "AwaitingReveal"} BY <1>2
  <2>2. 1 \in DOMAIN hands /\ \A i \in DOMAIN hands : stage = "PlayerTurn" => hands[i].status = "Playing"
    BY <1>10, <1>12
  <2> QED BY <1>8, <1>15, <2>1, <2>2 DEF BlackjackTurns
<1>18. /\ t.stage # "Betting" /\ bet * Total(Mults(t.hands)) + t.side = charged + 0
       /\ charged' = charged + 0 /\ UNCHANGED <<session, settled, result>>
  <2>1. bet \in Nat /\ charged = bet + state.side /\ settled = 0 /\ charged \in Int
    BY <1>1 DEF BlackjackInv
  <2>2. t.stage # "Betting" BY <1>2, <1>15
  <2>3. Total(Mults(t.hands)) = 1 /\ t.side = state.side BY <1>12, <1>15
  <2> QED BY <1>5, <1>14, <2>1, <2>2, <2>3
<1>19. 0 \in Int /\ state' = t BY <1>14
<1> QED BY <1>1, <1>16, <1>17, <1>18, <1>19, BlackjackGoesOn

\* The status of one hand is replaced.
LEMMA StatusUpdated ==
    ASSUME NEW s, NEW a, NEW status,
           s = [stage |-> s.stage, side |-> s.side, first |-> s.first, active |-> s.active,
                hands |-> s.hands, dealer |-> s.dealer]
    PROVE  [s EXCEPT !.hands[a].status = status] =
             [s EXCEPT !.hands = [s.hands EXCEPT ![a] = [s.hands[a] EXCEPT !.status = status]]]
OBVIOUS

\* A hand gets a card.
Updated(s, a, cards, status) == [s EXCEPT !.hands[a].cards = cards, !.hands[a].status = status]

Updates(s, a, cards, status) ==
    /\ s = [stage |-> s.stage, side |-> s.side, first |-> s.first, active |-> s.active,
            hands |-> s.hands, dealer |-> s.dealer]
    /\ s.hands \in Seq(BlackjackHands) /\ a \in DOMAIN s.hands
Replaced(s, a, cards, status) ==
    [s EXCEPT !.hands = [s.hands EXCEPT ![a] = [s.hands[a] EXCEPT !.cards = cards, !.status = status]]]

\* That replaces the hand.
LEMMA HandUpdated ==
    ASSUME NEW s, NEW a, NEW cards, NEW status, Updates(s, a, cards, status)
    PROVE  Updated(s, a, cards, status) = Replaced(s, a, cards, status)
<1>1. /\ s = [stage |-> s.stage, side |-> s.side, first |-> s.first, active |-> s.active,
              hands |-> s.hands, dealer |-> s.dealer]
      /\ s.hands \in Seq(BlackjackHands) /\ a \in DOMAIN s.hands
  BY DEF Updates
<1> DEFINE t == Updated(s, a, cards, status)
<1>2. PICK x : x = [s EXCEPT !.hands[a].cards = cards] OBVIOUS
<1>3. PICK h : h = [s.hands[a] EXCEPT !.cards = cards] OBVIOUS
<1>4. PICK hands : hands = [s.hands EXCEPT ![a] = h] OBVIOUS
<1>5. x = [s EXCEPT !.hands = hands] BY <1>1, <1>2, <1>3, <1>4
<1>6. x.hands = hands /\ hands[a] = h BY <1>1, <1>4, <1>5
<1>7. PICK k : k = [h EXCEPT !.status = status] OBVIOUS
<1>8. [x EXCEPT !.hands[a].status = status] = [x EXCEPT !.hands = [hands EXCEPT ![a] = k]]
  BY <1>1, <1>5, <1>6, <1>7
<1>9. [hands EXCEPT ![a] = k] = [s.hands EXCEPT ![a] = k] BY <1>1, <1>4
<1>10. PICK last : last = [s.hands EXCEPT ![a] = k] OBVIOUS
<1>11. [x EXCEPT !.hands = last] = [s EXCEPT !.hands = last] BY <1>1, <1>5
<1>12. t = [x EXCEPT !.hands[a].status = status] BY <1>2 DEF Updated
<1>13. k = [s.hands[a] EXCEPT !.cards = cards, !.status = status] BY <1>1, <1>3, <1>7
<1> QED BY <1>8, <1>9, <1>10, <1>11, <1>12, <1>13, Zenon DEF Replaced

\* What is known when the player is to move.
LEMMA BlackjackOnTurn ==
    ASSUME BlackjackInv, BlackjackTurn
    PROVE  /\ game = "Blackjack" /\ result = Open /\ state.stage = "PlayerTurn"
           /\ BlackjackShape(state) /\ BlackjackTurns(state)
           /\ state.hands \in Seq(BlackjackHands) /\ state.active \in DOMAIN state.hands
           /\ ActiveHand \in BlackjackHands /\ ActiveHand = state.hands[state.active]
           /\ ActiveHand.cards \in Seq(BlackjackDeck) /\ ActiveHand.mult \in {1, 2}
           /\ Len(ActiveHand.cards) \in Nat /\ Len(ActiveHand.cards) <= HandBound
           /\ ActiveHand.split \in BOOLEAN
           /\ bet \in Nat /\ charged \in Int /\ settled = 0
           /\ bet * Total(Mults(state.hands)) + state.side = charged
           /\ Total(Mults(state.hands)) \in Nat /\ state.side \in Nat
           /\ state = [stage |-> state.stage, side |-> state.side, first |-> state.first,
                       active |-> state.active, hands |-> state.hands, dealer |-> state.dealer]
<1>1. game = "Blackjack" /\ result = Open /\ state.stage = "PlayerTurn" BY DEF BlackjackTurn, BlackjackOpen, IsOpen
<1>2. BlackjackShape(state) /\ BlackjackTurns(state) BY DEF BlackjackInv
<1>3. /\ state.hands \in Seq(BlackjackHands) /\ state.active \in DOMAIN state.hands /\ state.side \in Nat
      /\ Len(state.hands[state.active].cards) <= HandBound
      /\ state = [stage |-> state.stage, side |-> state.side, first |-> state.first,
                  active |-> state.active, hands |-> state.hands, dealer |-> state.dealer]
  BY <1>1, <1>2, Zenon DEF BlackjackShape, BlackjackTurns
<1>4. Total(Mults(state.hands)) \in Nat /\ \A i \in DOMAIN state.hands : state.hands[i] \in BlackjackHands
  BY <1>3, HandLedgers
<1>5. ActiveHand \in BlackjackHands /\ ActiveHand = state.hands[state.active]
  BY <1>3, <1>4, Zenon DEF ActiveHand
<1>6. ActiveHand.cards \in Seq(BlackjackDeck) /\ ActiveHand.mult \in {1, 2} /\ ActiveHand.split \in BOOLEAN
  <2> HIDE DEF ActiveHand
  <2> QED BY <1>5 DEF BlackjackHands
<1>7. Len(ActiveHand.cards) \in Nat BY <1>6, LenProperties, Zenon
<1>8. Len(ActiveHand.cards) <= HandBound BY <1>3, Zenon DEF ActiveHand
<1>9. bet * Total(Mults(state.hands)) + state.side = charged
  <2>1. charged = BlackjackWagered(state) BY <1>1 DEF BlackjackInv
  <2> QED BY <2>1, Zenon DEF BlackjackWagered, Mults
<1>10. bet \in Nat /\ charged \in Int /\ settled = 0 BY DEF BlackjackInv
<1> QED BY <1>1, <1>2, <1>3, <1>4, <1>5, <1>6, <1>7, <1>8, <1>9, <1>10, Zenon

\* The hand is played, and the turn goes on.
LEMMA BlackjackPlayed ==
    ASSUME BlackjackInv, BlackjackTurn,
           NEW h \in BlackjackHands, NEW m \in Nat, NEW card \in Seq(BlackjackDeck),
           h.cards = ActiveHand.cards \o card, Len(h.cards) <= HandBound, h.mult = ActiveHand.mult + m,
           \A c \in BlackjackDeck :
             InHands(state.hands, c) + Copies(state.dealer, c) + Copies(card, c) <= BlackjackDecks,
           NEW mid, mid = [state EXCEPT !.hands = [state.hands EXCEPT ![state.active] = h]],
           NEW t, t = Advanced(mid)
    PROVE  Advances(state, h, m, t)
<1>1. /\ BlackjackShape(state) /\ BlackjackTurns(state) /\ state.stage = "PlayerTurn"
      /\ ActiveHand = state.hands[state.active]
  BY BlackjackOnTurn
<1>2. PICK st : st = state OBVIOUS
<1>3. /\ h.cards = st.hands[st.active].cards \o card /\ h.mult = st.hands[st.active].mult + m
      /\ BlackjackShape(st) /\ BlackjackTurns(st) /\ st.stage = "PlayerTurn"
      /\ mid = [st EXCEPT !.hands = [st.hands EXCEPT ![st.active] = h]]
      /\ \A c \in BlackjackDeck :
           InHands(st.hands, c) + Copies(st.dealer, c) + Copies(card, c) <= BlackjackDecks
  BY <1>1, <1>2, Zenon
<1>4. Plays(st, h, m, card, mid) BY <1>3, Zenon DEF Plays
<1>5. Advances(st, h, m, t) BY <1>4, AdvancingTheTurn, Zenon
<1> QED BY <1>2, <1>5, Zenon

\* The hand that is doubled.
Doubled(hand, card, status) ==
    [hand EXCEPT !.cards = hand.cards \o card, !.mult = 2, !.status = status]

Doubles(hand, card, status, h) ==
    /\ hand \in BlackjackHands /\ card \in Seq(BlackjackDeck) /\ status \in HandStatus
    /\ h = Doubled(hand, card, status)

\* The doubled hand has one card more and two bets.
LEMMA HandAfterCard ==
    ASSUME NEW hand, NEW card, NEW status, NEW h, Doubles(hand, card, status, h)
    PROVE  /\ h \in BlackjackHands /\ h.cards = hand.cards \o card /\ h.mult = 2
           /\ h.status = status /\ Len(h.cards) = Len(hand.cards) + Len(card)
<1>1. /\ hand \in BlackjackHands /\ card \in Seq(BlackjackDeck) /\ status \in HandStatus
      /\ h = Doubled(hand, card, status)
  BY DEF Doubles
<1>2. hand.cards \in Seq(BlackjackDeck) BY <1>1 DEF BlackjackHands
<1>3. PICK cards : cards = hand.cards \o card OBVIOUS
<1>4. cards \in Seq(BlackjackDeck) /\ Len(cards) = Len(hand.cards) + Len(card)
  BY <1>1, <1>2, <1>3, ConcatProperties
<1>5. h = [hand EXCEPT !.cards = cards, !.mult = 2, !.status = status] BY <1>1, <1>3, Zenon DEF Doubled
<1>6. PICK x : x = [hand EXCEPT !.cards = cards] OBVIOUS
<1>7. x \in BlackjackHands /\ x.cards = cards BY <1>1, <1>4, <1>6 DEF BlackjackHands
<1>8. PICK y : y = [x EXCEPT !.mult = 2] OBVIOUS
<1>9. y \in BlackjackHands /\ y.cards = cards /\ y.mult = 2 BY <1>7, <1>8 DEF BlackjackHands
<1>10. h = [y EXCEPT !.status = status] BY <1>5, <1>6, <1>8, Zenon
<1>11. h \in BlackjackHands /\ h.cards = cards /\ h.mult = 2 /\ h.status = status
  BY <1>1, <1>9, <1>10 DEF BlackjackHands
<1> QED BY <1>3, <1>4, <1>11, Zenon

\* The hand is left as it is.
LEMMA BlackjackStandInv ==
    ASSUME BlackjackInv, BlackjackStand
    PROVE  BlackjackInv' /\ game' = "Blackjack"
<1>1. BlackjackTurn BY DEF BlackjackStand
<1>2. /\ game = "Blackjack" /\ result = Open /\ ActiveHand \in BlackjackHands
      /\ ActiveHand = state.hands[state.active] /\ ActiveHand.cards \in Seq(BlackjackDeck)
      /\ ActiveHand.mult \in {1, 2} /\ Len(ActiveHand.cards) <= HandBound
      /\ bet \in Nat /\ charged \in Int /\ settled = 0
      /\ bet * Total(Mults(state.hands)) + state.side = charged
      /\ Total(Mults(state.hands)) \in Nat /\ state.side \in Nat
      /\ state = [stage |-> state.stage, side |-> state.side, first |-> state.first,
                  active |-> state.active, hands |-> state.hands, dealer |-> state.dealer]
  BY <1>1, BlackjackOnTurn, Zenon
<1>3. PICK h : h = [ActiveHand EXCEPT !.status = "Standing"] OBVIOUS
<1>4. h \in BlackjackHands /\ h.cards = ActiveHand.cards /\ h.mult = ActiveHand.mult
  <2> HIDE DEF ActiveHand
  <2> QED BY <1>2, <1>3 DEF BlackjackHands, HandStatus
<1>5. PICK mid : mid = [state EXCEPT !.hands = [state.hands EXCEPT ![state.active] = h]] OBVIOUS
<1>6. PICK t : t = Advanced(mid) OBVIOUS
<1>7. state' = t /\ settled' = settled + 0 /\ UNCHANGED <<session, charged, result>>
  <2>1. PICK st, a : st = state /\ a = state.active OBVIOUS
  <2>2. st = [stage |-> st.stage, side |-> st.side, first |-> st.first, active |-> st.active,
              hands |-> st.hands, dealer |-> st.dealer]
    BY <1>2, <2>1, Zenon
  <2>3. [st EXCEPT !.hands[a].status = "Standing"] =
          [st EXCEPT !.hands = [st.hands EXCEPT ![a] = [st.hands[a] EXCEPT !.status = "Standing"]]]
    <3>1. PICK status : status = "Standing" OBVIOUS
    <3>2. [st EXCEPT !.hands[a].status = status] =
            [st EXCEPT !.hands = [st.hands EXCEPT ![a] = [st.hands[a] EXCEPT !.status = status]]]
      BY <2>2, StatusUpdated, Zenon
    <3> QED BY <3>1, <3>2, Zenon
  <2>4. [state EXCEPT !.hands[state.active].status = "Standing"] = mid
    BY <1>2, <1>3, <1>5, <2>1, <2>3, Zenon
  <2>5. Continues(Advanced([state EXCEPT !.hands[state.active].status = "Standing"]))
    BY DEF BlackjackStand
  <2>6. Continues(t) BY <1>6, <2>4, <2>5, Zenon
  <2> QED BY <2>6, Zenon DEF Continues, Pays
<1>8. Advances(state, h, 0, t)
  <2>1. PICK card : card = <<>> OBVIOUS
  <2>2. card \in Seq(BlackjackDeck) /\ ActiveHand.cards \o card = ActiveHand.cards
    BY <1>2, <2>1, ConcatEmptySeq
  <2>3. 0 \in Nat /\ h.mult = ActiveHand.mult + 0 BY <1>2, <1>4
  <2>4. h.cards = ActiveHand.cards \o card /\ Len(h.cards) <= HandBound BY <1>2, <1>4, <2>2, Zenon
  <2>5. ASSUME NEW c \in BlackjackDeck
        PROVE  InHands(state.hands, c) + Copies(state.dealer, c) + Copies(card, c) <= BlackjackDecks
    <3>1. state.hands \in Seq(BlackjackHands) /\ state.dealer \in Seq(BlackjackDeck)
          /\ InHands(state.hands, c) + Copies(state.dealer, c) <= BlackjackDecks
      BY Zenon DEF BlackjackInv, BlackjackShape
    <3>2. InHands(state.hands, c) \in Nat BY <3>1, HandLedgers
    <3>3. Copies(state.dealer, c) \in Nat /\ Copies(card, c) = 0 BY <2>1, <3>1, CopiesType, CopiesNone
    <3> QED BY <3>1, <3>2, <3>3
  <2> QED BY <1>1, <1>4, <1>5, <1>6, <2>2, <2>3, <2>4, <2>5, BlackjackPlayed, Zenon
<1>9. /\ BlackjackShape(t) /\ BlackjackTurns(t) /\ t.stage # "Betting"
      /\ t.side = state.side /\ Total(Mults(t.hands)) = Total(Mults(state.hands)) + 0
  BY <1>8 DEF Advances
<1>10. bet * Total(Mults(t.hands)) + t.side = charged + 0 BY <1>2, <1>9
<1>11. charged' = charged + 0 /\ UNCHANGED <<session, settled, result>> BY <1>2, <1>7
<1>12. 0 \in Int OBVIOUS
<1> QED BY <1>2, <1>7, <1>9, <1>10, <1>11, <1>12, BlackjackGoesOn, Zenon

\* The hand gets a card, and may end the game.
LEMMA BlackjackHitInv ==
    ASSUME BlackjackInv, BlackjackHit
    PROVE  BlackjackInv' /\ game' = "Blackjack"
<1>1. BlackjackTurn BY DEF BlackjackHit
<1>2. /\ game = "Blackjack" /\ result = Open /\ ActiveHand \in BlackjackHands
      /\ ActiveHand = state.hands[state.active] /\ ActiveHand.cards \in Seq(BlackjackDeck)
      /\ ActiveHand.mult \in {1, 2} /\ Len(ActiveHand.cards) \in Nat
      /\ state.hands \in Seq(BlackjackHands) /\ state.active \in DOMAIN state.hands
      /\ bet \in Nat /\ charged \in Int /\ settled = 0
      /\ bet * Total(Mults(state.hands)) + state.side = charged
      /\ Total(Mults(state.hands)) \in Nat /\ state.side \in Nat
      /\ state = [stage |-> state.stage, side |-> state.side, first |-> state.first,
                  active |-> state.active, hands |-> state.hands, dealer |-> state.dealer]
  BY <1>1, BlackjackOnTurn, Zenon
<1>3. PICK card, cards, status, s :
        /\ card \in BlackjackDeals(1) /\ cards = ActiveHand.cards \o card /\ status \in HandStatus
        /\ s = Advanced(Updated(state, state.active, cards, status))
        /\ IF AllBusted(s) THEN BlackjackSettle(s, SideReturn(s)) ELSE Continues(s)
  <2> DEFINE Status(cards) == CASE Worth(cards) > 21 -> "Busted" [] Worth(cards) = 21 -> "Standing"
                                [] OTHER -> "Playing"
             After(cards) == Advanced(Updated(state, state.active, cards, Status(cards)))
             Outcome(t) == IF AllBusted(t) THEN BlackjackSettle(t, SideReturn(t)) ELSE Continues(t)
  <2>1. PICK card \in BlackjackDeals(1) : Outcome(After(ActiveHand.cards \o card))
    BY Zenon DEF BlackjackHit, Updated
  <2>2. \A x : Status(x) \in HandStatus
    <3> SUFFICES ASSUME NEW x PROVE Status(x) \in HandStatus OBVIOUS
    <3>1. PICK points : points = Worth(x) OBVIOUS
    <3>2. (CASE points > 21 -> "Busted" [] points = 21 -> "Standing" [] OTHER -> "Playing") \in HandStatus
      BY DEF HandStatus
    <3> QED BY <3>1, <3>2, Zenon
  <2> HIDE DEF Status, Outcome
  <2>3. PICK cards : cards = ActiveHand.cards \o card OBVIOUS
  <2>4. PICK status : status = Status(cards) OBVIOUS
  <2>5. status \in HandStatus BY <2>2, <2>4, Zenon
  <2>6. PICK s : s = Advanced(Updated(state, state.active, cards, status)) OBVIOUS
  <2>7. Outcome(s) BY <2>1, <2>3, <2>4, <2>6, Zenon
  <2>8. card \in BlackjackDeals(1) BY <2>1
  <2> QED BY <2>3, <2>5, <2>6, <2>7, <2>8, Zenon DEF Outcome
<1>4. /\ card \in Seq(BlackjackDeck) /\ Len(card) = 1
      /\ \A c \in BlackjackDeck :
           InHands(state.hands, c) + Copies(state.dealer, c) + Copies(card, c) <= BlackjackDecks
  <2>1. 1 \in Nat OBVIOUS
  <2> QED BY <1>3, <2>1, BlackjackDealt
<1>5. PICK h : h = [ActiveHand EXCEPT !.cards = cards, !.status = status] OBVIOUS
<1>6. /\ h \in BlackjackHands /\ h.cards = ActiveHand.cards \o card /\ h.mult = ActiveHand.mult
      /\ Len(h.cards) = Len(ActiveHand.cards) + Len(card)
  <2>1. cards \in Seq(BlackjackDeck) /\ Len(cards) = Len(ActiveHand.cards) + Len(card)
    BY <1>2, <1>3, <1>4, ConcatProperties
  <2>2. PICK hand : hand = ActiveHand OBVIOUS
  <2>3. hand \in BlackjackHands /\ h = [hand EXCEPT !.cards = cards, !.status = status] BY <1>2, <1>5, <2>2, Zenon
  <2>4. PICK x : x = [hand EXCEPT !.cards = cards] OBVIOUS
  <2>5. x \in BlackjackHands /\ x.cards = cards /\ x.mult = hand.mult BY <2>1, <2>3, <2>4 DEF BlackjackHands
  <2>6. h = [x EXCEPT !.status = status] BY <2>3, <2>4, Zenon
  <2>7. status \in HandStatus BY <1>3
  <2>8. h \in BlackjackHands /\ h.cards = cards /\ h.mult = hand.mult BY <2>5, <2>6, <2>7 DEF BlackjackHands
  <2> QED BY <1>3, <2>1, <2>2, <2>8, Zenon
<1>7. Len(h.cards) <= HandBound
  <2>1. PICK n : n = Len(ActiveHand.cards) OBVIOUS
  <2>2. n \in Nat /\ Len(h.cards) = n + 1 BY <1>2, <1>4, <1>6, <2>1, Zenon
  <2>3. n <= MaxBlackjackHand BY <1>1, <1>2, <2>1, Zenon DEF BlackjackTurn, BlackjackOpen, BlackjackReadable
  <2> QED BY <2>2, <2>3, BlackjackAssumption DEF HandBound
<1>8. PICK mid : mid = [state EXCEPT !.hands = [state.hands EXCEPT ![state.active] = h]] OBVIOUS
<1>9. s = Advanced(mid)
  <2>1. PICK st, a : st = state /\ a = state.active OBVIOUS
  <2>2. Updates(st, a, cards, status) BY <1>2, <2>1, Zenon DEF Updates
  <2>3. Updated(st, a, cards, status) = Replaced(st, a, cards, status) BY <2>2, HandUpdated, Zenon
  <2>4. Replaced(st, a, cards, status) = mid BY <1>2, <1>5, <1>8, <2>1, Zenon DEF Replaced
  <2> QED BY <1>3, <2>1, <2>3, <2>4, Zenon
<1>10. Advances(state, h, 0, s)
  <2>1. 0 \in Nat /\ h.mult = ActiveHand.mult + 0 BY <1>2, <1>6
  <2> QED BY <1>1, <1>4, <1>6, <1>7, <1>8, <1>9, <2>1, BlackjackPlayed, Zenon
<1>11. /\ BlackjackShape(s) /\ BlackjackTurns(s) /\ s.stage # "Betting"
       /\ s.side = state.side /\ Total(Mults(s.hands)) = Total(Mults(state.hands)) + 0
  BY <1>10 DEF Advances
<1>12. /\ bet * Total(Mults(s.hands)) + s.side = charged + 0
       /\ bet * Total(Mults(s.hands)) + s.side = charged
  BY <1>2, <1>11
<1>13. CASE AllBusted(s)
  <2>1. PICK r : r = SideReturn(s) OBVIOUS
  <2>2. BlackjackSettle(s, r) BY <1>3, <1>13, <2>1, Zenon
  <2> QED BY <1>2, <1>11, <1>12, <2>2, BlackjackSettles, Zenon
<1>14. CASE ~AllBusted(s)
  <2>1. state' = s /\ settled' = settled + 0 /\ UNCHANGED <<session, charged, result>>
    BY <1>3, <1>14, Zenon DEF Continues, Pays
  <2>2. charged' = charged + 0 /\ UNCHANGED <<session, settled, result>> BY <1>2, <2>1
  <2>3. 0 \in Int OBVIOUS
  <2> QED BY <1>2, <1>11, <1>12, <2>1, <2>2, <2>3, BlackjackGoesOn, Zenon
<1> QED BY <1>13, <1>14

\* The hand gets a card and a second bet, which is not charged when it ends the game.
LEMMA BlackjackDoubleInv ==
    ASSUME BlackjackInv, BlackjackDouble
    PROVE  BlackjackInv' /\ game' = "Blackjack"
<1>1. BlackjackTurn /\ Len(ActiveHand.cards) = 2 /\ ActiveHand.mult = 1 BY DEF BlackjackDouble
<1>2. /\ game = "Blackjack" /\ result = Open /\ ActiveHand \in BlackjackHands
      /\ ActiveHand = state.hands[state.active] /\ ActiveHand.cards \in Seq(BlackjackDeck)
      /\ bet \in Nat /\ charged \in Int /\ settled = 0
      /\ bet * Total(Mults(state.hands)) + state.side = charged
      /\ Total(Mults(state.hands)) \in Nat /\ state.side \in Nat
      /\ state = [stage |-> state.stage, side |-> state.side, first |-> state.first,
                  active |-> state.active, hands |-> state.hands, dealer |-> state.dealer]
  BY <1>1, BlackjackOnTurn, Zenon
<1>3. PICK card, status, h, mid, s :
        /\ card \in BlackjackDeals(1) /\ status \in HandStatus
        /\ h = Doubled(ActiveHand, card, status)
        /\ mid = [state EXCEPT !.hands = [state.hands EXCEPT ![state.active] = h]]
        /\ s = Advanced(mid)
        /\ IF AllBusted(s) THEN BlackjackSettle(s, SideReturn(s)) ELSE Wagers(s, bet)
  <2> DEFINE Status(cards) == IF Worth(cards) > 21 THEN "Busted" ELSE "Standing"
             Mid(cards) == [state EXCEPT !.hands[state.active] =
                              [@ EXCEPT !.cards = cards, !.mult = 2, !.status = Status(cards)]]
             Outcome(t) == IF AllBusted(t) THEN BlackjackSettle(t, SideReturn(t)) ELSE Wagers(t, bet)
  <2>1. PICK card \in BlackjackDeals(1) : Outcome(Advanced(Mid(ActiveHand.cards \o card)))
    BY Zenon DEF BlackjackDouble
  <2>2. \A x : Status(x) \in HandStatus BY DEF HandStatus
  <2> HIDE DEF Status, Outcome
  <2>3. PICK status, h : /\ status = Status(ActiveHand.cards \o card)
                         /\ h = Doubled(ActiveHand, card, status)
    OBVIOUS
  <2>4. PICK mid : mid = [state EXCEPT !.hands = [state.hands EXCEPT ![state.active] = h]] OBVIOUS
  <2>5. mid = Mid(ActiveHand.cards \o card)
    BY <1>2, <2>3, <2>4 DEF Doubled
  <2>6. PICK s : s = Advanced(mid) OBVIOUS
  <2>7. Outcome(s) BY <2>1, <2>5, <2>6, Zenon
  <2>8. status \in HandStatus BY <2>2, <2>3, Zenon
  <2> QED BY <2>1, <2>3, <2>4, <2>6, <2>7, <2>8, Zenon DEF Outcome
<1>4. /\ card \in Seq(BlackjackDeck) /\ Len(card) = 1
      /\ \A c \in BlackjackDeck :
           InHands(state.hands, c) + Copies(state.dealer, c) + Copies(card, c) <= BlackjackDecks
  <2>1. 1 \in Nat OBVIOUS
  <2> QED BY <1>3, <2>1, BlackjackDealt
<1>5. /\ h \in BlackjackHands /\ h.cards = ActiveHand.cards \o card /\ h.mult = 2
      /\ Len(h.cards) = Len(ActiveHand.cards) + Len(card)
  <2>1. PICK hand : hand = ActiveHand OBVIOUS
  <2>2. Doubles(hand, card, status, h)
    BY <1>2, <1>3, <1>4, <2>1, Zenon DEF Doubles
  <2>3. /\ h \in BlackjackHands /\ h.cards = hand.cards \o card /\ h.mult = 2
        /\ h.status = status /\ Len(h.cards) = Len(hand.cards) + Len(card)
    BY <2>2, HandAfterCard
  <2> QED BY <2>1, <2>3, Zenon
<1>6. Len(h.cards) <= HandBound BY <1>1, <1>4, <1>5, BlackjackAssumption DEF HandBound
<1>7. Advances(state, h, 1, s)
  <2>1. 1 \in Nat /\ h.mult = ActiveHand.mult + 1 BY <1>1, <1>5
  <2> QED BY <1>1, <1>3, <1>4, <1>5, <1>6, <2>1, BlackjackPlayed, Zenon
<1>8. /\ BlackjackShape(s) /\ BlackjackTurns(s) /\ s.stage # "Betting"
      /\ s.side = state.side /\ Total(Mults(s.hands)) = Total(Mults(state.hands)) + 1
      /\ AllBusted(s) => s.hands[Len(s.hands)] = h
  BY <1>7 DEF Advances
<1>9. bet * Total(Mults(s.hands)) + s.side = charged + bet
  <2>1. PICK u, v, w : u = Total(Mults(state.hands)) /\ v = Total(Mults(s.hands)) /\ w = state.side OBVIOUS
  <2>2. u \in Nat /\ v = u + 1 /\ w \in Nat /\ bet * u + w = charged /\ s.side = w BY <1>2, <1>8, <2>1, Zenon
  <2>3. bet * (u + 1) = bet * u + bet BY <1>2, <2>2
  <2>4. bet * v + w = charged + bet BY <1>2, <2>2, <2>3
  <2> QED BY <2>1, <2>2, <2>4, Zenon
<1>10. CASE AllBusted(s)
  <2>1. PICK r : r = SideReturn(s) OBVIOUS
  <2>2. BlackjackSettle(s, r) BY <1>3, <1>10, <2>1, Zenon
  <2>3. s.hands[Len(s.hands)].mult = 2 BY <1>5, <1>8, <1>10, Zenon
  <2> QED BY <1>2, <1>8, <1>9, <1>10, <2>2, <2>3, BlackjackSettles, Zenon
<1>11. CASE ~AllBusted(s)
  <2>1. state' = s /\ charged' = charged + bet /\ UNCHANGED <<session, settled, result>>
    BY <1>3, <1>11, Zenon DEF Wagers
  <2>2. bet \in Int BY <1>2
  <2> QED BY <1>2, <1>8, <1>9, <2>1, <2>2, BlackjackGoesOn, Zenon
<1> QED BY <1>10, <1>11

\* Only the hands change.
LEMMA BlackjackHandsReplaced ==
    ASSUME NEW s, NEW hands, NEW t, t = [s EXCEPT !.hands = hands],
           s = [stage |-> s.stage, side |-> s.side, first |-> s.first, active |-> s.active,
                hands |-> s.hands, dealer |-> s.dealer]
    PROVE  /\ t.stage = s.stage /\ t.side = s.side /\ t.active = s.active /\ t.hands = hands
           /\ t.dealer = s.dealer
           /\ t = [stage |-> t.stage, side |-> t.side, first |-> t.first, active |-> t.active,
                   hands |-> t.hands, dealer |-> t.dealer]
OBVIOUS

\* Only the dealer's cards change.
LEMMA BlackjackDealerReplaced ==
    ASSUME NEW s, NEW dealer, NEW t, t = [s EXCEPT !.dealer = dealer],
           s = [stage |-> s.stage, side |-> s.side, first |-> s.first, active |-> s.active,
                hands |-> s.hands, dealer |-> s.dealer]
    PROVE  /\ t.stage = s.stage /\ t.side = s.side /\ t.active = s.active /\ t.hands = s.hands
           /\ t.dealer = dealer
           /\ t = [stage |-> t.stage, side |-> t.side, first |-> t.first, active |-> t.active,
                   hands |-> t.hands, dealer |-> t.dealer]
OBVIOUS

\* The hands of a split.
Splits(pair, cards, mult, one, two) ==
    /\ pair \in Seq(BlackjackDeck) /\ Len(pair) = 2 /\ cards \in Seq(BlackjackDeck) /\ Len(cards) = 2
    /\ mult \in {1, 2}
    /\ one = [Hand(<<pair[1], cards[1]>>, "Playing", TRUE) EXCEPT !.mult = mult]
    /\ two = Hand(<<pair[2], cards[2]>>, "Playing", TRUE)

\* Both hands have two cards and are played.
LEMMA SplitHands ==
    ASSUME NEW pair, NEW cards, NEW mult, NEW one, NEW two, Splits(pair, cards, mult, one, two)
    PROVE  /\ one \in BlackjackHands /\ one.cards = <<pair[1], cards[1]>> /\ one.mult = mult
           /\ one.status = "Playing" /\ Len(one.cards) = 2
           /\ two \in BlackjackHands /\ two.cards = <<pair[2], cards[2]>> /\ two.mult = 1
           /\ two.status = "Playing" /\ Len(two.cards) = 2
<1>1. pair[1] \in BlackjackDeck /\ pair[2] \in BlackjackDeck /\ cards[1] \in BlackjackDeck /\ cards[2] \in BlackjackDeck
  BY ElementOfSeq DEF Splits
<1>2. PICK x, y : x = <<pair[1], cards[1]>> /\ y = <<pair[2], cards[2]>> OBVIOUS
<1>3. x \in Seq(BlackjackDeck) /\ Len(x) = 2 /\ y \in Seq(BlackjackDeck) /\ Len(y) = 2 BY <1>1, <1>2
<1>4. /\ two \in BlackjackHands /\ two.cards = y /\ two.mult = 1 /\ two.status = "Playing"
  BY <1>2, <1>3 DEF Splits, Hand, BlackjackHands, HandStatus
<1>5. PICK half : half = Hand(x, "Playing", TRUE) OBVIOUS
<1>6. half \in BlackjackHands /\ half.cards = x /\ half.status = "Playing" BY <1>3, <1>5 DEF Hand, BlackjackHands, HandStatus
<1>7. one = [half EXCEPT !.mult = mult] BY <1>2, <1>5 DEF Splits
<1>8. one \in BlackjackHands /\ one.cards = x /\ one.mult = mult /\ one.status = "Playing"
  BY <1>6, <1>7 DEF Splits, BlackjackHands
<1> QED BY <1>2, <1>3, <1>4, <1>8

\* The second hand is charged.
LEMMA BlackjackSplitInv ==
    ASSUME BlackjackInv, BlackjackSplit
    PROVE  BlackjackInv' /\ game' = "Blackjack"
<1>1. BlackjackTurn /\ Len(state.hands) < MaxHands /\ Len(ActiveHand.cards) = 2 BY DEF BlackjackSplit
<1>2. /\ game = "Blackjack" /\ result = Open /\ state.stage = "PlayerTurn"
      /\ BlackjackShape(state) /\ BlackjackTurns(state)
      /\ state.hands \in Seq(BlackjackHands) /\ state.active \in DOMAIN state.hands
      /\ ActiveHand = state.hands[state.active] /\ ActiveHand.cards \in Seq(BlackjackDeck)
      /\ ActiveHand.mult \in {1, 2}
      /\ bet \in Nat /\ charged \in Int /\ settled = 0
      /\ bet * Total(Mults(state.hands)) + state.side = charged
      /\ Total(Mults(state.hands)) \in Nat /\ state.side \in Nat
      /\ state = [stage |-> state.stage, side |-> state.side, first |-> state.first,
                  active |-> state.active, hands |-> state.hands, dealer |-> state.dealer]
  BY <1>1, BlackjackOnTurn, Zenon
<1>3. PICK cards, one, two, after, t :
        /\ cards \in BlackjackDeals(2)
        /\ one = [Hand(<<ActiveHand.cards[1], cards[1]>>, "Playing", TRUE) EXCEPT !.mult = ActiveHand.mult]
        /\ two = Hand(<<ActiveHand.cards[2], cards[2]>>, "Playing", TRUE)
        /\ after = InsertAt([state.hands EXCEPT ![state.active] = one], state.active + 1, two)
        /\ t = [state EXCEPT !.hands = after]
        /\ Wagers(t, bet)
  <2>1. PICK cards \in BlackjackDeals(2) :
          LET Half(i) == Hand(<<ActiveHand.cards[i], cards[i]>>, "Playing", TRUE)
              kept == [Half(1) EXCEPT !.mult = ActiveHand.mult]
          IN  Wagers([state EXCEPT !.hands = InsertAt([@ EXCEPT ![state.active] = kept],
                                                      state.active + 1, Half(2))], bet)
    BY DEF BlackjackSplit
  <2>2. PICK one, two :
          /\ one = [Hand(<<ActiveHand.cards[1], cards[1]>>, "Playing", TRUE) EXCEPT !.mult = ActiveHand.mult]
          /\ two = Hand(<<ActiveHand.cards[2], cards[2]>>, "Playing", TRUE)
    OBVIOUS
  <2>3. PICK after : after = InsertAt([state.hands EXCEPT ![state.active] = one], state.active + 1, two)
    OBVIOUS
  <2>4. PICK t : t = [state EXCEPT !.hands = after] OBVIOUS
  <2>5. Wagers(t, bet) BY <2>1, <2>2, <2>3, <2>4, Zenon
  <2> QED BY <2>1, <2>2, <2>3, <2>4, <2>5, Zenon
<1>4. /\ cards \in Seq(BlackjackDeck) /\ Len(cards) = 2
      /\ \A c \in BlackjackDeck :
           InHands(state.hands, c) + Copies(state.dealer, c) + Copies(cards, c) <= BlackjackDecks
  <2>1. 2 \in Nat OBVIOUS
  <2> QED BY <1>3, <2>1, BlackjackDealt
<1>5. PICK hands, a : hands = state.hands /\ a = state.active OBVIOUS
<1>6. /\ one \in BlackjackHands /\ one.cards = <<hands[a].cards[1], cards[1]>> /\ one.mult = hands[a].mult
      /\ one.status = "Playing" /\ Len(one.cards) = 2
      /\ two \in BlackjackHands /\ two.cards = <<hands[a].cards[2], cards[2]>> /\ two.mult = 1
      /\ two.status = "Playing" /\ Len(two.cards) = 2
  <2>1. PICK pair, mult : pair = hands[a].cards /\ mult = hands[a].mult OBVIOUS
  <2>2. ActiveHand.cards = pair /\ ActiveHand.mult = mult BY <1>2, <1>5, <2>1, Zenon
  <2>3. /\ pair \in Seq(BlackjackDeck) /\ Len(pair) = 2 /\ mult \in {1, 2}
        /\ one = [Hand(<<pair[1], cards[1]>>, "Playing", TRUE) EXCEPT !.mult = mult]
        /\ two = Hand(<<pair[2], cards[2]>>, "Playing", TRUE)
    BY <1>1, <1>2, <1>3, <2>2, Zenon
  <2>4. Splits(pair, cards, mult, one, two) BY <1>4, <2>3, Zenon DEF Splits
  <2>5. /\ one \in BlackjackHands /\ one.cards = <<pair[1], cards[1]>> /\ one.mult = mult
        /\ one.status = "Playing" /\ Len(one.cards) = 2
        /\ two \in BlackjackHands /\ two.cards = <<pair[2], cards[2]>> /\ two.mult = 1
        /\ two.status = "Playing" /\ Len(two.cards) = 2
    BY <2>4, SplitHands
  <2> QED BY <2>1, <2>5, Zenon
<1>7. HandsSplit(hands, a, one, two, cards, after)
  <2>1. /\ hands \in Seq(BlackjackHands) /\ a \in DOMAIN hands /\ Len(hands[a].cards) = 2
        /\ after = InsertAt([hands EXCEPT ![a] = one], a + 1, two)
    BY <1>1, <1>2, <1>3, <1>5, Zenon
  <2> QED BY <1>4, <1>6, <2>1, SplittingAHand, Zenon
<1>8. /\ t.stage = state.stage /\ t.side = state.side /\ t.active = a /\ t.hands = after
      /\ t.dealer = state.dealer
      /\ t = [stage |-> t.stage, side |-> t.side, first |-> t.first, active |-> t.active,
              hands |-> t.hands, dealer |-> t.dealer]
  <2>1. PICK s : s = state OBVIOUS
  <2>2. /\ s = [stage |-> s.stage, side |-> s.side, first |-> s.first, active |-> s.active,
                hands |-> s.hands, dealer |-> s.dealer]
        /\ t = [s EXCEPT !.hands = after]
    BY <1>2, <1>3, <2>1, Zenon
  <2>3. /\ t.stage = s.stage /\ t.side = s.side /\ t.active = s.active /\ t.hands = after
        /\ t.dealer = s.dealer
        /\ t = [stage |-> t.stage, side |-> t.side, first |-> t.first, active |-> t.active,
                hands |-> t.hands, dealer |-> t.dealer]
    BY <2>2, BlackjackHandsReplaced
  <2> QED BY <1>5, <2>1, <2>3, Zenon
<1>9. PICK n : n = Len(hands) OBVIOUS
<1>10. /\ n \in Nat /\ DOMAIN hands = 1 .. n /\ a \in 1 .. n /\ n < MaxHands
       /\ \A i \in 1 .. n : Len(hands[i].cards) <= HandBound
       /\ \A i \in 1 .. n : i >= a => hands[i].status = "Playing"
  <2>1. n \in Nat /\ DOMAIN hands = 1 .. n BY <1>2, <1>5, <1>9, HandLedgers
  <2>2. /\ \A i \in DOMAIN hands : Len(hands[i].cards) <= HandBound
        /\ \A i \in DOMAIN hands : i >= a => hands[i].status = "Playing"
    BY <1>2, <1>5, Zenon DEF BlackjackShape, BlackjackTurns
  <2> QED BY <1>1, <1>2, <1>5, <1>9, <2>1, <2>2, Zenon
<1>11. /\ after \in Seq(BlackjackHands) /\ Len(after) = n + 1 /\ DOMAIN after = 1 .. n + 1
       /\ after[a] = one /\ after[a + 1] = two
       /\ \A i \in 1 .. n : i < a => after[i] = hands[i]
       /\ \A i \in 1 .. n : i > a => after[i + 1] = hands[i]
  BY <1>7, <1>9, Zenon DEF HandsSplit
<1>12. ASSUME NEW i \in DOMAIN after
       PROVE  Len(after[i].cards) <= HandBound /\ (i >= a => after[i].status = "Playing")
  <2>1. i \in 1 .. n + 1 BY <1>11
  <2>2. 2 <= HandBound BY BlackjackAssumption DEF HandBound
  <2> HIDE DEF HandBound
  <2>3. CASE i < a
    <3>1. i \in 1 .. n /\ ~(i >= a) BY <1>10, <2>1, <2>3
    <3>2. after[i] = hands[i] BY <1>11, <2>3, <3>1
    <3> QED BY <1>10, <3>1, <3>2, Zenon
  <2>4. CASE i = a BY <1>6, <1>11, <2>2, <2>4
  <2>5. CASE i = a + 1 BY <1>6, <1>11, <2>2, <2>5
  <2>6. CASE i > a + 1
    <3>1. PICK j : j = i - 1 OBVIOUS
    <3>2. j \in 1 .. n /\ j > a /\ j >= a /\ i = j + 1 BY <1>10, <2>1, <2>6, <3>1
    <3>3. after[i] = hands[j] BY <1>11, <3>2
    <3> QED BY <1>10, <3>2, <3>3, Zenon
  <2>7. i < a \/ i = a \/ i = a + 1 \/ i > a + 1 BY <1>10, <2>1
  <2> QED BY <2>3, <2>4, <2>5, <2>6, <2>7
<1>13. BlackjackShape(t)
  <2>1. Len(after) <= MaxHands BY <1>10, <1>11, BlackjackAssumption
  <2>2. ASSUME NEW c \in BlackjackDeck PROVE InHands(after, c) + Copies(state.dealer, c) <= BlackjackDecks
    <3>1. InHands(after, c) = InHands(state.hands, c) + Copies(cards, c) BY <1>5, <1>7 DEF HandsSplit
    <3>2. InHands(state.hands, c) + Copies(state.dealer, c) + Copies(cards, c) <= BlackjackDecks BY <1>4
    <3>3. state.dealer \in Seq(BlackjackDeck) BY <1>2, Zenon DEF BlackjackShape
    <3>4. Copies(state.dealer, c) \in Nat /\ Copies(cards, c) \in Nat BY <1>4, <3>3, CopiesType, Zenon
    <3>5. InHands(state.hands, c) \in Nat BY <1>2, HandLedgers
    <3> QED BY <3>1, <3>2, <3>4, <3>5, BlackjackAssumption
  <2>3. /\ t.side \in Nat /\ t.dealer \in Seq(BlackjackDeck) /\ Len(t.dealer) <= 1 + DealerDraws
    BY <1>2, <1>8, Zenon DEF BlackjackShape
  <2>4. \A i \in DOMAIN t.hands : Len(t.hands[i].cards) <= HandBound BY <1>8, <1>12, Zenon
  <2>5. \A c \in BlackjackDeck : InHands(t.hands, c) + Copies(t.dealer, c) <= BlackjackDecks BY <1>8, <2>2, Zenon
  <2>6. t.hands \in Seq(BlackjackHands) /\ Len(t.hands) <= MaxHands BY <1>8, <1>11, <2>1, Zenon
  <2> QED BY <1>8, <2>3, <2>4, <2>5, <2>6, Zenon DEF BlackjackShape
<1>14. BlackjackTurns(t) /\ t.stage # "Betting"
  <2>1. t.stage = "PlayerTurn" /\ t.active \in DOMAIN t.hands
    <3>1. a \in 1 .. n + 1 BY <1>10
    <3> QED BY <1>2, <1>8, <1>11, <3>1
  <2>2. \A i \in DOMAIN t.hands : i >= t.active => t.hands[i].status = "Playing" BY <1>8, <1>12, Zenon
  <2>3. Len(t.dealer) = 1
    <3>1. Len(state.dealer) = 1 BY <1>2 DEF BlackjackTurns
    <3> QED BY <1>8, <3>1, Zenon
  <2> QED BY <2>1, <2>2, <2>3 DEF BlackjackTurns
<1>15. bet * Total(Mults(t.hands)) + t.side = charged + bet
  <2>1. PICK u, v, w : u = Total(Mults(state.hands)) /\ v = Total(Mults(t.hands)) /\ w = state.side OBVIOUS
  <2>2. Total(Mults(after)) = Total(Mults(hands)) + 1 BY <1>7 DEF HandsSplit
  <2>3. u \in Nat /\ v = u + 1 /\ w \in Nat /\ bet * u + w = charged /\ t.side = w
    BY <1>2, <1>5, <1>8, <2>1, <2>2, Zenon
  <2>4. bet * (u + 1) = bet * u + bet BY <1>2, <2>3
  <2>5. bet * v + w = charged + bet BY <1>2, <2>3, <2>4
  <2> QED BY <2>1, <2>3, <2>5, Zenon
<1>16. state' = t /\ charged' = charged + bet /\ UNCHANGED <<session, settled, result>>
  BY <1>3, Zenon DEF Wagers
<1>17. bet \in Int BY <1>2
<1> QED BY <1>2, <1>13, <1>14, <1>15, <1>16, <1>17, BlackjackGoesOn, Zenon

\* The dealer's cards come from the same shoe.
LEMMA BlackjackRevealInv ==
    ASSUME BlackjackInv, BlackjackReveal
    PROVE  BlackjackInv' /\ game' = "Blackjack"
<1>1. game = "Blackjack" /\ result = Open /\ state.stage = "AwaitingReveal" BY DEF BlackjackReveal, BlackjackOpen, IsOpen
<1>2. PICK n, drawn, s, r :
        /\ n \in 1 .. DealerDraws /\ drawn \in BlackjackDeals(n)
        /\ s = [state EXCEPT !.dealer = state.dealer \o drawn]
        /\ BlackjackSettle(s, r)
  <2>1. PICK dealer \in DealerHands :
          LET s == [state EXCEPT !.dealer = dealer]
          IN  BlackjackSettle(s, Sum([i \in DOMAIN s.hands |-> HandReturn(s.hands[i], dealer)])
                                 + SideReturn(s))
    BY DEF BlackjackReveal
  <2>2. PICK s : s = [state EXCEPT !.dealer = dealer] OBVIOUS
  <2>3. \E r : BlackjackSettle(s, r) BY <2>1, <2>2, Zenon
  <2>4. PICK r : BlackjackSettle(s, r) BY <2>3
  <2>5. PICK n \in 1 .. DealerDraws : \E drawn \in BlackjackDeals(n) : dealer = state.dealer \o drawn
    BY <2>1, Zenon DEF DealerHands
  <2>6. PICK drawn \in BlackjackDeals(n) : dealer = state.dealer \o drawn BY <2>5
  <2> QED BY <2>2, <2>4, <2>5, <2>6, Zenon
<1>3. /\ BlackjackShape(state) /\ BlackjackTurns(state) /\ Len(state.dealer) = 1
      /\ state.dealer \in Seq(BlackjackDeck) /\ state.hands \in Seq(BlackjackHands)
      /\ state = [stage |-> state.stage, side |-> state.side, first |-> state.first,
                  active |-> state.active, hands |-> state.hands, dealer |-> state.dealer]
  <2>1. BlackjackShape(state) /\ BlackjackTurns(state) BY DEF BlackjackInv
  <2>2. Len(state.dealer) = 1 BY <1>1, <2>1 DEF BlackjackTurns
  <2> QED BY <2>1, <2>2, Zenon DEF BlackjackShape
<1>4. n \in Nat /\ n <= DealerDraws BY <1>2, BlackjackAssumption
<1>5. /\ drawn \in Seq(BlackjackDeck) /\ Len(drawn) = n
      /\ \A c \in BlackjackDeck :
           InHands(state.hands, c) + Copies(state.dealer, c) + Copies(drawn, c) <= BlackjackDecks
  BY <1>2, <1>4, BlackjackDealt
<1>6. PICK dealer : dealer = state.dealer \o drawn OBVIOUS
<1>7. dealer \in Seq(BlackjackDeck) /\ Len(dealer) = 1 + n BY <1>3, <1>5, <1>6, ConcatProperties
<1>8. /\ s.stage = state.stage /\ s.side = state.side /\ s.active = state.active /\ s.hands = state.hands
      /\ s.dealer = dealer
      /\ s = [stage |-> s.stage, side |-> s.side, first |-> s.first, active |-> s.active,
              hands |-> s.hands, dealer |-> s.dealer]
  <2>1. PICK st : st = state OBVIOUS
  <2>2. /\ st = [stage |-> st.stage, side |-> st.side, first |-> st.first, active |-> st.active,
                 hands |-> st.hands, dealer |-> st.dealer]
        /\ s = [st EXCEPT !.dealer = dealer]
    BY <1>2, <1>3, <1>6, <2>1, Zenon
  <2>3. /\ s.stage = st.stage /\ s.side = st.side /\ s.active = st.active /\ s.hands = st.hands
        /\ s.dealer = dealer
        /\ s = [stage |-> s.stage, side |-> s.side, first |-> s.first, active |-> s.active,
                hands |-> s.hands, dealer |-> s.dealer]
    BY <2>2, BlackjackDealerReplaced
  <2> QED BY <2>1, <2>3, Zenon
<1>9. BlackjackShape(s)
  <2>1. ASSUME NEW c \in BlackjackDeck PROVE InHands(s.hands, c) + Copies(s.dealer, c) <= BlackjackDecks
    <3>1. Copies(dealer, c) = Copies(state.dealer, c) + Copies(drawn, c)
      BY <1>3, <1>5, <1>6, CopiesConcat
    <3>2. InHands(state.hands, c) + Copies(state.dealer, c) + Copies(drawn, c) <= BlackjackDecks BY <1>5
    <3>3. Copies(state.dealer, c) \in Nat /\ Copies(drawn, c) \in Nat BY <1>3, <1>5, CopiesType, Zenon
    <3>4. InHands(state.hands, c) \in Nat BY <1>3, HandLedgers
    <3>5. InHands(state.hands, c) + Copies(dealer, c) <= BlackjackDecks
      BY <3>1, <3>2, <3>3, <3>4, BlackjackAssumption
    <3> QED BY <1>8, <3>5, Zenon
  <2>2. Len(s.dealer) <= 1 + DealerDraws
    <3>1. 1 + n <= 1 + DealerDraws BY <1>4, BlackjackAssumption
    <3> QED BY <1>7, <1>8, <3>1, Zenon
  <2>3. /\ s.side \in Nat /\ s.hands \in Seq(BlackjackHands) /\ Len(s.hands) <= MaxHands
        /\ \A i \in DOMAIN s.hands : Len(s.hands[i].cards) <= HandBound
    BY <1>3, <1>8, Zenon DEF BlackjackShape
  <2>4. s.dealer \in Seq(BlackjackDeck) BY <1>7, <1>8, Zenon
  <2> QED BY <1>8, <2>1, <2>2, <2>3, <2>4, Zenon DEF BlackjackShape
<1>10. bet * Total(Mults(s.hands)) + s.side = charged
  <2>1. charged = BlackjackWagered(state) BY <1>1 DEF BlackjackInv
  <2>2. bet * Total(Mults(state.hands)) + state.side = charged BY <2>1, Zenon DEF BlackjackWagered, Mults
  <2> QED BY <1>8, <2>2, Zenon
<1> QED BY <1>1, <1>2, <1>9, <1>10, BlackjackSettles, Zenon

\* Every move of Blackjack keeps the books.
LEMMA BlackjackNextInv == BlackjackInv /\ BlackjackNext => BlackjackInv' /\ game' = "Blackjack"
<1> SUFFICES ASSUME BlackjackInv, BlackjackNext PROVE BlackjackInv' /\ game' = "Blackjack" OBVIOUS
<1>1. CASE \E n \in SideBets : BlackjackSide(n) BY <1>1, BlackjackSideInv, Zenon
<1>2. CASE BlackjackDeal BY <1>2, BlackjackDealInv, Zenon
<1>3. CASE BlackjackHit BY <1>3, BlackjackHitInv, Zenon
<1>4. CASE BlackjackStand BY <1>4, BlackjackStandInv, Zenon
<1>5. CASE BlackjackDouble BY <1>5, BlackjackDoubleInv, Zenon
<1>6. CASE BlackjackSplit BY <1>6, BlackjackSplitInv, Zenon
<1>7. CASE BlackjackReveal BY <1>7, BlackjackRevealInv, Zenon
<1> QED BY <1>1, <1>2, <1>3, <1>4, <1>5, <1>6, <1>7, Zenon DEF BlackjackNext

----------------------------------------------------------------------------
(* Craps: what a roll leaves on the table keeps its stakes, and a line bet *)
(* follows the point of the table.                                         *)

CrapsRecords ==
    [type : CrapsTypes, target : Nat, amount : Nat, odds : Nat, seen : SUBSET Nat,
     status : {"On", "Pending"}]

FollowsThePoint(b, phase, point) ==
    /\ b.type \in Line /\ b.target # 0 => phase = "Point" /\ b.target = point
    /\ b.odds > 0 => b.target \in Points
    /\ b.status = "Pending" => b.type \in {"Come", "DontCome"} /\ b.odds = 0

CrapsInv ==
    /\ charged \in Int /\ settled \in Int
    /\ state = [phase |-> state.phase, point |-> state.point, last |-> state.last,
                made |-> state.made, established |-> state.established, bets |-> state.bets]
    /\ \/ state.phase = "ComeOut" /\ state.point = 0
       \/ state.phase = "Point" /\ state.point \in Points
    /\ state.bets \in Seq(CrapsRecords) /\ Len(state.bets) <= MaxBets
    /\ \A i \in DOMAIN state.bets : FollowsThePoint(state.bets[i], state.phase, state.point)
    /\ Books(CrapsWagered(state.bets))
    /\ result.kind = "LossPreDeducted" => result.amount <= charged - settled

\* The faces of a die.
LEMMA RollDieType == \A d \in RollDie : d \in 1 .. 6
<1>1. \A n \in Nat : n % 6 \in 0 .. 5 OBVIOUS
<1> SUFFICES ASSUME NEW d \in RollDie PROVE d \in 1 .. 6 OBVIOUS
<1>2. PICK face \in Bounded(6) : d = face + 1 BY DEF RollDie
<1>3. PICK n \in Nat : face = n % 6
  <2>1. Limit(6) \in Nat BY DEF Limit, Byte
  <2> QED BY <2>1 DEF Bounded
<1> QED BY <1>1, <1>2, <1>3

\* A stake is a natural number.
LEMMA CrapsStakeType ==
    ASSUME NEW b \in CrapsRecords
    PROVE  CrapsStake(b) \in Nat
<1>1. b.amount \in Nat /\ b.odds \in Nat BY DEF CrapsRecords
<1>2. BuyCommission(b.amount) \in Nat
  <2>1. b.amount * 500 + 9999 \in Nat BY <1>1
  <2> QED BY <2>1, DivBounds DEF BuyCommission
<1> HIDE DEF BuyCommission
<1> QED BY <1>1, <1>2 DEF CrapsStake

\* The stakes are a ledger over the bets.
LEMMA CrapsStakes ==
    ASSUME NEW bets \in Seq(CrapsRecords)
    PROVE  /\ IsFiniteSet(DOMAIN bets) /\ DOMAIN bets = 1 .. Len(bets) /\ Len(bets) \in Nat
           /\ \A i \in DOMAIN bets : bets[i] \in CrapsRecords /\ CrapsStake(bets[i]) \in Nat
           /\ [i \in DOMAIN bets |-> CrapsStake(bets[i])] \in [DOMAIN bets -> Nat]
           /\ CrapsWagered(bets) \in Nat
<1>1. Len(bets) \in Nat /\ DOMAIN bets = 1 .. Len(bets) BY LenProperties, Zenon
<1>2. 1 \in Int /\ Len(bets) \in Int BY <1>1
<1>3. IsFiniteSet(DOMAIN bets) BY <1>1, <1>2, FS_Interval, Zenon
<1>4. \A i \in DOMAIN bets : bets[i] \in CrapsRecords BY <1>1, ElementOfSeq, Zenon
<1>5. \A i \in DOMAIN bets : CrapsStake(bets[i]) \in Nat BY <1>4, CrapsStakeType, Zenon
<1> DEFINE f == [i \in DOMAIN bets |-> CrapsStake(bets[i])]
<1>6. f \in [DOMAIN bets -> Nat] BY <1>5
<1> HIDE DEF f
<1>7. Total(f) \in Nat BY <1>3, <1>6, TotalType, Zenon
<1> QED BY <1>1, <1>3, <1>4, <1>5, <1>6, <1>7 DEF f, CrapsWagered

\* Every position has a rank among the positions, and Nth finds it by that.
Rank(S, i) == Cardinality({j \in S : j <= i})

\* Rank and Nth are inverse to each other.
LEMMA NthIsRanked ==
    ASSUME NEW S \in SUBSET Nat, IsFiniteSet(S)
    PROVE  /\ Cardinality(S) \in Nat
           /\ \A i \in S : Rank(S, i) \in 1 .. Cardinality(S) /\ Nth(S, Rank(S, i)) = i
           /\ \A k \in 1 .. Cardinality(S) : Nth(S, k) \in S /\ Rank(S, Nth(S, k)) = k
<1> DEFINE Upto(i) == {j \in S : j <= i}
           n == Cardinality(S)
           m == [i \in S |-> Rank(S, i)]
<1>1. n \in Nat BY FS_CardinalityType
<1>2. ASSUME NEW i \in S
      PROVE  IsFiniteSet(Upto(i)) /\ Cardinality(Upto(i)) \in 1 .. n
  <2>1. Upto(i) \in SUBSET S OBVIOUS
  <2>2. i \in Upto(i) OBVIOUS
  <2> HIDE DEF Upto
  <2>3. IsFiniteSet(Upto(i)) /\ Cardinality(Upto(i)) <= n BY <2>1, FS_Subset, Zenon
  <2>4. Cardinality(Upto(i)) \in Nat BY <2>3, FS_CardinalityType, Zenon
  <2>5. Cardinality(Upto(i)) # 0 BY <2>2, <2>3, FS_EmptySet
  <2> QED BY <1>1, <2>3, <2>4, <2>5
<1>3. ASSUME NEW i \in S, NEW j \in S, i < j PROVE Cardinality(Upto(i)) # Cardinality(Upto(j))
  <2>0. i \in Nat /\ j \in Nat /\ \A k \in S : k \in Nat OBVIOUS
  <2>4. /\ j <= j /\ ~(j <= i)
        /\ \A k \in S : k <= i => k <= j
    BY <1>3, <2>0
  <2>1. Upto(i) \in SUBSET Upto(j) /\ j \in Upto(j) /\ j \notin Upto(i) BY <2>4, Zenon
  <2>2. IsFiniteSet(Upto(j)) BY <1>2
  <2> HIDE DEF Upto
  <2>3. Cardinality(Upto(j)) = Cardinality(Upto(i)) => Upto(j) = Upto(i)
    BY <2>1, <2>2, FS_Subset, Zenon
  <2> QED BY <2>1, <2>3
<1>4. \A i \in S : m[i] = Cardinality(Upto(i)) BY DEF Rank
<1> HIDE DEF Upto
<1>5. m \in [S -> 1 .. n] BY <1>2, <1>4
<1>6. \A i, j \in S : m[i] = m[j] => i = j
  <2> SUFFICES ASSUME NEW i \in S, NEW j \in S, m[i] = m[j] PROVE i = j OBVIOUS
  <2>1. ~(i < j) /\ ~(j < i) BY <1>3, <1>4
  <2>2. i \in Nat /\ j \in Nat OBVIOUS
  <2> QED BY <2>1, <2>2
<1>7. \A i \in S : Rank(S, i) = m[i] OBVIOUS
<1> HIDE DEF m
<1>8. m \in Injection(S, 1 .. n) BY <1>5, <1>6, Zenon DEF Injection, IsInjective
<1>9. IsFiniteSet(1 .. n) /\ Cardinality(1 .. n) = n
  <2>1. 1 \in Int /\ n \in Int BY <1>1
  <2>2. IsFiniteSet(1 .. n) /\ Cardinality(1 .. n) = IF 1 > n THEN 0 ELSE n - 1 + 1
    BY <2>1, FS_Interval, Zenon
  <2> QED BY <1>1, <2>2
<1>10. m \in Surjection(S, 1 .. n) BY <1>8, <1>9, FS_Injection, Zenon
<1>11. \A k \in 1 .. n : \E i \in S : m[i] = k BY <1>10, Zenon DEF Surjection
<1>12. ASSUME NEW k \in 1 .. n PROVE Nth(S, k) \in S /\ Rank(S, Nth(S, k)) = k
  <2>1. \E i \in S : Rank(S, i) = k BY <1>7, <1>11, Zenon
  <2> QED BY <2>1, Zenon DEF Nth, Rank
<1>13. ASSUME NEW i \in S PROVE Rank(S, i) \in 1 .. n /\ Nth(S, Rank(S, i)) = i
  <2>1. Rank(S, i) \in 1 .. n BY <1>5, <1>7
  <2>2. Nth(S, Rank(S, i)) \in S /\ Rank(S, Nth(S, Rank(S, i))) = Rank(S, i) BY <1>12, <2>1, Zenon
  <2>3. m[Nth(S, Rank(S, i))] = m[i] BY <1>7, <2>2, Zenon
  <2> QED BY <1>6, <2>1, <2>2, <2>3, Zenon
<1> QED BY <1>1, <1>12, <1>13

\* What a roll changes in a bet that stays.
LEMMA MovedKeeps ==
    ASSUME NEW b \in CrapsRecords, NEW total \in Nat
    PROVE  /\ Moved(b, total) \in CrapsRecords
           /\ Moved(b, total).type = b.type /\ Moved(b, total).odds = b.odds
           /\ CrapsStake(Moved(b, total)) = CrapsStake(b)
<1> DEFINE c == Moved(b, total)
<1>1. c \in CrapsRecords /\ c.type = b.type /\ c.odds = b.odds /\ c.amount = b.amount
  BY DEF Moved, CrapsRecords
<1> HIDE DEF c
<1>2. CrapsStake(c) = CrapsStake(b) BY <1>1 DEF CrapsStake
<1> QED BY <1>1, <1>2 DEF c

\* Positions that stay keep their stakes, in whatever order.
IsRetained(bets, rest, total, after) ==
    /\ after \in Seq(CrapsRecords) /\ Len(after) <= Len(bets)
    /\ \A k \in DOMAIN after : \E i \in rest : after[k] = Moved(bets[i], total)
    /\ CrapsWagered(after) = Total([i \in rest |-> CrapsStake(bets[i])])

\* The bets that a roll leaves keep their stakes, whatever happens to their targets.
LEMMA RetainedStakes ==
    ASSUME NEW bets \in Seq(CrapsRecords), NEW rest \in SUBSET DOMAIN bets,
           NEW total \in Nat, NEW left, left = Retained(bets, rest),
           NEW after, after = [k \in DOMAIN left |-> Moved(left[k], total)]
    PROVE  IsRetained(bets, rest, total, after)
<1> DEFINE n == Cardinality(rest)
           Q == 1 .. n
           f == [i \in rest |-> CrapsStake(bets[i])]
           g == [k \in DOMAIN after |-> CrapsStake(after[k])]
           r == [i \in rest |-> Rank(rest, i)]
           s == [k \in Q |-> Nth(rest, k)]
<1>1. /\ IsFiniteSet(DOMAIN bets) /\ DOMAIN bets = 1 .. Len(bets) /\ Len(bets) \in Nat
      /\ \A i \in DOMAIN bets : bets[i] \in CrapsRecords /\ CrapsStake(bets[i]) \in Nat
  BY CrapsStakes
<1>2. IsFiniteSet(rest) /\ n <= Cardinality(DOMAIN bets) BY <1>1, FS_Subset
<1>3. Cardinality(DOMAIN bets) = Len(bets)
  <2>1. 1 \in Int /\ Len(bets) \in Int BY <1>1
  <2>2. Cardinality(1 .. Len(bets)) = IF 1 > Len(bets) THEN 0 ELSE Len(bets) - 1 + 1
    BY <2>1, FS_Interval, Zenon
  <2>3. Cardinality(1 .. Len(bets)) = Len(bets) BY <1>1, <2>2
  <2> QED BY <1>1, <2>3, Zenon
<1>4. rest \in SUBSET Nat BY <1>1
<1>5. /\ n \in Nat
      /\ \A i \in rest : Rank(rest, i) \in Q /\ Nth(rest, Rank(rest, i)) = i
      /\ \A k \in Q : Nth(rest, k) \in rest /\ Rank(rest, Nth(rest, k)) = k
  BY <1>2, <1>4, NthIsRanked, Zenon
<1>6. DOMAIN left = Q /\ \A k \in Q : left[k] = bets[Nth(rest, k)] BY DEF Retained
<1> HIDE DEF n, Q
<1>7. DOMAIN after = Q /\ \A k \in Q : after[k] = Moved(bets[Nth(rest, k)], total) BY <1>6
<1>8. \A k \in Q : /\ after[k] \in CrapsRecords
                   /\ CrapsStake(after[k]) = CrapsStake(bets[Nth(rest, k)])
  <2> SUFFICES ASSUME NEW k \in Q
               PROVE  after[k] \in CrapsRecords /\ CrapsStake(after[k]) = CrapsStake(bets[Nth(rest, k)])
    OBVIOUS
  <2>1. bets[Nth(rest, k)] \in CrapsRecords BY <1>1, <1>5
  <2> QED BY <1>7, <2>1, MovedKeeps
<1>9. after \in [1 .. n -> CrapsRecords] BY <1>7, <1>8 DEF Q
<1>10. after \in Seq(CrapsRecords) BY <1>5, <1>9, SeqDef
<1>11. Len(after) = n
  <2>1. Len(after) \in Nat /\ DOMAIN after = 1 .. Len(after) BY <1>10, LenProperties, Zenon
  <2> QED BY <1>5, <1>7, <2>1 DEF Q
<1>12. IsFiniteSet(Q)
  <2>1. 1 \in Int /\ n \in Int BY <1>5
  <2> QED BY <2>1, FS_Interval, Zenon DEF Q
<1>13. f \in [rest -> Nat] BY <1>1
<1>14. g \in [Q -> Nat] BY <1>7, <1>8, <1>1, <1>5
<1>15. \A i \in rest : r[i] \in Q /\ f[i] = g[r[i]] /\ s[r[i]] = i
  <2> SUFFICES ASSUME NEW i \in rest PROVE r[i] \in Q /\ f[i] = g[r[i]] /\ s[r[i]] = i OBVIOUS
  <2>1. r[i] = Rank(rest, i) /\ r[i] \in Q /\ Nth(rest, r[i]) = i BY <1>5
  <2>2. g[r[i]] = CrapsStake(after[r[i]]) BY <1>7, <2>1
  <2>3. CrapsStake(after[r[i]]) = CrapsStake(bets[i]) BY <1>8, <2>1
  <2> QED BY <2>1, <2>2, <2>3
<1>16. \A k \in Q : s[k] \in rest /\ g[k] = f[s[k]] /\ r[s[k]] = k
  <2> SUFFICES ASSUME NEW k \in Q PROVE s[k] \in rest /\ g[k] = f[s[k]] /\ r[s[k]] = k OBVIOUS
  <2>1. s[k] = Nth(rest, k) /\ s[k] \in rest /\ Rank(rest, s[k]) = k BY <1>5
  <2>2. g[k] = CrapsStake(after[k]) BY <1>7
  <2>3. CrapsStake(after[k]) = CrapsStake(bets[s[k]]) BY <1>8, <2>1
  <2> QED BY <2>1, <2>2, <2>3
<1>17. CrapsWagered(after) = Total(g) BY DEF CrapsWagered
<1> HIDE DEF f, g, r, s
<1>18. Total(f) = Total(g)
  <2>1. \A i \in rest : f[i] > 0 => r[i] \in Q /\ f[i] = g[r[i]] /\ s[r[i]] = i BY <1>15, Zenon
  <2>2. \A k \in Q : g[k] > 0 => s[k] \in rest /\ g[k] = f[s[k]] /\ r[s[k]] = k BY <1>16, Zenon
  <2>3. IsFiniteSet(rest) BY <1>2
  <2>4. Reindexes(rest, Q, f, g, r, s) BY <2>1, <2>2, Zenon DEF Reindexes
  <2> QED BY <1>12, <1>13, <1>14, <2>3, <2>4, TotalReindexed, Zenon
<1>19. \A k \in DOMAIN after : \E i \in rest : after[k] = Moved(bets[i], total)
  BY <1>5, <1>7, Zenon
<1>20. Len(after) <= Len(bets) BY <1>2, <1>3, <1>11, Zenon DEF n
<1> QED BY <1>10, <1>17, <1>18, <1>19, <1>20, Zenon DEF f, IsRetained

\* A line bet does not outlive the point.
LEMMA LineIsDecided ==
    ASSUME NEW b \in CrapsRecords, b.type \in Line, state.phase = "Point", state.point \in Points,
           NEW d1 \in 1 .. 6, NEW d2 \in 1 .. 6, d1 + d2 = state.point \/ d1 + d2 = 7
    PROVE  Verdict(b, d1, d2).settled
<1>1. Verdict(b, d1, d2) = ContractVerdict(b, d1 + d2)
  BY DEF Verdict, Contract, Line, Hardways, Ats
<1>2. ContractVerdict(b, d1 + d2).settled
  <2>1. state.point # 7 BY DEF Points
  <2> QED BY <2>1 DEF ContractVerdict, Returns, Loses
<1> QED BY <1>1, <1>2

PhaseAfter(total) ==
    IF state.phase = "ComeOut" /\ total \in Points THEN "Point"
    ELSE IF (state.phase = "Point" /\ total = state.point) \/ SevenOut(total) THEN "ComeOut"
    ELSE state.phase
PointAfter(total) ==
    IF state.phase = "ComeOut" /\ total \in Points THEN total
    ELSE IF (state.phase = "Point" /\ total = state.point) \/ SevenOut(total) THEN 0
    ELSE state.point

\* There is a point exactly in the point phase.
LEMMA PhaseMoves ==
    ASSUME CrapsInv, NEW total
    PROVE  \/ PhaseAfter(total) = "ComeOut" /\ PointAfter(total) = 0
           \/ PhaseAfter(total) = "Point" /\ PointAfter(total) \in Points
BY DEF CrapsInv, PhaseAfter, PointAfter

\* A bet that stays follows the point that the roll sets, makes or clears.
LEMMA MovedFollows ==
    ASSUME CrapsInv, NEW b \in CrapsRecords, FollowsThePoint(b, state.phase, state.point),
           NEW d1 \in 1 .. 6, NEW d2 \in 1 .. 6, ~Verdict(b, d1, d2).settled
    PROVE  FollowsThePoint(Moved(b, d1 + d2), PhaseAfter(d1 + d2), PointAfter(d1 + d2))
<1> DEFINE total == d1 + d2
           c == Moved(b, total)
<1>1. total \in Nat OBVIOUS
<1>2. c \in CrapsRecords /\ c.type = b.type /\ c.odds = b.odds BY <1>1, MovedKeeps
<1>3. b.odds \in Nat /\ b.target \in Nat /\ b.status \in {"On", "Pending"} BY DEF CrapsRecords
<1> HIDE DEF total
<1>4. CASE b.type \in Ats
  <2>1. c = [b EXCEPT !.seen = IF total = 7 THEN @ ELSE @ \cup {total}]
    BY <1>4 DEF Moved, FollowsThePoint, Ats, Line
  <2>2. c.target = b.target /\ c.status = b.status BY <2>1 DEF CrapsRecords
  <2>3. b.type \notin Line BY <1>4 DEF Ats, Line
  <2> HIDE DEF c
  <2>4. FollowsThePoint(c, PhaseAfter(total), PointAfter(total))
    BY <1>2, <2>2, <2>3 DEF FollowsThePoint
  <2> QED BY <2>4, Zenon DEF c, total
<1>5. CASE b.status = "Pending"
  <2>1. b.type \in {"Come", "DontCome"} /\ b.odds = 0 BY <1>5 DEF FollowsThePoint
  <2>2. c = [b EXCEPT !.target = total, !.status = "On"]
    BY <1>5, <2>1 DEF Moved, Ats, Line
  <2>3. c.status = "On" BY <2>2 DEF CrapsRecords
  <2>4. b.type \notin Line BY <2>1 DEF Line
  <2> HIDE DEF c
  <2>5. FollowsThePoint(c, PhaseAfter(total), PointAfter(total))
    BY <1>2, <2>1, <2>3, <2>4 DEF FollowsThePoint
  <2> QED BY <2>5, Zenon DEF c, total
<1>6. CASE b.type \notin Ats /\ b.status # "Pending" /\ b.type \in Line
  <2>1. CASE state.phase = "ComeOut" /\ total \in Points
    <3>1. c = [b EXCEPT !.target = total] BY <1>6, <2>1 DEF Moved
    <3>2. c.target = total /\ c.status = b.status BY <3>1 DEF CrapsRecords
    <3>3. PhaseAfter(total) = "Point" /\ PointAfter(total) = total BY <2>1 DEF PhaseAfter, PointAfter
    <3> HIDE DEF c
    <3>4. FollowsThePoint(c, PhaseAfter(total), PointAfter(total))
      BY <1>2, <1>3, <1>6, <2>1, <3>2, <3>3 DEF FollowsThePoint
    <3> QED BY <3>4, Zenon DEF c, total
  <2>2. CASE ~(state.phase = "ComeOut" /\ total \in Points)
    <3>1. c = b BY <1>6, <2>2 DEF Moved
    <3>2. CASE state.phase = "Point" /\ (total = state.point \/ total = 7)
      <4>1. state.point \in Points BY <3>2 DEF CrapsInv
      <4> QED BY <1>6, <3>2, <4>1, LineIsDecided DEF total
    <3>3. CASE ~(state.phase = "Point" /\ (total = state.point \/ total = 7))
      <4>1. PhaseAfter(total) = state.phase /\ PointAfter(total) = state.point
        BY <2>2, <3>3 DEF PhaseAfter, PointAfter, SevenOut
      <4> HIDE DEF c
      <4> QED BY <3>1, <4>1 DEF c, total
    <3> QED BY <3>2, <3>3
  <2> QED BY <2>1, <2>2
<1>7. CASE b.type \notin Ats /\ b.status # "Pending" /\ b.type \notin Line
  <2>1. c = b BY <1>7 DEF Moved
  <2> HIDE DEF c
  <2> QED BY <1>7, <2>1 DEF FollowsThePoint, c, total
<1> QED BY <1>4, <1>5, <1>6, <1>7

\* A session starts without bets of its own.
LEMMA CrapsInitInv == CrapsInit => CrapsInv /\ game = "Craps"
<1> SUFFICES ASSUME CrapsInit PROVE CrapsInv /\ game = "Craps" OBVIOUS
<1>1. PICK b \in OpeningBets :
        Begins("Craps", b, b, [phase |-> "ComeOut", point |-> 0, last |-> "none", made |-> {},
                               established |-> FALSE, bets |-> <<>>])
  BY DEF CrapsInit, StartsEmpty
<1>2. b \in Nat BY TableAssumption
<1>3. <<>> \in Seq(CrapsRecords) /\ Len(<<>>) = 0 /\ DOMAIN <<>> = {} OBVIOUS
<1>4. CrapsWagered(<<>>) = 0
  <2> DEFINE f == [i \in DOMAIN <<>> |-> CrapsStake(<<>>[i])]
  <2>1. DOMAIN f = {} OBVIOUS
  <2> HIDE DEF f
  <2>2. Total(f) = 0 BY <2>1, TotalOfNobody, Zenon
  <2> QED BY <2>2 DEF f, CrapsWagered
<1>5. /\ game = "Craps" /\ charged = b /\ settled = b /\ result = Open
      /\ state = [phase |-> "ComeOut", point |-> 0, last |-> "none", made |-> {},
                  established |-> FALSE, bets |-> <<>>]
  BY <1>1 DEF Begins
<1> QED BY <1>2, <1>3, <1>4, <1>5, TableAssumption DEF CrapsInv, Books, Open

\* A bet that is placed is charged.
LEMMA CrapsPlaceInv ==
    ASSUME CrapsInv, NEW type \in CrapsTypes, NEW target \in CrapsTargets \cup {0}, NEW n \in Payloads,
           CrapsPlace(type, target, n)
    PROVE  CrapsInv' /\ game' = "Craps"
<1> DEFINE b == CrapsBet(type, target, n)
           bets == state.bets
           after == Append(bets, b)
           f == [i \in DOMAIN bets |-> CrapsStake(bets[i])]
           g == [i \in DOMAIN after |-> CrapsStake(after[i])]
<1>1. n \in Nat /\ target \in Nat BY TableAssumption, CrapsAssumption
<1>2. /\ game = "Craps" /\ result = Open /\ Len(bets) < MaxBets
      /\ state' = [state EXCEPT !.bets = after]
      /\ charged' = charged + CrapsStake(b) /\ UNCHANGED <<session, settled, result>>
      /\ type \in Line => target = 0
  BY DEF CrapsPlace, IsOpen, Bets, Wagers, Line, Targeted
<1>3. b \in CrapsRecords BY <1>1 DEF CrapsBet, CrapsRecords
<1>4. FollowsThePoint(b, state.phase, state.point)
  BY <1>2 DEF FollowsThePoint, CrapsBet
<1> HIDE DEF b
<1>5. bets \in Seq(CrapsRecords) /\ Len(bets) \in Nat /\ DOMAIN bets = 1 .. Len(bets)
  BY LenProperties DEF CrapsInv
<1>6. /\ after \in Seq(CrapsRecords) /\ Len(after) = Len(bets) + 1
      /\ \A i \in 1 .. Len(bets) : after[i] = bets[i]
      /\ after[Len(bets) + 1] = b
  BY <1>3, <1>5, AppendProperties
<1>7. DOMAIN after = 1 .. Len(bets) + 1 BY <1>6, LenProperties
<1> HIDE DEF after
<1>8. \A i \in DOMAIN after : FollowsThePoint(after[i], state.phase, state.point)
  <2> SUFFICES ASSUME NEW i \in DOMAIN after PROVE FollowsThePoint(after[i], state.phase, state.point)
    OBVIOUS
  <2>1. CASE i \in 1 .. Len(bets) BY <1>5, <1>6, <2>1 DEF CrapsInv
  <2>2. CASE i = Len(bets) + 1 BY <1>4, <1>6, <2>2
  <2> QED BY <1>5, <1>7, <2>1, <2>2
<1>9. Total(g) = Total(f) + CrapsStake(b)
  <2> DEFINE x == Len(bets) + 1
  <2>1. IsFiniteSet(DOMAIN bets) /\ f \in [DOMAIN bets -> Nat] BY <1>5, CrapsStakes
  <2>2. CrapsStake(b) \in Nat BY <1>3, CrapsStakeType
  <2>3. g \in [DOMAIN after -> Nat] BY <1>6, CrapsStakes
  <2>4. DOMAIN after = DOMAIN bets \cup {x} /\ x \notin DOMAIN bets BY <1>5, <1>7
  <2>5. \A i \in DOMAIN bets : i # x => g[i] = f[i] BY <1>5, <1>6, <1>7
  <2>6. g[x] = CrapsStake(b) BY <1>6, <2>4
  <2>7. g \in [DOMAIN bets \cup {x} -> Nat] BY <2>3, <2>4
  <2> HIDE DEF f, g, x, bets
  <2>8. g[x] = (IF x \in DOMAIN bets THEN f[x] ELSE 0) + CrapsStake(b) BY <2>2, <2>4, <2>6
  <2> QED BY <2>1, <2>2, <2>5, <2>7, <2>8, TotalPut
<1>10. CrapsWagered(after) = CrapsWagered(bets) + CrapsStake(b) BY <1>9 DEF CrapsWagered
<1>11. CrapsStake(b) \in Nat /\ CrapsWagered(bets) \in Nat BY <1>3, <1>5, CrapsStakeType, CrapsStakes
<1>12. /\ state'.phase = state.phase /\ state'.point = state.point /\ state'.bets = after
       /\ state' = [phase |-> state'.phase, point |-> state'.point, last |-> state'.last,
                    made |-> state'.made, established |-> state'.established, bets |-> state'.bets]
  BY <1>2 DEF CrapsInv
<1>13. charged' \in Int /\ CrapsWagered(after) = charged' - settled'
  BY <1>2, <1>10, <1>11 DEF CrapsInv, Books
<1>14. Len(after) <= MaxBets BY <1>2, <1>5, <1>6, TableAssumption
<1> HIDE DEF f, g, bets
<1> QED BY <1>2, <1>6, <1>8, <1>12, <1>13, <1>14 DEF CrapsInv, Books, session, Open

\* Odds are behind a bet that has its point, and are charged.
LEMMA CrapsOddsInv ==
    ASSUME CrapsInv, NEW n \in Payloads, CrapsOdds(n)
    PROVE  CrapsInv' /\ game' = "Craps"
<1> DEFINE bets == state.bets
           on == {i \in DOMAIN bets : bets[i].type \in Contract /\ bets[i].status = "On"}
           m == Max(on)
           b == [bets[m] EXCEPT !.odds = @ + n]
           after == [bets EXCEPT ![m] = b]
           f == [i \in DOMAIN bets |-> CrapsStake(bets[i])]
           g == [i \in DOMAIN after |-> CrapsStake(after[i])]
<1>1. n \in Nat BY TableAssumption
<1>2. /\ game = "Craps" /\ result = Open /\ on # {} /\ bets[m].target \in Points
      /\ state' = [state EXCEPT !.bets[m].odds = @ + n]
      /\ UNCHANGED <<session, settled>> /\ charged' \in Int
      /\ result'.kind \in {"Open", "Credited"}
      /\ \A before, later \in Int :
           Books(before) /\ later = before + n =>
             /\ result' = Open => later = charged' - settled'
             /\ result'.kind = "Credited" => later = charged' - settled' + 2 * I64Range
  <2>1. /\ game = "Craps" /\ result = Open /\ on # {} /\ bets[m].target \in Points
        /\ BetsUnchecked([state EXCEPT !.bets[m].odds = @ + n], n)
    BY Zenon DEF CrapsOdds, IsOpen
  <2>2. charged \in Int /\ settled \in Int BY DEF CrapsInv
  <2> QED BY <2>1, <2>2, BetIsCharged
<1>3. /\ bets \in Seq(CrapsRecords) /\ Len(bets) \in Nat /\ DOMAIN bets = 1 .. Len(bets)
      /\ \A i \in DOMAIN bets : bets[i] \in CrapsRecords
      /\ f \in [DOMAIN bets -> Nat] /\ IsFiniteSet(DOMAIN bets) /\ Total(f) \in Nat
  BY CrapsStakes DEF CrapsInv, CrapsWagered
<1>4. m \in on
  <2>1. on \subseteq Nat /\ \A i \in on : i <= Len(bets) BY <1>3
  <2> HIDE DEF on
  <2>2. Greatest(on) \in on /\ \A i \in on : i <= Greatest(on) BY <1>2, <1>3, <2>1, GreatestIsGreatest
  <2>3. \A i \in on : Greatest(on) >= i BY <2>1, <2>2
  <2>4. \E i \in on : \A j \in on : i >= j BY <2>2, <2>3, Zenon
  <2> QED BY <2>4, Zenon DEF Max
<1>5. m \in DOMAIN bets /\ bets[m].status = "On" BY <1>4
<1> HIDE DEF m, on
<1>6. bets[m] \in CrapsRecords /\ FollowsThePoint(bets[m], state.phase, state.point)
  BY <1>3, <1>5 DEF CrapsInv
<1>7. /\ b \in CrapsRecords /\ b.type = bets[m].type /\ b.target = bets[m].target
      /\ b.status = bets[m].status /\ b.amount = bets[m].amount /\ b.odds = bets[m].odds + n
      /\ bets[m].amount \in Nat /\ bets[m].odds \in Nat
  BY <1>1, <1>6 DEF CrapsRecords
<1>8. FollowsThePoint(b, state.phase, state.point)
  <2> HIDE DEF b
  <2> QED BY <1>2, <1>5, <1>6, <1>7 DEF FollowsThePoint
<1>9. CrapsStake(b) = CrapsStake(bets[m]) + n /\ CrapsStake(bets[m]) \in Nat
  <2>1. CrapsStake(bets[m]) \in Nat BY <1>6, CrapsStakeType
  <2>2. BuyCommission(bets[m].amount) \in Nat
    <3>1. bets[m].amount * 500 + 9999 \in Nat BY <1>7
    <3> QED BY <3>1, DivBounds DEF BuyCommission
  <2> HIDE DEF b, BuyCommission
  <2> QED BY <1>1, <1>7, <2>1, <2>2 DEF CrapsStake
<1> HIDE DEF b
<1>10. /\ DOMAIN after = DOMAIN bets /\ after[m] = b
       /\ \A i \in DOMAIN bets : i # m => after[i] = bets[i]
       /\ after \in Seq(CrapsRecords) /\ Len(after) = Len(bets)
  BY <1>3, <1>5, <1>7, ExceptSeq
<1>11. \A i \in DOMAIN after : FollowsThePoint(after[i], state.phase, state.point)
  <2> HIDE DEF after
  <2> QED BY <1>8, <1>10 DEF CrapsInv
<1>12. state' = [state EXCEPT !.bets = after] BY <1>2 DEF b
<1> HIDE DEF after
<1>13. g = Add(f, m, n)
  <2>1. DOMAIN g = DOMAIN bets /\ \A i \in DOMAIN bets : g[i] = CrapsStake(after[i]) BY <1>10
  <2>2. \A i \in DOMAIN bets : g[i] = IF i = m THEN f[m] + n ELSE f[i] BY <1>5, <1>9, <1>10, <2>1
  <2>3. g = [i \in DOMAIN bets |-> g[i]] BY <2>1
  <2>4. Add(f, m, n) = [i \in DOMAIN bets |-> IF i = m THEN f[m] + n ELSE f[i]] BY <1>5 DEF Add
  <2> HIDE DEF f, g
  <2> QED BY <2>2, <2>3, <2>4
<1>14. CrapsWagered(after) = Total(g) /\ CrapsWagered(bets) = Total(f) BY DEF CrapsWagered
<1> HIDE DEF f, g
<1>15. Total(Add(f, m, n)) = Total(f) + n BY <1>1, <1>3, <1>5, TotalAdd, Zenon
<1>16. CrapsWagered(after) = CrapsWagered(bets) + n BY <1>13, <1>14, <1>15
<1>17. /\ state'.phase = state.phase /\ state'.point = state.point /\ state'.bets = after
       /\ state' = [phase |-> state'.phase, point |-> state'.point, last |-> state'.last,
                    made |-> state'.made, established |-> state'.established, bets |-> state'.bets]
  BY <1>12 DEF CrapsInv
<1>18. /\ result' = Open => CrapsWagered(after) = charged' - settled'
       /\ result'.kind = "Credited" => CrapsWagered(after) = charged' - settled' + 2 * I64Range
  <2>1. Books(CrapsWagered(bets)) BY DEF CrapsInv
  <2>2. CrapsWagered(bets) \in Int /\ CrapsWagered(after) \in Int BY <1>1, <1>3, <1>14, <1>16
  <2> QED BY <1>2, <1>16, <2>1, <2>2
<1>19. Len(after) <= MaxBets BY <1>10 DEF CrapsInv
<1> HIDE DEF bets
<1> QED BY <1>2, <1>10, <1>11, <1>17, <1>18, <1>19 DEF CrapsInv, Books, session

\* A roll settles the stakes of the bets it takes off the table.
LEMMA CrapsRollInv ==
    ASSUME CrapsInv, NEW d1 \in 1 .. 6, NEW d2 \in 1 .. 6, CrapsRoll(d1, d2)
    PROVE  CrapsInv' /\ game' = "Craps"
<1> DEFINE total == d1 + d2
           bets == state.bets
           all == [i \in DOMAIN bets |-> CrapsStake(bets[i])]
           gone == {i \in DOMAIN bets : Verdict(bets[i], d1, d2).settled}
           rest == DOMAIN bets \ gone
           left == Retained(bets, rest)
           after == [k \in DOMAIN left |-> Moved(left[k], total)]
           stakes == [i \in gone |-> CrapsStake(bets[i])]
<1>1. total \in Nat OBVIOUS
<1>2. /\ bets \in Seq(CrapsRecords) /\ Len(bets) \in Nat /\ DOMAIN bets = 1 .. Len(bets)
      /\ \A i \in DOMAIN bets : bets[i] \in CrapsRecords /\ CrapsStake(bets[i]) \in Nat
      /\ all \in [DOMAIN bets -> Nat] /\ IsFiniteSet(DOMAIN bets) /\ CrapsWagered(bets) \in Nat
  BY CrapsStakes DEF CrapsInv
<1>3. PICK lost \in [gone -> Nat] :
        /\ game = "Craps" /\ result = Open /\ \A i \in gone : lost[i] <= stakes[i]
        /\ state'.phase = PhaseAfter(total) /\ state'.point = PointAfter(total)
        /\ state'.bets = after
        /\ state' = [phase |-> state'.phase, point |-> state'.point, last |-> state'.last,
                     made |-> state'.made, established |-> state'.established, bets |-> state'.bets]
        /\ \/ settled' = settled + Total(stakes) /\ UNCHANGED <<session, charged, result>>
           \/ /\ UNCHANGED <<session, charged, settled>>
              /\ \/ \E n : result' = [kind |-> "Win", amount |-> n]
                 \/ result' = [kind |-> "LossPreDeducted", amount |-> Total(lost)]
  <2> DEFINE verdict == [i \in DOMAIN bets |-> Verdict(bets[i], d1, d2)]
             lost == [i \in gone |-> IF verdict[i].returns = 0 THEN stakes[i] ELSE 0]
             made == state.phase = "Point" /\ total = state.point
             set == state.phase = "ComeOut" /\ total \in Points
             kept == IF total = 7 THEN "seven" ELSE "other"
             points == IF made THEN state.made \cup {total} ELSE state.made
             ever == set \/ (state.established /\ ~SevenOut(total))
             returned == Sum([i \in gone |-> verdict[i].returns])
             s == [phase |-> PhaseAfter(total), point |-> PointAfter(total), last |-> kept,
                   made |-> points, established |-> ever, bets |-> after]
  <2>1. lost \in [gone -> Nat] /\ \A i \in gone : lost[i] <= stakes[i] BY <1>2
  <2>2. gone = {i \in DOMAIN bets : verdict[i].settled} OBVIOUS
  <2>3. /\ IsOpen("Craps")
        /\ \/ Pays(s, Total(stakes), returned)
           \/ Ends(s, "Win", BoostedBy("Total", total, returned))
           \/ Ends(s, "LossPreDeducted", Total(lost))
    BY <2>2, Zenon DEF CrapsRoll, PhaseAfter, PointAfter
  <2> HIDE DEF lost, kept, points, ever, returned, stakes, gone, after, total
  <2>4. /\ game = "Craps" /\ result = Open /\ state' = s
        /\ \/ settled' = settled + Total(stakes) /\ UNCHANGED <<session, charged, result>>
           \/ /\ UNCHANGED <<session, charged, settled>>
              /\ \/ \E n : result' = [kind |-> "Win", amount |-> n]
                 \/ result' = [kind |-> "LossPreDeducted", amount |-> Total(lost)]
    BY <2>3, Zenon DEF Pays, Ends, IsOpen
  <2>5. /\ state'.phase = PhaseAfter(total) /\ state'.point = PointAfter(total)
        /\ state'.bets = after
        /\ state' = [phase |-> state'.phase, point |-> state'.point, last |-> state'.last,
                     made |-> state'.made, established |-> state'.established, bets |-> state'.bets]
    BY <2>4
  <2> HIDE DEF s
  <2> QED BY <2>1, <2>4, <2>5, Zenon
<1>4. rest \in SUBSET DOMAIN bets /\ gone \in SUBSET DOMAIN bets OBVIOUS
<1>5. /\ after \in Seq(CrapsRecords) /\ Len(after) <= Len(bets)
      /\ \A k \in DOMAIN after : \E i \in rest : after[k] = Moved(bets[i], total)
      /\ CrapsWagered(after) = Total([i \in rest |-> CrapsStake(bets[i])])
  <2> HIDE DEF bets, rest, left, after, total
  <2>1. left = Retained(bets, rest) /\ after = [k \in DOMAIN left |-> Moved(left[k], total)]
    BY DEF left, after
  <2>2. IsRetained(bets, rest, total, after) BY <1>1, <1>2, <1>4, <2>1, RetainedStakes, Zenon
  <2> QED BY <2>2, Zenon DEF IsRetained
<1>6. CrapsWagered(bets) = Total(stakes) + CrapsWagered(after)
  <2>1. Total(all) = Total([i \in gone |-> all[i]]) + Total([i \in rest |-> all[i]])
    <3> HIDE DEF all, gone, bets
    <3>1. PICK P : P = DOMAIN bets OBVIOUS
    <3>2. IsFiniteSet(P) /\ all \in [P -> Nat] /\ gone \in SUBSET P /\ rest = P \ gone BY <1>2, <1>4, <3>1
    <3>3. Total(all) = Total([i \in gone |-> all[i]]) + Total([i \in P \ gone |-> all[i]])
      BY <3>2, TotalSplit
    <3> HIDE DEF rest
    <3> QED BY <3>2, <3>3, Zenon
  <2>2. [i \in gone |-> all[i]] = stakes /\ [i \in rest |-> all[i]] = [i \in rest |-> CrapsStake(bets[i])]
    OBVIOUS
  <2>3. CrapsWagered(bets) = Total(all) BY DEF CrapsWagered
  <2> HIDE DEF all, gone, bets, rest, stakes
  <2> QED BY <1>5, <2>1, <2>2, <2>3
<1>7. Total(stakes) \in Nat /\ Total(lost) \in Nat /\ Total(lost) <= Total(stakes)
  <2>1. IsFiniteSet(gone)
    <3> HIDE DEF gone, bets
    <3> QED BY <1>2, <1>4, FS_Subset, Zenon
  <2>2. stakes \in [gone -> Nat] BY <1>2
  <2> HIDE DEF gone, stakes
  <2>3. Total(stakes) \in Nat /\ Total(lost) \in Nat BY <2>1, <2>2, TotalType, Zenon
  <2>4. Total(lost) <= Total(stakes) BY <1>3, <2>1, <2>2, TotalMonotone, Zenon
  <2> QED BY <2>3, <2>4
<1>8. \A k \in DOMAIN after : FollowsThePoint(after[k], PhaseAfter(total), PointAfter(total))
  <2> SUFFICES ASSUME NEW k \in DOMAIN after
               PROVE  FollowsThePoint(after[k], PhaseAfter(total), PointAfter(total))
    OBVIOUS
  <2>1. PICK i \in rest : after[k] = Moved(bets[i], total) BY <1>5
  <2>2. bets[i] \in CrapsRecords /\ ~Verdict(bets[i], d1, d2).settled BY <1>2
  <2>3. FollowsThePoint(bets[i], state.phase, state.point) BY DEF CrapsInv
  <2>4. PICK b : b = bets[i] OBVIOUS
  <2>5. FollowsThePoint(Moved(b, d1 + d2), PhaseAfter(d1 + d2), PointAfter(d1 + d2))
    BY <2>2, <2>3, <2>4, MovedFollows, Zenon
  <2> QED BY <2>1, <2>4, <2>5, Zenon
<1>9. \/ PhaseAfter(total) = "ComeOut" /\ PointAfter(total) = 0
      \/ PhaseAfter(total) = "Point" /\ PointAfter(total) \in Points
  BY PhaseMoves
<1>10. Len(after) <= MaxBets
  <2>1. Len(after) \in Nat BY <1>5, LenProperties, Zenon
  <2>2. Len(bets) <= MaxBets BY DEF CrapsInv
  <2> HIDE DEF after, bets
  <2> QED BY <1>2, <1>5, <2>1, <2>2, TableAssumption
<1>11. CrapsWagered(after) \in Nat BY <1>5, CrapsStakes, Zenon
<1>12. CrapsWagered(bets) = charged - settled /\ charged \in Int /\ settled \in Int
  BY <1>3 DEF CrapsInv, Books
<1> HIDE DEF after, stakes, bets, gone, rest, left, all, total
<1>13. charged' \in Int /\ settled' \in Int BY <1>3, <1>7, <1>12
<1>14. result' = Open => CrapsWagered(after) = charged' - settled'
  <2>1. CASE settled' = settled + Total(stakes) /\ UNCHANGED charged
    BY <1>6, <1>7, <1>11, <1>12, <2>1
  <2>2. CASE result' # Open BY <2>2
  <2>3. (\E n : result' = [kind |-> "Win", amount |-> n]) => result' # Open BY DEF Open
  <2>4. result' = [kind |-> "LossPreDeducted", amount |-> Total(lost)] => result' # Open BY DEF Open
  <2> QED BY <1>3, <2>1, <2>2, <2>3, <2>4, Zenon
<1>15. result'.kind = "LossPreDeducted" => result'.amount <= charged' - settled'
  <2>1. CASE UNCHANGED result BY <1>3, <2>1 DEF Open
  <2>2. CASE result' = [kind |-> "LossPreDeducted", amount |-> Total(lost)] /\ UNCHANGED <<charged, settled>>
    <3>1. result'.amount = Total(lost) /\ charged' - settled' = charged - settled BY <2>2
    <3> QED BY <1>6, <1>7, <1>11, <1>12, <3>1
  <2>3. CASE \E n : result' = [kind |-> "Win", amount |-> n] BY <2>3
  <2> QED BY <1>3, <2>1, <2>2, <2>3, Zenon
<1>16. result'.kind # "Credited" BY <1>3 DEF Open
<1>17. game' = "Craps" BY <1>3 DEF session
<1> QED BY <1>3, <1>5, <1>8, <1>9, <1>10, <1>13, <1>14, <1>15, <1>16, <1>17 DEF CrapsInv, Books

\* Cleared bets are not at stake any more.
LEMMA CrapsClearInv ==
    ASSUME CrapsInv, CrapsClear
    PROVE  CrapsInv' /\ game' = "Craps"
<1>1. /\ game = "Craps" /\ result = Open /\ state' = [state EXCEPT !.bets = <<>>]
      /\ settled' = settled + CrapsWagered(state.bets) /\ UNCHANGED <<session, charged, result>>
  BY DEF CrapsClear, IsOpen, Pays
<1>2. CrapsWagered(state.bets) \in Nat BY CrapsStakes DEF CrapsInv
<1>3. CrapsWagered(<<>>) = 0
  <2> DEFINE f == [i \in DOMAIN <<>> |-> CrapsStake(<<>>[i])]
  <2>1. DOMAIN f = {} OBVIOUS
  <2> HIDE DEF f
  <2>2. Total(f) = 0 BY <2>1, TotalOfNobody, Zenon
  <2> QED BY <2>2 DEF f, CrapsWagered
<1>4. <<>> \in Seq(CrapsRecords) /\ Len(<<>>) = 0 /\ DOMAIN <<>> = {} OBVIOUS
<1>5. /\ state'.phase = state.phase /\ state'.point = state.point /\ state'.bets = <<>>
      /\ state' = [phase |-> state'.phase, point |-> state'.point, last |-> state'.last,
                   made |-> state'.made, established |-> state'.established, bets |-> state'.bets]
  BY <1>1 DEF CrapsInv
<1>6. CrapsWagered(state.bets) = charged - settled /\ charged \in Int /\ settled \in Int
  BY <1>1 DEF CrapsInv, Books
<1>7. charged' \in Int /\ settled' \in Int /\ charged' - settled' = 0 BY <1>1, <1>2, <1>6
<1> QED BY <1>1, <1>3, <1>4, <1>5, <1>7, TableAssumption DEF CrapsInv, Books, session, Open

\* Every move of Craps keeps the books.
LEMMA CrapsNextInv == CrapsInv /\ CrapsNext => CrapsInv' /\ game' = "Craps"
<1> SUFFICES ASSUME CrapsInv, CrapsNext PROVE CrapsInv' /\ game' = "Craps" OBVIOUS
<1>1. CASE \E type \in CrapsTypes, target \in CrapsTargets \cup {0}, n \in Payloads :
             CrapsPlace(type, target, n)
  BY <1>1, CrapsPlaceInv, Zenon
<1>2. CASE \E n \in Payloads : CrapsOdds(n) BY <1>2, CrapsOddsInv, Zenon
<1>3. CASE \E d1, d2 \in RollDie : 10 * d1 + d2 \in CrapsRolls /\ CrapsRoll(d1, d2)
  BY <1>3, RollDieType, CrapsRollInv, Zenon
<1>4. CASE CrapsClear BY <1>4, CrapsClearInv
<1> QED BY <1>1, <1>2, <1>3, <1>4, Zenon DEF CrapsNext

----------------------------------------------------------------------------
(* All games together: a move belongs to the game of the session. *)

GamesInv ==
    \/ game = "HiLo" /\ HiLoInv
    \/ game = "VideoPoker" /\ PokerInv
    \/ game = "CasinoWar" /\ WarInv
    \/ game = "Baccarat" /\ BaccaratInv
    \/ game = "Roulette" /\ RouletteInv
    \/ game = "SicBo" /\ SicBoInv
    \/ game = "Craps" /\ CrapsInv
    \/ game = "Blackjack" /\ BlackjackInv
    \/ game = "ThreeCard" /\ ThreeCardInv
    \/ game = "UltimateHoldem" /\ HoldemInv

\* The game of the session tells which invariant holds.
LEMMA InvOfTheGame ==
    ASSUME GamesInv
    PROVE  /\ game = "HiLo" => HiLoInv
           /\ game = "VideoPoker" => PokerInv
           /\ game = "CasinoWar" => WarInv
           /\ game = "Baccarat" => BaccaratInv
           /\ game = "Roulette" => RouletteInv
           /\ game = "SicBo" => SicBoInv
           /\ game = "Craps" => CrapsInv
           /\ game = "Blackjack" => BlackjackInv
           /\ game = "ThreeCard" => ThreeCardInv
           /\ game = "UltimateHoldem" => HoldemInv
BY DEF GamesInv

\* ... and which moves are possible.
LEMMA MoveOfTheGame ==
    /\ HiLoNext => game = "HiLo"
    /\ PokerNext => game = "VideoPoker"
    /\ WarNext => game = "CasinoWar"
    /\ BaccaratNext => game = "Baccarat"
    /\ RouletteNext => game = "Roulette"
    /\ SicBoNext => game = "SicBo"
    /\ CrapsNext => game = "Craps"
    /\ BlackjackNext => game = "Blackjack"
    /\ ThreeCardNext => game = "ThreeCard"
    /\ HoldemNext => game = "UltimateHoldem"
<1>1. HiLoNext => game = "HiLo" BY Zenon DEF HiLoNext, HiLoCashout, HiLoGuess, IsOpen
<1>2. PokerNext => game = "VideoPoker" BY Zenon DEF PokerNext
<1>3. WarNext => game = "CasinoWar"
  BY Zenon DEF WarNext, WarSetTieBet, WarPlay, WarSurrender, WarGoToWar, IsOpen
<1>4. BaccaratNext => game = "Baccarat"
  BY Zenon DEF BaccaratNext, BaccaratPlace, BaccaratClear, BaccaratDeal, IsOpen
<1>5. RouletteNext => game = "Roulette"
  BY Zenon DEF RouletteNext, RoulettePlace, RouletteClear, RouletteRule, RouletteSpin, RouletteSpinAgain,
               RouletteBetting, IsOpen
<1>6. SicBoNext => game = "SicBo"
  BY Zenon DEF SicBoNext, SicBoPlace, SicBoClear, SicBoRoll, SicBoOpen, IsOpen
<1>7. CrapsNext => game = "Craps"
  <2>1. \A type, target, n : CrapsPlace(type, target, n) => game = "Craps" BY Zenon DEF CrapsPlace, IsOpen
  <2>2. \A n : CrapsOdds(n) => game = "Craps" BY Zenon DEF CrapsOdds, IsOpen
  <2>3. \A d1, d2 : CrapsRoll(d1, d2) => game = "Craps"
    <3> SUFFICES ASSUME NEW d1, NEW d2, CrapsRoll(d1, d2) PROVE game = "Craps" OBVIOUS
    <3>1. IsOpen("Craps") BY Zenon DEF CrapsRoll
    <3> QED BY <3>1 DEF IsOpen
  <2>4. CrapsClear => game = "Craps" BY Zenon DEF CrapsClear, IsOpen
  <2> QED BY <2>1, <2>2, <2>3, <2>4, Zenon DEF CrapsNext
<1>8. BlackjackNext => game = "Blackjack"
  BY Zenon DEF BlackjackNext, BlackjackSide, BlackjackDeal, BlackjackHit, BlackjackStand, BlackjackDouble,
               BlackjackSplit, BlackjackReveal, BlackjackTurn, BlackjackOpen, IsOpen
<1>9. ThreeCardNext => game = "ThreeCard"
  BY Zenon DEF ThreeCardNext, ThreeCardSide, ThreeCardDeal, ThreeCardPlay, ThreeCardFold, ThreeCardReveal, IsOpen
<1>10. HoldemNext => game = "UltimateHoldem"
  BY Zenon DEF HoldemNext, HoldemSide, HoldemDeal, HoldemBet, HoldemCheck, HoldemFold, HoldemReveal, IsOpen
<1> QED BY <1>1, <1>2, <1>3, <1>4, <1>5, <1>6, <1>7, <1>8, <1>9, <1>10

\* A move that is refused, and every step of the other players.
LEMMA GamesInvUnchanged ==
    ASSUME GamesInv, UNCHANGED table
    PROVE  GamesInv'
<1>1. /\ game' = game /\ bet' = bet /\ mults' = mults /\ state' = state /\ charged' = charged
      /\ settled' = settled /\ result' = result
  BY DEF table
<1>2. ASSUME game = "HiLo", HiLoInv PROVE HiLoInv' BY <1>1, <1>2 DEF HiLoInv
<1>3. ASSUME game = "VideoPoker", PokerInv PROVE PokerInv' BY <1>1, <1>3 DEF PokerInv
<1>4. ASSUME game = "CasinoWar", WarInv PROVE WarInv' BY <1>1, <1>4 DEF WarInv, WarReadable, Open, Copies
<1>5. ASSUME game = "Baccarat", BaccaratInv PROVE BaccaratInv'
  BY <1>1, <1>5 DEF BaccaratInv, Books, Open, Copies
<1>6. ASSUME game = "Roulette", RouletteInv PROVE RouletteInv' BY <1>1, <1>6 DEF RouletteInv, Books, Open, Layout
<1>7. ASSUME game = "SicBo", SicBoInv PROVE SicBoInv' BY <1>1, <1>7 DEF SicBoInv, Books, Open, Layout, AtStake
<1>8. ASSUME game = "Craps", CrapsInv PROVE CrapsInv'
  BY <1>1, <1>8 DEF CrapsInv, Books, Open, FollowsThePoint, CrapsWagered
<1>9. ASSUME game = "Blackjack", BlackjackInv PROVE BlackjackInv'
  BY <1>1, <1>9 DEF BlackjackInv, Open, BlackjackShape, BlackjackTurns, BlackjackWagered, AllBusted
<1>10. ASSUME game = "ThreeCard", ThreeCardInv PROVE ThreeCardInv'
  BY <1>1, <1>10 DEF ThreeCardInv, Open, ThreeCardSides
<1>11. ASSUME game = "UltimateHoldem", HoldemInv PROVE HoldemInv'
  BY <1>1, <1>11 DEF HoldemInv, Open, HoldemSides, HoldemFair
<1> QED BY <1>1, <1>2, <1>3, <1>4, <1>5, <1>6, <1>7, <1>8, <1>9, <1>10, <1>11 DEF GamesInv

\* Every game starts in its invariant.
LEMMA GamesInvInit == GamesInit => GamesInv
BY HiLoInitInv, PokerInitInv, WarInitInv, BaccaratInitInv, RouletteInitInv, SicBoInitInv, CrapsInitInv,
   BlackjackInitInv, ThreeCardInitInv, HoldemInitInv, Zenon DEF GamesInit, GamesInv

\* Every move keeps the invariant of its game.
LEMMA GamesInvNext == GamesInv /\ [GamesNext]_table => GamesInv'
<1> SUFFICES ASSUME GamesInv, [GamesNext]_table PROVE GamesInv' OBVIOUS
<1>1. CASE HiLoNext BY <1>1, HiLoNextInv, MoveOfTheGame, InvOfTheGame, Zenon DEF GamesInv
<1>2. CASE PokerNext BY <1>2, PokerNextInv, MoveOfTheGame, InvOfTheGame, Zenon DEF GamesInv
<1>3. CASE WarNext BY <1>3, WarNextInv, MoveOfTheGame, InvOfTheGame, Zenon DEF GamesInv
<1>4. CASE BaccaratNext BY <1>4, BaccaratNextInv, MoveOfTheGame, InvOfTheGame, Zenon DEF GamesInv
<1>5. CASE RouletteNext BY <1>5, RouletteNextInv, MoveOfTheGame, InvOfTheGame, Zenon DEF GamesInv
<1>6. CASE SicBoNext BY <1>6, SicBoNextInv, MoveOfTheGame, InvOfTheGame, Zenon DEF GamesInv
<1>7. CASE CrapsNext BY <1>7, CrapsNextInv, MoveOfTheGame, InvOfTheGame, Zenon DEF GamesInv
<1>8. CASE BlackjackNext BY <1>8, BlackjackNextInv, MoveOfTheGame, InvOfTheGame, Zenon DEF GamesInv
<1>9. CASE ThreeCardNext BY <1>9, ThreeCardNextInv, MoveOfTheGame, InvOfTheGame, Zenon DEF GamesInv
<1>10. CASE HoldemNext BY <1>10, HoldemNextInv, MoveOfTheGame, InvOfTheGame, Zenon DEF GamesInv
<1>11. CASE Finished BY <1>11, GamesInvUnchanged, Zenon DEF Finished
<1>12. CASE UNCHANGED table BY <1>12, GamesInvUnchanged
<1> QED BY <1>1, <1>2, <1>3, <1>4, <1>5, <1>6, <1>7, <1>8, <1>9, <1>10, <1>11, <1>12, Zenon DEF GamesNext

\* The invariant of the games holds in every session.
LEMMA GamesInvHolds == GamesSpec => []GamesInv
BY GamesInvInit, GamesInvNext, PTL DEF GamesSpec

\* The invariants imply the properties.
LEMMA GamesBooks ==
    ASSUME GamesInv
    PROVE  BooksAreCharged
<1> SUFFICES Books(Wagered) BY DEF BooksAreCharged, Books
<1>1. CASE game = "HiLo" /\ HiLoInv BY <1>1 DEF HiLoInv, Wagered, Books
<1>2. CASE game = "VideoPoker" /\ PokerInv BY <1>2 DEF PokerInv, Wagered, Books
<1>3. CASE game = "CasinoWar" /\ WarInv BY <1>3 DEF WarInv, Wagered, Books
<1>4. CASE game = "Baccarat" /\ BaccaratInv BY <1>4 DEF BaccaratInv, Wagered
<1>5. CASE game = "Roulette" /\ RouletteInv BY <1>5 DEF RouletteInv, Wagered
<1>6. CASE game = "SicBo" /\ SicBoInv BY <1>6 DEF SicBoInv, Wagered
<1>7. CASE game = "Craps" /\ CrapsInv BY <1>7 DEF CrapsInv, Wagered
<1>8. CASE game = "Blackjack" /\ BlackjackInv BY <1>8 DEF BlackjackInv, Wagered, Books
<1>9. CASE game = "ThreeCard" /\ ThreeCardInv
  <2> SUFFICES ASSUME result = Open PROVE Wagered = charged - settled BY <1>9 DEF ThreeCardInv, Books
  <2>1. Wagered = (IF state.stage = "AwaitingReveal" THEN 2 ELSE 1) * bet
                  + state.pairplus + state.six + state.progressive
    BY <1>9 DEF Wagered
  <2>2. /\ bet \in Nat /\ state.pairplus \in Nat /\ state.six \in Nat /\ state.progressive \in Nat
        /\ charged \in Int /\ settled = 0
    BY <1>9 DEF ThreeCardInv, ThreeCardStates
  <2>3. charged = (IF state.stage = "AwaitingReveal" THEN 2 * bet ELSE bet)
                  + (state.pairplus + state.six + state.progressive)
    BY <1>9 DEF ThreeCardInv, ThreeCardSides
  <2> QED BY <2>1, <2>2, <2>3
<1>10. CASE game = "UltimateHoldem" /\ HoldemInv
  <2> SUFFICES ASSUME result = Open PROVE Wagered = charged - settled BY <1>10 DEF HoldemInv, Books
  <2>1. Wagered = (1 + state.play) * bet + state.trips + state.six + state.progressive
    BY <1>10 DEF Wagered
  <2>2. /\ bet \in Nat /\ state.trips \in Nat /\ state.six \in Nat /\ state.progressive \in Nat
        /\ state.play \in Nat /\ charged \in Int /\ settled = 0
    BY <1>10 DEF HoldemInv, HoldemStates
  <2>3. charged = bet + state.play * bet + (state.trips + state.six + state.progressive)
    BY <1>10 DEF HoldemInv, HoldemSides
  <2>4. PICK p, q, b : p = state.play /\ q = state.trips + state.six + state.progressive /\ b = bet OBVIOUS
  <2>5. (1 + p) * b = b + p * b /\ p * b \in Nat BY <2>2, <2>4, ProductPositive
  <2> QED BY <2>1, <2>2, <2>3, <2>4, <2>5
<1> QED BY <1>1, <1>2, <1>3, <1>4, <1>5, <1>6, <1>7, <1>8, <1>9, <1>10, Zenon DEF GamesInv

\* A loss that was deducted before.
LEMMA GamesLosses ==
    ASSUME GamesInv
    PROVE  LossIsCharged
<1> SUFFICES ASSUME result.kind = "LossPreDeducted"
             PROVE  CASE game = "Craps" -> result.amount <= charged - settled
                      [] game = "UltimateHoldem" -> result.amount = charged - settled + bet
                      [] game = "Blackjack" ->
                           result.amount \in {charged - settled, charged - settled + FreeDoubles}
                      [] OTHER -> result.amount = charged - settled
  BY DEF LossIsCharged
<1>1. CASE game = "HiLo" /\ HiLoInv BY <1>1 DEF HiLoInv
<1>2. CASE game = "VideoPoker" /\ PokerInv BY <1>2 DEF PokerInv
<1>3. CASE game = "CasinoWar" /\ WarInv BY <1>3 DEF WarInv
<1>4. CASE game = "Baccarat" /\ BaccaratInv BY <1>4 DEF BaccaratInv
<1>5. CASE game = "Roulette" /\ RouletteInv BY <1>5 DEF RouletteInv
<1>6. CASE game = "SicBo" /\ SicBoInv BY <1>6 DEF SicBoInv
<1>7. CASE game = "Craps" /\ CrapsInv BY <1>7 DEF CrapsInv
<1>8. CASE game = "Blackjack" /\ BlackjackInv BY <1>8 DEF BlackjackInv, FreeDoubles
<1>9. CASE game = "ThreeCard" /\ ThreeCardInv BY <1>9 DEF ThreeCardInv
<1>10. CASE game = "UltimateHoldem" /\ HoldemInv BY <1>10 DEF HoldemInv
<1> QED BY <1>1, <1>2, <1>3, <1>4, <1>5, <1>6, <1>7, <1>8, <1>9, <1>10, Zenon DEF GamesInv

\* The odds of craps.
LEMMA GamesOdds ==
    ASSUME GamesInv
    PROVE  OddsFollowThePoint
BY InvOfTheGame DEF OddsFollowThePoint, CrapsInv, FollowsThePoint

\* The shoes and decks.
LEMMA GamesShoe ==
    ASSUME GamesInv
    PROVE  ShoeIsRespected
<1>1. ASSUME game = "Blackjack" PROVE BlackjackShape(state) BY <1>1, InvOfTheGame DEF BlackjackInv
<1>2. ASSUME game = "CasinoWar" PROVE \A c \in WarDeck : Copies(state.cards, c) <= WarDecks
  BY <1>2, InvOfTheGame, Zenon DEF WarInv
<1>3. ASSUME game = "Baccarat"
      PROVE \A c \in BaccaratDeck : Copies(state.hands.player \o state.hands.banker, c) <= BaccaratDecks
  BY <1>3, InvOfTheGame, Zenon DEF BaccaratInv
<1>4. ASSUME game = "ThreeCard" PROVE state.player \cap state.dealer = {}
  BY <1>4, InvOfTheGame, Zenon DEF ThreeCardInv
<1>5. ASSUME game = "UltimateHoldem"
      PROVE \A one, other \in {"player", "flop", "turn", "dealer", "bonus"} :
              one # other => state[one] \cap state[other] = {}
  BY <1>5, InvOfTheGame, Zenon DEF HoldemInv, HoldemFair, HoldemParts
<1> QED BY <1>1, <1>2, <1>3, <1>4, <1>5, Zenon DEF ShoeIsRespected, BlackjackShape

\* What is stored can be read back, but for the games that forget a bound.
LEMMA GamesReadable ==
    ASSUME GamesInv
    PROVE  BoundedAreReadable
<1>1. CASE game = "HiLo" /\ HiLoInv BY <1>1 DEF HiLoInv, HiLoReadable, BoundedAreReadable, Readable
<1>2. CASE game = "VideoPoker" /\ PokerInv BY <1>2 DEF PokerInv, PokerReadable, BoundedAreReadable, Readable
<1>3. CASE game = "CasinoWar" /\ WarInv BY <1>3 DEF WarInv, BoundedAreReadable, Readable
<1>4. CASE game = "Baccarat" /\ BaccaratInv
  <2> DEFINE placed == {type \in BaccaratBets : state.bets[type] > 0}
  <2>1. placed \in SUBSET BaccaratBets OBVIOUS
  <2> HIDE DEF placed
  <2>2. IsFiniteSet(placed) /\ Cardinality(placed) <= Cardinality(BaccaratBets)
    BY <2>1, BaccaratBetsFinite, FS_Subset, Zenon
  <2>3. Cardinality(placed) \in Nat /\ Cardinality(BaccaratBets) \in Nat
    BY <2>2, BaccaratBetsFinite, FS_CardinalityType, Zenon
  <2>4. Cardinality(placed) <= 6 BY <2>2, <2>3, BaccaratBetsFinite
  <2>5. BaccaratReadable(state) BY <1>4, <2>4, Zenon DEF BaccaratInv, BaccaratReadable, placed
  <2> QED BY <1>4, <2>5 DEF BoundedAreReadable, Readable
<1>5. CASE game = "Roulette" /\ RouletteInv BY <1>5 DEF RouletteInv, RouletteReadable, BoundedAreReadable, Readable
<1>6. CASE game = "SicBo" BY <1>6 DEF BoundedAreReadable
<1>7. CASE game = "Craps" /\ CrapsInv
  <2>1. state.bets \in Seq(CrapsRecords) /\ Len(state.bets) <= MaxBets /\ state.phase \in {"ComeOut", "Point"}
    BY <1>7 DEF CrapsInv
  <2>2. \A i \in DOMAIN state.bets : state.bets[i] \in CrapsRecords
    <3>1. DOMAIN state.bets = 1 .. Len(state.bets) BY <2>1, LenProperties, Zenon
    <3> QED BY <2>1, <3>1, ElementOfSeq, Zenon
  <2>3. CrapsReadable(state) BY <2>1, <2>2 DEF CrapsRecords, CrapsReadable
  <2> QED BY <1>7, <2>3 DEF BoundedAreReadable, Readable
<1>8. CASE game = "Blackjack" BY <1>8 DEF BoundedAreReadable
<1>9. CASE game = "ThreeCard" /\ ThreeCardInv
  <2>1. state \in ThreeCardStates BY <1>9 DEF ThreeCardInv
  <2>2. /\ state.stage \in {"Betting", "Decision", "AwaitingReveal", "Complete"}
        /\ state.player \in ThreeCardHands \cup {{}} /\ state.dealer \in ThreeCardHands \cup {{}}
        /\ state.pairplus \in Nat /\ state.six \in Nat /\ state.progressive \in Nat
    BY <2>1 DEF ThreeCardStates
  <2>3. Cardinality(state.player) \in {0, 3} /\ Cardinality(state.dealer) \in {0, 3} BY <2>2, ThreeCardCards
  <2>4. ThreeCardReadable(state) BY <2>2, <2>3, Zenon DEF ThreeCardReadable
  <2> QED BY <1>9, <2>4 DEF BoundedAreReadable, Readable
<1>10. CASE game = "UltimateHoldem" /\ HoldemInv
  <2>1. state \in HoldemStates /\ HoldemFair(state) BY <1>10 DEF HoldemInv
  <2>2. /\ state.stage \in {"Betting", "Preflop", "Flop", "River", "AwaitingReveal", "Showdown"}
        /\ state.play \in 0 .. 4 /\ state.trips \in Nat /\ state.six \in Nat /\ state.progressive \in Nat
    BY <2>1 DEF HoldemStates
  <2>3. \A part \in HoldemParts : Cardinality(state[part]) \in {0, HoldemSize[part]} BY <2>1 DEF HoldemFair
  <2>4. /\ Cardinality(state.player) \in {0, 2} /\ Cardinality(state.dealer) \in {0, 2}
        /\ Cardinality(state.flop) \in {0, 3} /\ Cardinality(state.turn) \in {0, 2}
        /\ Cardinality(state.bonus) \in {0, 4}
    BY <2>3 DEF HoldemParts, HoldemSize
  <2>5. HoldemReadable(state) BY <2>2, <2>4, Zenon DEF HoldemReadable
  <2> QED BY <1>10, <2>5 DEF BoundedAreReadable, Readable
<1> QED BY <1>1, <1>2, <1>3, <1>4, <1>5, <1>6, <1>7, <1>8, <1>9, <1>10, Zenon DEF GamesInv

----------------------------------------------------------------------------
(* Five cards: video poker and the table games evaluate them alike. *)

\* The rank of a card with the ace high, from the rank with the ace low.
HighRank(r) == IF r = 1 THEN 14 ELSE r
HighRanks(R) == {HighRank(r) : r \in R}

\* A greatest and a least element are what Max and Min choose.
LEMMA MaxIs ==
    ASSUME NEW S \in SUBSET Nat, NEW m \in S, \A x \in S : x <= m
    PROVE  Max(S) = m
<1>1. \A x \in S : (\A y \in S : x >= y) => x = m OBVIOUS
<1>2. \A y \in S : m >= y OBVIOUS
<1> QED BY <1>1, <1>2, Zenon DEF Max

LEMMA MinIs ==
    ASSUME NEW S \in SUBSET Nat, NEW m \in S, \A x \in S : m <= x
    PROVE  Min(S) = m
<1>1. \A x \in S : (\A y \in S : x =< y) => x = m OBVIOUS
<1>2. \A y \in S : m =< y OBVIOUS
<1> QED BY <1>1, <1>2, Zenon DEF Min

\* The ranks of a hand have a least and a greatest.
LEMMA RanksBounded ==
    ASSUME NEW S \in SUBSET (1 .. 14), S # {}
    PROVE  /\ Max(S) \in S /\ \A x \in S : x <= Max(S)
           /\ Min(S) \in S /\ \A x \in S : Min(S) <= x
<1>1. S \in SUBSET Nat OBVIOUS
<1>2. PICK low \in S : \A x \in S : low <= x BY <1>1, LeastExists, Zenon
<1> DEFINE mirror == {14 - x : x \in S}
<1>3. mirror \subseteq Nat /\ mirror # {}
  <2>1. \A x \in S : 14 - x \in Nat OBVIOUS
  <2>2. mirror \subseteq Nat BY <2>1
  <2>3. PICK x \in S : TRUE OBVIOUS
  <2>4. 14 - x \in mirror OBVIOUS
  <2> QED BY <2>2, <2>4, Zenon
<1>4. PICK m \in mirror : \A x \in mirror : m <= x
  <2> HIDE DEF mirror
  <2> QED BY <1>3, LeastExists, Zenon
<1>5. PICK high \in S : m = 14 - high BY <1>4
<1>6. ASSUME NEW x \in S PROVE x <= high
  <2>1. 14 - x \in mirror OBVIOUS
  <2>2. m <= 14 - x BY <1>4, <2>1, Zenon
  <2> QED BY <1>5, <2>2
<1>7. Max(S) = high BY <1>1, <1>6, MaxIs, Zenon
<1>8. Min(S) = low BY <1>1, <1>2, MinIs, Zenon
<1> QED BY <1>2, <1>6, <1>7, <1>8, Zenon

\* The two ranks of a card are its rank with the ace low and with the ace high.
LEMMA RankedTwice ==
    ASSUME NEW c \in Cards
    PROVE  PokerRank(c) \in 1 .. 13 /\ AceHigh(c) = HighRank(PokerRank(c))
<1>1. c \in Nat BY DEF Cards
<1>2. c % 13 \in 0 .. 12 BY <1>1
<1> QED BY <1>1, <1>2 DEF PokerRank, AceHigh, HighRank

\* Renaming ranks keeps their number.
LEMMA RanksRenamed ==
    ASSUME NEW R \in SUBSET (1 .. 13)
    PROVE  /\ IsFiniteSet(R) /\ IsFiniteSet(HighRanks(R))
           /\ Cardinality(HighRanks(R)) = Cardinality(R) /\ Cardinality(R) \in Nat
           /\ HighRanks(R) \in SUBSET (2 .. 14)
           /\ \A r \in 1 .. 13 : HighRank(r) \in HighRanks(R) <=> r \in R
<1> DEFINE f == [r \in R |-> HighRank(r)]
<1>1. IsFiniteSet(R)
  <2>1. 1 \in Int /\ 13 \in Int OBVIOUS
  <2>2. IsFiniteSet(1 .. 13) BY <2>1, FS_Interval, Zenon
  <2> QED BY <2>2, FS_Subset, Zenon
<1>2. \A q, r \in 1 .. 13 : HighRank(q) = HighRank(r) => q = r BY DEF HighRank
<1>3. f \in Bijection(R, HighRanks(R)) 
  <2>1. f \in [R -> HighRanks(R)] BY DEF HighRanks
  <2>2. \A q, r \in R : f[q] = f[r] => q = r BY <1>2
  <2>3. \A h \in HighRanks(R) : \E r \in R : f[r] = h BY DEF HighRanks
  <2> QED BY <2>1, <2>2, <2>3, Zenon DEF Bijection, Injection, Surjection, IsInjective
<1>4. ExistsBijection(R, HighRanks(R)) BY <1>3 DEF ExistsBijection
<1>5. /\ IsFiniteSet(HighRanks(R)) /\ Cardinality(HighRanks(R)) = Cardinality(R)
      /\ Cardinality(R) \in Nat
  BY <1>1, <1>4, FS_Bijection, FS_CardinalityType, Zenon
<1>6. HighRanks(R) \in SUBSET (2 .. 14) BY DEF HighRanks, HighRank
<1>7. \A r \in 1 .. 13 : HighRank(r) \in HighRanks(R) <=> r \in R BY <1>2 DEF HighRanks
<1> QED BY <1>1, <1>5, <1>6, <1>7, Zenon

\* Both evaluators group the cards in the same way.
LEMMA GroupsAgree ==
    ASSUME NEW cards \in SUBSET Cards, NEW n
    PROVE  /\ PokerRanks(cards) \in SUBSET (1 .. 13)
           /\ RanksOf(cards) = HighRanks(PokerRanks(cards))
           /\ \A r \in 1 .. 13 : CountOf(cards, HighRank(r)) = OfRank(cards, r)
           /\ {r \in RanksOf(cards) : CountOf(cards, r) = n}
                = HighRanks({r \in PokerRanks(cards) : OfRank(cards, r) = n})
<1>1. PokerRanks(cards) \in SUBSET (1 .. 13) BY RankedTwice DEF PokerRanks
<1>2. RanksOf(cards) = HighRanks(PokerRanks(cards)) BY RankedTwice DEF RanksOf, HighRanks, PokerRanks
<1>3. ASSUME NEW r \in 1 .. 13 PROVE CountOf(cards, HighRank(r)) = OfRank(cards, r)
  <2>1. \A q \in 1 .. 13 : HighRank(q) = HighRank(r) => q = r BY DEF HighRank
  <2>2. \A c \in cards : AceHigh(c) = HighRank(r) <=> PokerRank(c) = r BY <2>1, RankedTwice
  <2>3. {c \in cards : AceHigh(c) = HighRank(r)} = {c \in cards : PokerRank(c) = r} BY <2>2
  <2> QED BY <2>3, Zenon DEF CountOf, OfRank
<1>4. {r \in RanksOf(cards) : CountOf(cards, r) = n}
        = HighRanks({r \in PokerRanks(cards) : OfRank(cards, r) = n})
  BY <1>1, <1>2, <1>3 DEF HighRanks
<1> QED BY <1>1, <1>2, <1>3, <1>4, Zenon

\* Five ranks within five neighbouring ones are all of these.
LEMMA FiveNeighbours ==
    ASSUME NEW R, Cardinality(R) = 5, NEW low \in Nat, R \subseteq low .. low + 4
    PROVE  R = low .. low + 4
<1>1. low \in Int /\ low + 4 \in Int OBVIOUS
<1>2. IsFiniteSet(low .. low + 4) /\ Cardinality(low .. low + 4) = 5
  <2>1. Cardinality(low .. low + 4) = IF low > low + 4 THEN 0 ELSE (low + 4) - low + 1
    BY <1>1, FS_Interval, Zenon
  <2>2. IsFiniteSet(low .. low + 4) BY <1>1, FS_Interval, Zenon
  <2> QED BY <2>1, <2>2
<1> QED BY <1>2, FS_Subset, Zenon

\* The royal ranks.
LEMMA RoyalsAgree ==
    ASSUME NEW R \in SUBSET (1 .. 13)
    PROVE  R = {1, 10, 11, 12, 13} <=> HighRanks(R) = 10 .. 14
<1>1. \A r \in 1 .. 13 : HighRank(r) \in HighRanks(R) <=> r \in R BY RanksRenamed, Zenon
<1>2. HighRanks(R) \in SUBSET (2 .. 14) BY RanksRenamed, Zenon
<1>3. ASSUME R = {1, 10, 11, 12, 13} PROVE HighRanks(R) = 10 .. 14
  <2>1. HighRanks(R) = {14, 10, 11, 12, 13} BY <1>3 DEF HighRanks, HighRank
  <2> QED BY <2>1
<1>4. ASSUME HighRanks(R) = 10 .. 14 PROVE R = {1, 10, 11, 12, 13}
  <2>1. \A r \in 1 .. 13 : r \in R <=> HighRank(r) \in 10 .. 14 BY <1>1, <1>4
  <2>2. \A r \in 1 .. 13 : HighRank(r) \in 10 .. 14 <=> r \in {1, 10, 11, 12, 13} BY DEF HighRank
  <2>3. {1, 10, 11, 12, 13} \subseteq 1 .. 13 /\ R \subseteq 1 .. 13 OBVIOUS
  <2>4. \A r : r \in R <=> r \in {1, 10, 11, 12, 13} BY <2>1, <2>2, <2>3, Zenon
  <2> QED BY <2>4
<1> QED BY <1>3, <1>4

\* Five ranks follow one another with the ace low or as the royal ones exactly
\* when they do with the ace high or as the wheel.
LEMMA StraightsOfRanks ==
    ASSUME NEW R \in SUBSET (1 .. 13), Cardinality(R) = 5
    PROVE  (R = {1, 10, 11, 12, 13} \/ Max(R) - Min(R) = 4)
             <=> (Max(HighRanks(R)) - Min(HighRanks(R)) = 4 \/ HighRanks(R) = {2, 3, 4, 5, 14})
<1> DEFINE H == HighRanks(R)
<1>1. /\ Cardinality(H) = 5 /\ H \in SUBSET (2 .. 14)
      /\ \A r \in 1 .. 13 : HighRank(r) \in H <=> r \in R
  BY RanksRenamed, Zenon
<1>2. R # {} /\ H # {}
  <2>1. Cardinality({}) # 5 BY FS_EmptySet
  <2> QED BY <1>1, <2>1
<1>3. R \in SUBSET (1 .. 14) /\ H \in SUBSET (1 .. 14) BY <1>1
<1>4. H = {HighRank(r) : r \in R} BY DEF HighRanks
<1> HIDE DEF H
<1>5. /\ Max(R) \in R /\ \A x \in R : x <= Max(R)
      /\ Min(R) \in R /\ \A x \in R : Min(R) <= x
  BY <1>2, <1>3, RanksBounded, Zenon
<1>6. /\ Max(H) \in H /\ \A x \in H : x <= Max(H)
      /\ Min(H) \in H /\ \A x \in H : Min(H) <= x
  BY <1>2, <1>3, RanksBounded, Zenon
<1>7. CASE 1 \notin R
  <2>1. H = R BY <1>4, <1>7 DEF HighRank
  <2>2. 14 \notin R OBVIOUS
  <2>3. R # {1, 10, 11, 12, 13} /\ H # {2, 3, 4, 5, 14} BY <1>7, <2>1, <2>2
  <2> QED BY <2>1, <2>3 DEF H
<1>8. CASE 1 \in R
  <2>1. 14 \in H BY <1>1, <1>8 DEF HighRank
  <2>2. Min(R) = 1 /\ Max(H) = 14
    <3>1. R \in SUBSET Nat /\ H \in SUBSET Nat BY <1>3
    <3>2. (\A x \in R : 1 <= x) /\ (\A x \in H : x <= 14) BY <1>3
    <3> QED BY <1>8, <2>1, <3>1, <3>2, MinIs, MaxIs, Zenon
  <2>3. ASSUME R = {1, 10, 11, 12, 13} PROVE Max(H) - Min(H) = 4
    <3>1. H = {14, 10, 11, 12, 13} BY <1>4, <2>3 DEF HighRank
    <3>2. Min(H) = 10 BY <1>6, <3>1
    <3> QED BY <2>2, <3>2
  <2>4. ASSUME Max(R) - Min(R) = 4 PROVE H = {2, 3, 4, 5, 14}
    <3>1. \A x \in R : x \in 1 .. 5 BY <1>3, <1>5, <2>2, <2>4
    <3>2. R = 1 .. 1 + 4
      <4>1. R \subseteq 1 .. 1 + 4 BY <3>1
      <4>2. 1 \in Nat OBVIOUS
      <4> QED BY <4>1, <4>2, FiveNeighbours, Zenon
    <3>3. R = {1, 2, 3, 4, 5} BY <3>2
    <3> QED BY <1>4, <3>3 DEF HighRank
  <2>5. ASSUME Max(H) - Min(H) = 4 PROVE R = {1, 10, 11, 12, 13}
    <3>1. ASSUME NEW x \in H PROVE x \in 10 .. 14
      <4>1. PICK low : low = Min(H) OBVIOUS
      <4>2. low \in 1 .. 14 /\ low <= x /\ x \in 1 .. 14 BY <1>3, <1>6, <4>1, Zenon
      <4>3. 14 - low = 4 BY <2>2, <2>5, <4>1, Zenon
      <4> QED BY <4>2, <4>3
    <3>2. H = 10 .. 10 + 4
      <4>1. H \subseteq 10 .. 10 + 4 BY <3>1
      <4>2. 10 \in Nat OBVIOUS
      <4> QED BY <1>1, <4>1, <4>2, FiveNeighbours, Zenon
    <3>3. H = 10 .. 14 BY <3>2
    <3> QED BY <3>3, RoyalsAgree, Zenon DEF H
  <2>6. ASSUME H = {2, 3, 4, 5, 14} PROVE Max(R) - Min(R) = 4
    <3>1. \A r \in 1 .. 13 : r \in R <=> HighRank(r) \in {2, 3, 4, 5, 14} BY <1>1, <2>6
    <3>2. 5 \in R BY <3>1 DEF HighRank
    <3>3. \A r \in R : r <= 5 BY <3>1 DEF HighRank
    <3>4. Max(R) = 5 
      <4>1. R \in SUBSET Nat BY <1>3
      <4> QED BY <3>2, <3>3, <4>1, MaxIs, Zenon
    <3> QED BY <2>2, <3>4
  <2> QED BY <2>3, <2>4, <2>5, <2>6, Zenon DEF H
<1> QED BY <1>7, <1>8, Zenon

\* A hand is a straight for both evaluators or for none.
LEMMA StraightsAgree ==
    ASSUME NEW cards \in SUBSET Cards
    PROVE  PokerStraight(cards) <=> IsStraight(cards)
<1>1. PokerRanks(cards) \in SUBSET (1 .. 13) /\ RanksOf(cards) = HighRanks(PokerRanks(cards))
  BY GroupsAgree, Zenon
<1>2. PICK R \in SUBSET (1 .. 13) : R = PokerRanks(cards) BY <1>1, Zenon
<1>3. Cardinality(HighRanks(R)) = Cardinality(R) BY RanksRenamed, Zenon
<1>4. PokerStraight(cards)
        <=> Cardinality(R) = 5 /\ (R = {1, 10, 11, 12, 13} \/ Max(R) - Min(R) = 4)
  BY <1>2, Zenon DEF PokerStraight
<1>5. IsStraight(cards)
        <=> /\ Cardinality(HighRanks(R)) = 5
            /\ Max(HighRanks(R)) - Min(HighRanks(R)) = 4 \/ HighRanks(R) = {2, 3, 4, 5, 14}
  BY <1>1, <1>2, Zenon DEF IsStraight
<1> QED BY <1>3, <1>4, <1>5, StraightsOfRanks, Zenon

\* Elements of a set that has enough of them.
LEMMA TwoElements ==
    ASSUME NEW S, IsFiniteSet(S), Cardinality(S) >= 2
    PROVE  \E x, y \in S : x # y
<1>1. Cardinality(S) \in Nat BY FS_CardinalityType, Zenon
<1>2. S # {} BY FS_EmptySet
<1>3. PICK x \in S : TRUE BY <1>2
<1>4. IsFiniteSet(S \ {x}) /\ Cardinality(S \ {x}) = Cardinality(S) - 1 BY FS_RemoveElement
<1>5. S \ {x} # {} BY <1>1, <1>4, FS_EmptySet
<1> QED BY <1>5

LEMMA ThreeElements ==
    ASSUME NEW S, IsFiniteSet(S), Cardinality(S) >= 3
    PROVE  \E x, y, z \in S : x # y /\ x # z /\ y # z
<1>1. Cardinality(S) \in Nat BY FS_CardinalityType, Zenon
<1>2. S # {} BY FS_EmptySet
<1>3. PICK x \in S : TRUE BY <1>2
<1>4. IsFiniteSet(S \ {x}) /\ Cardinality(S \ {x}) = Cardinality(S) - 1 BY FS_RemoveElement
<1>5. Cardinality(S \ {x}) >= 2 BY <1>1, <1>4
<1>6. PICK y, z \in S \ {x} : y # z 
  <2> DEFINE T == S \ {x}
  <2>1. IsFiniteSet(T) /\ Cardinality(T) >= 2 BY <1>4, <1>5
  <2> HIDE DEF T
  <2>2. \E y, z \in T : y # z BY <2>1, TwoElements
  <2> QED BY <2>2 DEF T
<1> QED BY <1>6

\* Three groups of a hand have no more cards than the hand.
LEMMA GroupsFit ==
    ASSUME NEW cards, IsFiniteSet(cards), NEW p, NEW q, NEW r, p # q, p # r, q # r
    PROVE  /\ OfRank(cards, p) + OfRank(cards, q) + OfRank(cards, r) <= Cardinality(cards)
           /\ OfRank(cards, p) \in Nat /\ OfRank(cards, q) \in Nat /\ OfRank(cards, r) \in Nat
           /\ Cardinality(cards) \in Nat
<1> DEFINE Of(x) == {c \in cards : PokerRank(c) = x}
<1>1. \A x : Of(x) \in SUBSET cards OBVIOUS
<1>2. Of(p) \cap Of(q) = {} /\ (Of(p) \cup Of(q)) \cap Of(r) = {} OBVIOUS
<1>3. OfRank(cards, p) = Cardinality(Of(p)) /\ OfRank(cards, q) = Cardinality(Of(q))
      /\ OfRank(cards, r) = Cardinality(Of(r))
  BY Zenon DEF OfRank
<1> HIDE DEF Of
<1>4. IsFiniteSet(Of(p)) /\ IsFiniteSet(Of(q)) /\ IsFiniteSet(Of(r)) BY <1>1, FS_Subset, Zenon
<1>5. /\ Cardinality(Of(p)) \in Nat /\ Cardinality(Of(q)) \in Nat /\ Cardinality(Of(r)) \in Nat
      /\ Cardinality(cards) \in Nat /\ Cardinality({}) = 0
  BY <1>4, FS_CardinalityType, FS_EmptySet, Zenon
<1>6. /\ IsFiniteSet(Of(p) \cup Of(q))
      /\ Cardinality(Of(p) \cup Of(q)) = Cardinality(Of(p)) + Cardinality(Of(q)) - Cardinality({})
  <2>1. /\ IsFiniteSet(Of(p) \cup Of(q))
        /\ Cardinality(Of(p) \cup Of(q))
             = Cardinality(Of(p)) + Cardinality(Of(q)) - Cardinality(Of(p) \cap Of(q))
    BY <1>4, FS_Union, Zenon
  <2> QED BY <1>2, <2>1, Zenon
<1>7. Cardinality((Of(p) \cup Of(q)) \cup Of(r))
        = Cardinality(Of(p) \cup Of(q)) + Cardinality(Of(r)) - Cardinality({})
  <2>1. Cardinality((Of(p) \cup Of(q)) \cup Of(r))
          = Cardinality(Of(p) \cup Of(q)) + Cardinality(Of(r))
              - Cardinality((Of(p) \cup Of(q)) \cap Of(r))
    BY <1>4, <1>6, FS_Union, Zenon
  <2> QED BY <1>2, <2>1, Zenon
<1>8. (Of(p) \cup Of(q)) \cup Of(r) \in SUBSET cards BY <1>1, Zenon
<1>9. Cardinality((Of(p) \cup Of(q)) \cup Of(r)) <= Cardinality(cards) BY <1>8, FS_Subset, Zenon
<1> QED BY <1>3, <1>5, <1>6, <1>7, <1>9

\* Five cards have at most two pairs, and beside three of a kind at most one.
LEMMA FewPairs ==
    ASSUME NEW cards, IsFiniteSet(cards), Cardinality(cards) = 5,
           NEW ranks, NEW pairs, IsFiniteSet(pairs), pairs = {r \in ranks : OfRank(cards, r) = 2}
    PROVE  /\ Cardinality(pairs) \in 0 .. 2
           /\ (\E r \in ranks : OfRank(cards, r) = 3) => Cardinality(pairs) \in 0 .. 1
<1>1. Cardinality(pairs) \in Nat BY FS_CardinalityType, Zenon
<1>2. \A r \in pairs : OfRank(cards, r) = 2 OBVIOUS
<1>3. ASSUME Cardinality(pairs) >= 3 PROVE FALSE
  <2>1. PICK p, q, r \in pairs : p # q /\ p # r /\ q # r BY <1>3, ThreeElements, Zenon
  <2>2. OfRank(cards, p) + OfRank(cards, q) + OfRank(cards, r) <= Cardinality(cards)
    BY <2>1, GroupsFit, Zenon
  <2> QED BY <1>2, <2>1, <2>2
<1>4. ASSUME NEW r \in ranks, OfRank(cards, r) = 3, Cardinality(pairs) >= 2 PROVE FALSE
  <2>1. PICK p, q \in pairs : p # q BY <1>4, TwoElements, Zenon
  <2>2. p # r /\ q # r
    <3>1. 2 # 3 OBVIOUS
    <3> QED BY <1>2, <1>4, <2>1, <3>1, Zenon
  <2>3. OfRank(cards, p) + OfRank(cards, q) + OfRank(cards, r) <= Cardinality(cards)
    BY <2>1, <2>2, GroupsFit, Zenon
  <2> QED BY <1>2, <1>4, <2>1, <2>3
<1> QED BY <1>1, <1>3, <1>4

\* The hand that video poker makes of what it finds.
PokerBest(royal, straight, flush, four, three, pairs, jacks) ==
    IF royal /\ flush THEN "RoyalFlush"
    ELSE IF straight /\ flush THEN "StraightFlush"
    ELSE IF four THEN "FourOfAKind"
    ELSE IF three /\ pairs = 1 THEN "FullHouse"
    ELSE IF flush THEN "Flush"
    ELSE IF straight THEN "Straight"
    ELSE IF three THEN "ThreeOfAKind"
    ELSE IF pairs = 2 THEN "TwoPair"
    ELSE IF jacks THEN "JacksOrBetter" ELSE "HighCard"

\* The first of the hands of video poker that is made.
LEMMA PokerHandIs ==
    ASSUME NEW cards
    PROVE  LET ranks == PokerRanks(cards)
               pairs == {r \in ranks : OfRank(cards, r) = 2}
           IN  PokerHand(cards) = PokerBest(ranks = {1, 10, 11, 12, 13}, PokerStraight(cards),
                                            Cardinality({PokerSuit(c) : c \in cards}) = 1,
                                            \E r \in ranks : OfRank(cards, r) = 4,
                                            \E r \in ranks : OfRank(cards, r) = 3,
                                            Cardinality(pairs), \E r \in pairs : r >= 11 \/ r = 1)
<1> DEFINE ranks == PokerRanks(cards)
           pairs == {r \in ranks : OfRank(cards, r) = 2}
           royal == ranks = {1, 10, 11, 12, 13}
           flush == Cardinality({PokerSuit(c) : c \in cards}) = 1
           straight == PokerStraight(cards)
           four == \E r \in ranks : OfRank(cards, r) = 4
           three == \E r \in ranks : OfRank(cards, r) = 3
           jacks == \E r \in pairs : r >= 11 \/ r = 1
           n == Cardinality(pairs)
           made == [RoyalFlush |-> royal /\ flush, StraightFlush |-> straight /\ flush,
                    FourOfAKind |-> four, FullHouse |-> three /\ n = 1, Flush |-> flush,
                    Straight |-> straight, ThreeOfAKind |-> three, TwoPair |-> n = 2,
                    JacksOrBetter |-> jacks, HighCard |-> TRUE]
           S == {i \in DOMAIN PokerOrder : made[PokerOrder[i]]}
<1>1. PokerHand(cards) = PokerOrder[Min(S)] BY Zenon DEF PokerHand
<1>2. DOMAIN PokerOrder = 1 .. 10 BY DEF PokerOrder
<1>3. /\ PokerOrder[1] = "RoyalFlush" /\ PokerOrder[2] = "StraightFlush"
      /\ PokerOrder[3] = "FourOfAKind" /\ PokerOrder[4] = "FullHouse"
      /\ PokerOrder[5] = "Flush" /\ PokerOrder[6] = "Straight"
      /\ PokerOrder[7] = "ThreeOfAKind" /\ PokerOrder[8] = "TwoPair"
      /\ PokerOrder[9] = "JacksOrBetter" /\ PokerOrder[10] = "HighCard"
  BY DEF PokerOrder
<1>4. S \in SUBSET (1 .. 10) BY <1>2
<1>5. /\ 1 \in S <=> royal /\ flush
      /\ 2 \in S <=> straight /\ flush
      /\ 3 \in S <=> four
      /\ 4 \in S <=> three /\ n = 1
      /\ 5 \in S <=> flush
      /\ 6 \in S <=> straight
      /\ 7 \in S <=> three
      /\ 8 \in S <=> n = 2
      /\ 9 \in S <=> jacks
      /\ 10 \in S
  <2>1. /\ made.RoyalFlush <=> royal /\ flush
        /\ made.StraightFlush <=> straight /\ flush
        /\ made.FourOfAKind <=> four
        /\ made.FullHouse <=> three /\ n = 1
        /\ made.Flush <=> flush
        /\ made.Straight <=> straight
        /\ made.ThreeOfAKind <=> three
        /\ made.TwoPair <=> n = 2
        /\ made.JacksOrBetter <=> jacks
        /\ made.HighCard
    <3> HIDE DEF n, ranks, pairs, royal, flush, straight, four, three, jacks
    <3> QED OBVIOUS
  <2> HIDE DEF n, made
  <2>2. \A i \in 1 .. 10 : i \in S <=> made[PokerOrder[i]] BY <1>2
  <2> QED BY <1>3, <2>1, <2>2
<1> HIDE DEF S, n, made, ranks, pairs, royal, flush, straight, four, three, jacks
<1>6. PICK k \in S : \A i \in S : k <= i
  <2>1. S \subseteq Nat /\ S # {} BY <1>4, <1>5
  <2> QED BY <2>1, LeastExists, Zenon
<1>7. k \in 1 .. 10 /\ k \in S /\ \A i \in 1 .. 10 : i < k => i \notin S BY <1>4, <1>6
<1>8. Min(S) = k
  <2>1. S \in SUBSET Nat BY <1>4
  <2> QED BY <1>6, <2>1, MinIs, Zenon
<1>9. PokerOrder[Min(S)] = PokerBest(royal, straight, flush, four, three, n, jacks)
  <2>1. CASE k = 1 BY <1>3, <1>5, <1>7, <1>8, <2>1 DEF PokerBest
  <2>2. CASE k = 2 BY <1>3, <1>5, <1>7, <1>8, <2>2 DEF PokerBest
  <2>3. CASE k = 3 BY <1>3, <1>5, <1>7, <1>8, <2>3 DEF PokerBest
  <2>4. CASE k = 4 BY <1>3, <1>5, <1>7, <1>8, <2>4 DEF PokerBest
  <2>5. CASE k = 5 BY <1>3, <1>5, <1>7, <1>8, <2>5 DEF PokerBest
  <2>6. CASE k = 6 BY <1>3, <1>5, <1>7, <1>8, <2>6 DEF PokerBest
  <2>7. CASE k = 7 BY <1>3, <1>5, <1>7, <1>8, <2>7 DEF PokerBest
  <2>8. CASE k = 8 BY <1>3, <1>5, <1>7, <1>8, <2>8 DEF PokerBest
  <2>9. CASE k = 9 BY <1>3, <1>5, <1>7, <1>8, <2>9 DEF PokerBest
  <2>10. CASE k = 10 BY <1>3, <1>5, <1>7, <1>8, <2>10 DEF PokerBest
  <2>11. k \in {1, 2, 3, 4, 5, 6, 7, 8, 9, 10} BY <1>7
  <2> QED BY <2>1, <2>2, <2>3, <2>4, <2>5, <2>6, <2>7, <2>8, <2>9, <2>10, <2>11, Zenon
<1> QED BY <1>1, <1>9, Zenon DEF n, ranks, pairs, royal, flush, straight, four, three, jacks

\* The hand that the table games make of what they find.
FiveCardBest(royal, straight, flush, fours, threes, pairs) ==
    IF royal /\ flush THEN "RoyalFlush"
    ELSE IF straight /\ flush THEN "StraightFlush"
    ELSE IF fours > 0 THEN "FourOfAKind"
    ELSE IF threes > 0 /\ pairs >= 1 THEN "FullHouse"
    ELSE IF flush THEN "Flush"
    ELSE IF straight THEN "Straight"
    ELSE IF threes > 0 THEN "ThreeOfAKind"
    ELSE IF pairs >= 2 THEN "TwoPair"
    ELSE IF pairs = 1 THEN "Pair" ELSE "HighCard"

\* The best of the hands of the table games that is made.
LEMMA FiveCardRankIs ==
    ASSUME NEW cards
    PROVE  LET Groups(n) == Cardinality({r \in RanksOf(cards) : CountOf(cards, r) = n})
           IN  FiveCardRanks[FiveCardRank(cards)]
                 = FiveCardBest(RanksOf(cards) = 10 .. 14, IsStraight(cards), IsFlush(cards),
                                Groups(4), Groups(3), Groups(2))
<1> DEFINE Groups(n) == Cardinality({r \in RanksOf(cards) : CountOf(cards, r) = n})
           royal == RanksOf(cards) = 10 .. 14
           flush == IsFlush(cards)
           straight == IsStraight(cards)
           fours == Groups(4)
           threes == Groups(3)
           pairs == Groups(2)
           made == [RoyalFlush |-> royal /\ flush, StraightFlush |-> straight /\ flush,
                    FourOfAKind |-> fours > 0, FullHouse |-> threes > 0 /\ pairs >= 1,
                    Flush |-> flush, Straight |-> straight, ThreeOfAKind |-> threes > 0,
                    TwoPair |-> pairs >= 2, Pair |-> pairs = 1, HighCard |-> TRUE]
           S == {i \in DOMAIN FiveCardRanks : made[FiveCardRanks[i]]}
<1>1. FiveCardRank(cards) = Max(S) BY Zenon DEF FiveCardRank
<1>2. DOMAIN FiveCardRanks = 1 .. 10 BY DEF FiveCardRanks
<1>3. /\ FiveCardRanks[1] = "HighCard" /\ FiveCardRanks[2] = "Pair"
      /\ FiveCardRanks[3] = "TwoPair" /\ FiveCardRanks[4] = "ThreeOfAKind"
      /\ FiveCardRanks[5] = "Straight" /\ FiveCardRanks[6] = "Flush"
      /\ FiveCardRanks[7] = "FullHouse" /\ FiveCardRanks[8] = "FourOfAKind"
      /\ FiveCardRanks[9] = "StraightFlush" /\ FiveCardRanks[10] = "RoyalFlush"
  BY DEF FiveCardRanks
<1>4. S \in SUBSET (1 .. 10) BY <1>2
<1>5. /\ 1 \in S
      /\ 2 \in S <=> pairs = 1
      /\ 3 \in S <=> pairs >= 2
      /\ 4 \in S <=> threes > 0
      /\ 5 \in S <=> straight
      /\ 6 \in S <=> flush
      /\ 7 \in S <=> threes > 0 /\ pairs >= 1
      /\ 8 \in S <=> fours > 0
      /\ 9 \in S <=> straight /\ flush
      /\ 10 \in S <=> royal /\ flush
  <2>1. /\ made.RoyalFlush <=> royal /\ flush
        /\ made.StraightFlush <=> straight /\ flush
        /\ made.FourOfAKind <=> fours > 0
        /\ made.FullHouse <=> threes > 0 /\ pairs >= 1
        /\ made.Flush <=> flush
        /\ made.Straight <=> straight
        /\ made.ThreeOfAKind <=> threes > 0
        /\ made.TwoPair <=> pairs >= 2
        /\ made.Pair <=> pairs = 1
        /\ made.HighCard
    <3> HIDE DEF Groups, royal, flush, straight, fours, threes, pairs
    <3> QED OBVIOUS
  <2> HIDE DEF made
  <2>2. \A i \in 1 .. 10 : i \in S <=> made[FiveCardRanks[i]] BY <1>2
  <2> QED BY <1>3, <2>1, <2>2
<1> HIDE DEF S, made, Groups, royal, flush, straight, fours, threes, pairs
<1>6. /\ Max(S) \in S /\ \A i \in S : i <= Max(S)
  <2>1. S \in SUBSET (1 .. 14) /\ S # {} BY <1>4, <1>5
  <2> QED BY <2>1, RanksBounded, Zenon
<1>7. PICK k \in 1 .. 10 : k = Max(S) BY <1>4, <1>6, Zenon
<1>8. k \in S /\ \A i \in 1 .. 10 : k < i => i \notin S BY <1>4, <1>6, <1>7
<1>9. FiveCardRanks[Max(S)] = FiveCardBest(royal, straight, flush, fours, threes, pairs)
  <2>1. CASE k = 1 BY <1>3, <1>5, <1>7, <1>8, <2>1 DEF FiveCardBest
  <2>2. CASE k = 2 BY <1>3, <1>5, <1>7, <1>8, <2>2 DEF FiveCardBest
  <2>3. CASE k = 3 BY <1>3, <1>5, <1>7, <1>8, <2>3 DEF FiveCardBest
  <2>4. CASE k = 4 BY <1>3, <1>5, <1>7, <1>8, <2>4 DEF FiveCardBest
  <2>5. CASE k = 5 BY <1>3, <1>5, <1>7, <1>8, <2>5 DEF FiveCardBest
  <2>6. CASE k = 6 BY <1>3, <1>5, <1>7, <1>8, <2>6 DEF FiveCardBest
  <2>7. CASE k = 7 BY <1>3, <1>5, <1>7, <1>8, <2>7 DEF FiveCardBest
  <2>8. CASE k = 8 BY <1>3, <1>5, <1>7, <1>8, <2>8 DEF FiveCardBest
  <2>9. CASE k = 9 BY <1>3, <1>5, <1>7, <1>8, <2>9 DEF FiveCardBest
  <2>10. CASE k = 10 BY <1>3, <1>5, <1>7, <1>8, <2>10 DEF FiveCardBest
  <2>11. k \in {1, 2, 3, 4, 5, 6, 7, 8, 9, 10} BY <1>7
  <2> QED BY <2>1, <2>2, <2>3, <2>4, <2>5, <2>6, <2>7, <2>8, <2>9, <2>10, <2>11, Zenon
<1> QED BY <1>1, <1>9, Zenon DEF Groups, royal, flush, straight, fours, threes, pairs


\* Five cards are worth the same to both evaluators.
LEMMA HandsAgree ==
    ASSUME NEW cards \in SUBSET Cards, Cardinality(cards) = 5
    PROVE  LET rank == FiveCardRanks[FiveCardRank(cards)]
               pair == {r \in RanksOf(cards) : CountOf(cards, r) = 2}
           IN  PokerHand(cards) = IF rank # "Pair" THEN rank
                                  ELSE IF Max(pair) >= 11 THEN "JacksOrBetter" ELSE "HighCard"
<1> DEFINE ranks == PokerRanks(cards)
           Low(n) == {r \in ranks : OfRank(cards, r) = n}
           High(n) == {r \in RanksOf(cards) : CountOf(cards, r) = n}
           royal == ranks = {1, 10, 11, 12, 13}
           flush == Cardinality({PokerSuit(c) : c \in cards}) = 1
           straight == PokerStraight(cards)
           four == \E r \in ranks : OfRank(cards, r) = 4
           three == \E r \in ranks : OfRank(cards, r) = 3
           jacks == \E r \in Low(2) : r >= 11 \/ r = 1
<1>1. IsFiniteSet(cards)
  <2>1. 0 \in Int /\ 51 \in Int OBVIOUS
  <2>2. IsFiniteSet(Cards) BY <2>1, FS_Interval, Zenon DEF Cards
  <2> QED BY <2>2, FS_Subset, Zenon
<1>2. ranks \in SUBSET (1 .. 13) /\ RanksOf(cards) = HighRanks(ranks)
  BY GroupsAgree, Zenon
<1>3. \A n : High(n) = HighRanks(Low(n)) BY GroupsAgree, Zenon
<1>4. ASSUME NEW n PROVE /\ Low(n) \in SUBSET (1 .. 13) /\ IsFiniteSet(Low(n))
                         /\ Cardinality(High(n)) = Cardinality(Low(n)) /\ Cardinality(Low(n)) \in Nat
                         /\ Cardinality(Low(n)) > 0 <=> \E r \in ranks : OfRank(cards, r) = n
  <2>1. Low(n) \in SUBSET (1 .. 13) BY <1>2
  <2>2. /\ IsFiniteSet(Low(n)) /\ Cardinality(Low(n)) \in Nat
        /\ Cardinality(HighRanks(Low(n))) = Cardinality(Low(n))
    BY <2>1, RanksRenamed, Zenon
  <2>3. Cardinality(Low(n)) = 0 <=> Low(n) = {} BY <2>2, FS_EmptySet, Zenon
  <2>4. Cardinality(Low(n)) > 0 <=> Low(n) # {}
    <3> HIDE DEF Low
    <3> QED BY <2>2, <2>3
  <2>5. Low(n) # {} <=> \E r \in ranks : OfRank(cards, r) = n OBVIOUS
  <2> QED BY <1>3, <2>1, <2>2, <2>4, <2>5, Zenon
<1>5. /\ Cardinality(Low(2)) \in 0 .. 2
      /\ three => Cardinality(Low(2)) \in 0 .. 1
  BY <1>1, <1>4, FewPairs, Zenon
<1>6. royal = (RanksOf(cards) = 10 .. 14) BY <1>2, RoyalsAgree
<1>7. flush = IsFlush(cards) BY Zenon DEF IsFlush, PokerSuit, SuitOf
<1>8. straight = IsStraight(cards) BY StraightsAgree DEF PokerStraight, IsStraight
<1>9. PokerHand(cards) = PokerBest(royal, straight, flush, four, three, Cardinality(Low(2)), jacks)
  BY PokerHandIs, Zenon
<1>10. FiveCardRanks[FiveCardRank(cards)]
        = FiveCardBest(royal, straight, flush, Cardinality(Low(4)), Cardinality(Low(3)), Cardinality(Low(2)))
  <2>1. FiveCardRanks[FiveCardRank(cards)]
          = FiveCardBest(RanksOf(cards) = 10 .. 14, IsStraight(cards), IsFlush(cards),
                         Cardinality(High(4)), Cardinality(High(3)), Cardinality(High(2)))
    BY FiveCardRankIs, Zenon
  <2>2. /\ Cardinality(High(4)) = Cardinality(Low(4)) /\ Cardinality(High(3)) = Cardinality(Low(3))
        /\ Cardinality(High(2)) = Cardinality(Low(2))
    BY <1>4, Zenon
  <2> QED BY <1>6, <1>7, <1>8, <2>1, <2>2, Zenon DEF FiveCardBest
<1>11. Cardinality(Low(2)) = 0 => ~jacks
  <2>1. Cardinality(Low(2)) = 0 => Low(2) = {} BY <1>4, FS_EmptySet, Zenon
  <2> QED BY <2>1
<1>12. ASSUME Cardinality(Low(2)) = 1 PROVE jacks <=> Max(High(2)) >= 11
  <2>1. PICK r : Low(2) = {r}
    <3>1. IsFiniteSet(Low(2)) BY <1>4, Zenon
    <3> HIDE DEF Low
    <3> QED BY <1>12, <3>1, FS_Singleton, Zenon
  <2>2. r \in 1 .. 13 BY <1>4, <2>1
  <2>3. High(2) = {HighRank(r)} BY <1>3, <2>1 DEF HighRanks
  <2>4. Max({HighRank(r)}) = HighRank(r)
    <3>1. {HighRank(r)} \in SUBSET Nat /\ \A x \in {HighRank(r)} : x <= HighRank(r) BY <2>2 DEF HighRank
    <3> QED BY <3>1, MaxIs, Zenon
  <2>5. jacks <=> r >= 11 \/ r = 1 BY <2>1
  <2> QED BY <2>2, <2>3, <2>4, <2>5 DEF HighRank
<1> DEFINE n == Cardinality(Low(2))
           fours == Cardinality(Low(4))
           threes == Cardinality(Low(3))
<1>13. /\ n \in 0 .. 2
       /\ fours > 0 <=> four
       /\ threes > 0 <=> three
       /\ three => n \in 0 .. 1
       /\ n = 0 => ~jacks
       /\ n = 1 => (jacks <=> Max(High(2)) >= 11)
  BY <1>4, <1>5, <1>11, <1>12, Zenon
<1>14. /\ PokerHand(cards) = PokerBest(royal, straight, flush, four, three, n, jacks)
       /\ FiveCardRanks[FiveCardRank(cards)] = FiveCardBest(royal, straight, flush, fours, threes, n)
  BY <1>9, <1>10, Zenon
<1>15. PICK top : top = Max(High(2)) OBVIOUS
<1> DEFINE rank == FiveCardBest(royal, straight, flush, fours, threes, n)
<1>16. PokerBest(royal, straight, flush, four, three, n, jacks)
         = IF rank # "Pair" THEN rank ELSE IF top >= 11 THEN "JacksOrBetter" ELSE "HighCard"
  <2>1. n = 1 => (jacks <=> top >= 11) BY <1>13, <1>15, Zenon
  <2> HIDE DEF n, fours, threes, four, three, jacks, royal, flush, straight, High, Low, ranks
  <2> QED BY <1>13, <2>1 DEF PokerBest, FiveCardBest
<1> QED BY <1>14, <1>15, <1>16, Zenon DEF rank

\* What video poker makes of a hand, the tables make of it.
LEMMA GamesEvaluators ==
    ASSUME GamesInv
    PROVE  EvaluatorsAgree
<1>1. game = "VideoPoker" => state.hand \in SUBSET Cards /\ Cardinality(state.hand) = 5
  BY InvOfTheGame DEF PokerInv
<1> QED BY <1>1, HandsAgree, Zenon DEF EvaluatorsAgree

----------------------------------------------------------------------------
(* What holds at every table. *)

\* For any stakes, decks and bounds: while a game is open, its state accounts for all
\* that was charged and is not decided, whatever was raised, split, replaced or cleared.
\* A bet of 2^63 or more, which credits the player, leaves a state that accounts for
\* 2^64 more than that.
THEOREM BooksHold == GamesSpec => []BooksAreCharged
<1>1. GamesInv => BooksAreCharged BY GamesBooks
<1> QED BY <1>1, GamesInvHolds, PTL

\* A loss of bets that were deducted before reports what was deducted and not decided,
\* and to it the blind of Ultimate Texas Hold'em and a double that busted all, as long as
\* every amount in a payload is one that an i64 holds.
THEOREM LossesHold == GamesSpec => []LossIsCharged
<1>1. GamesInv => LossIsCharged BY GamesLosses
<1> QED BY <1>1, GamesInvHolds, PTL

\* The odds of craps never outlive the point they are on.
THEOREM OddsHold == GamesSpec => []OddsFollowThePoint
<1>1. GamesInv => OddsFollowThePoint BY GamesOdds
<1> QED BY <1>1, GamesInvHolds, PTL

\* No card is dealt more often than the shoe has it, although every move makes its shoe
\* anew from the state of the session.
THEOREM ShoeHolds == GamesSpec => []ShoeIsRespected
<1>1. GamesInv => ShoeIsRespected BY GamesShoe
<1> QED BY <1>1, GamesInvHolds, PTL

\* No move of the games other than Sic Bo and Blackjack stores a state that the next move
\* cannot read, with any bets and any cards.
THEOREM StatesHold == GamesSpec => []BoundedAreReadable
<1>1. GamesInv => BoundedAreReadable BY GamesReadable
<1> QED BY <1>1, GamesInvHolds, PTL

\* Both evaluators of five cards, with the ace low and with the ace high, agree on every
\* hand of any deck.
THEOREM EvaluatorsAlwaysAgree == GamesSpec => []EvaluatorsAgree
<1>1. GamesInv => EvaluatorsAgree BY GamesEvaluators
<1> QED BY <1>1, GamesInvHolds, PTL

================================================================================
