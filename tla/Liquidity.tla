------------------------------- MODULE Liquidity -------------------------------
(***************************************************************************)
(* Vaults and the RNG / vUSDT pool:                                        *)
(* execution/src/layer/handlers/liquidity.rs.                              *)
(*                                                                         *)
(* Every operation is one instruction of a transaction and runs alone; a   *)
(* refused instruction that changes nothing is no step.  Amounts are       *)
(* natural numbers: the code's saturating operations never saturate while  *)
(* balances stay below 2^64.                                               *)
(***************************************************************************)
EXTENDS Chips

CONSTANTS
    MinimumLiquidity,   \* MINIMUM_LIQUIDITY
    FeeBps, TaxBps,     \* fee_basis_points, sell_tax_basis_points
    BasisPoints,        \* 10_000
    MaxDebt, MaxBurned  \* bounds of the model

ASSUME LiquidityAssumption ==
    /\ MinimumLiquidity \in Nat \ {0}
    /\ BasisPoints \in Nat \ {0}
    /\ FeeBps \in 0 .. BasisPoints /\ TaxBps \in 0 .. BasisPoints
    /\ MaxDebt \in Nat /\ MaxBurned \in Nat

VARIABLES
    registered,    \* players that exist
    vusdt,         \* vusdt_balance of every player
    vaults,        \* players that have a vault
    collateral, debt,
    lp,            \* LpBalance
    reserveRng, reserveVusdt, totalShares,    \* AmmPool
    accumulatedFees, totalBurned,             \* HouseState
    taxed          \* RNG that really left the players as sell tax (history)

balances == <<chips, vusdt>>
vault == <<vaults, collateral, debt>>
amm == <<reserveRng, reserveVusdt, totalShares>>
house == <<accumulatedFees, totalBurned>>
vars == <<registered, chips, vusdt, vaults, collateral, debt, lp, reserveRng,
          reserveVusdt, totalShares, accumulatedFees, totalBurned, taxed>>

Minimum(a, b) == IF a <= b THEN a ELSE b

----------------------------------------------------------------------------
\* Every ledger starts at zero; a missing record reads as zero.
Empty == [p \in Players |-> 0]

Init ==
    /\ registered = {}
    /\ chips = Empty /\ vusdt = Empty
    /\ vaults = {} /\ collateral = Empty /\ debt = Empty
    /\ lp = Empty
    /\ reserveRng = 0 /\ reserveVusdt = 0 /\ totalShares = 0
    /\ accumulatedFees = 0 /\ totalBurned = 0 /\ taxed = 0

CasinoRegister(p) ==
    /\ p \notin registered
    /\ registered' = registered \cup {p}
    /\ chips' = Add(chips, p, InitialChips)
    /\ UNCHANGED <<vusdt, vault, lp, amm, house, taxed>>

\* No player record is needed.
CreateVault(p) ==
    /\ p \notin vaults
    /\ vaults' = vaults \cup {p}
    /\ UNCHANGED <<registered, balances, collateral, debt, lp, amm, house, taxed>>

DepositCollateral(p, amount) ==
    /\ p \in registered
    /\ chips[p] >= amount
    /\ p \in vaults
    /\ chips' = Sub(chips, p, amount)
    /\ collateral' = Add(collateral, p, amount)
    /\ UNCHANGED <<registered, vusdt, vaults, debt, lp, amm, house, taxed>>

\* Debt is at most half of what the collateral is worth, at the pool's spot
\* price or, before there is a pool, at 1.
WithinLtv(p, newDebt) ==
    IF reserveRng > 0 THEN 2 * newDebt * reserveRng <= collateral[p] * reserveVusdt
                      ELSE 2 * newDebt <= collateral[p]

\* Mutant: the debt is booked, the player's record is not written back.
BorrowUsdtNotPaid(p, amount) ==
    /\ p \in vaults
    /\ WithinLtv(p, debt[p] + amount)
    /\ debt[p] + amount <= MaxDebt
    /\ debt' = Add(debt, p, amount)
    /\ UNCHANGED <<registered, balances, vaults, collateral, lp, amm, house, taxed>>

BorrowUsdt(p, amount) ==
    /\ p \in vaults
    /\ WithinLtv(p, debt[p] + amount)
    /\ debt[p] + amount <= MaxDebt
    /\ debt' = Add(debt, p, amount)
    /\ vusdt' = IF p \in registered THEN Add(vusdt, p, amount) ELSE vusdt
    /\ UNCHANGED <<registered, chips, vaults, collateral, lp, amm, house, taxed>>

RepayUsdt(p, amount) ==
    /\ p \in registered /\ p \in vaults
    /\ vusdt[p] >= amount
    /\ vusdt' = Sub(vusdt, p, Minimum(amount, debt[p]))
    /\ debt' = Sub(debt, p, Minimum(amount, debt[p]))
    /\ UNCHANGED <<registered, chips, vaults, collateral, lp, amm, house, taxed>>

----------------------------------------------------------------------------
\* The parts of a swap: tax on the amount sold, fee on what is left, and the
\* constant product on what is left then.
Tax(amount) == (amount * TaxBps) \div BasisPoints
Fee(amount) == (amount * FeeBps) \div BasisPoints

\* Mutant: the quote is rounded up.
AmountOutRoundedUp(amount, in, out) ==
    LET net == amount - Fee(amount)
    IN  ((net * BasisPoints * out) \div (in * BasisPoints + net * BasisPoints)) + 1

AmountOut(amount, in, out) ==
    LET net == amount - Fee(amount)
    IN  (net * BasisPoints * out) \div (in * BasisPoints + net * BasisPoints)

HasLiquidity == reserveRng # 0 /\ reserveVusdt # 0

SwapBuy(p, amount, minOut) ==
    /\ p \in registered /\ amount # 0 /\ HasLiquidity
    /\ LET out == AmountOut(amount, reserveVusdt, reserveRng)
       IN  /\ out >= minOut
           /\ vusdt[p] >= amount
           /\ vusdt' = Sub(vusdt, p, amount)
           /\ chips' = Add(chips, p, out)
           /\ reserveVusdt' = reserveVusdt + amount
           /\ reserveRng' = reserveRng - out
           /\ accumulatedFees' = accumulatedFees + Fee(amount)
    /\ UNCHANGED <<registered, vault, lp, totalShares, totalBurned, taxed>>

\* Mutant: the tax goes into the pool as well.
SwapSellTaxKept(p, amount, minOut) ==
    /\ p \in registered /\ amount # 0 /\ HasLiquidity
    /\ LET net == amount - Tax(amount)
           out == AmountOut(net, reserveRng, reserveVusdt)
       IN  /\ out >= minOut
           /\ chips[p] >= amount
           /\ totalBurned + Tax(amount) <= MaxBurned
           /\ chips' = Sub(chips, p, amount)
           /\ vusdt' = Add(vusdt, p, out)
           /\ reserveRng' = reserveRng + amount
           /\ reserveVusdt' = reserveVusdt - out
           /\ accumulatedFees' = accumulatedFees + Fee(net)
           /\ totalBurned' = totalBurned + Tax(amount)
           /\ taxed' = taxed + Tax(amount)
    /\ UNCHANGED <<registered, vault, lp, totalShares>>

SwapSell(p, amount, minOut) ==
    /\ p \in registered /\ amount # 0 /\ HasLiquidity
    /\ LET net == amount - Tax(amount)
           out == AmountOut(net, reserveRng, reserveVusdt)
       IN  /\ out >= minOut
           /\ chips[p] >= amount
           /\ totalBurned + Tax(amount) <= MaxBurned
           /\ chips' = Sub(chips, p, amount)
           /\ vusdt' = Add(vusdt, p, out)
           /\ reserveRng' = reserveRng + net
           /\ reserveVusdt' = reserveVusdt - out
           /\ accumulatedFees' = accumulatedFees + Fee(net)
           /\ totalBurned' = totalBurned + Tax(amount)
           /\ taxed' = taxed + Tax(amount)
    /\ UNCHANGED <<registered, vault, lp, totalShares>>

\* A sale that is refused, for its slippage limit or for lack of chips, has
\* already booked its tax.
SwapSellRefused(p, amount, minOut) ==
    /\ p \in registered /\ amount # 0 /\ HasLiquidity
    /\ \/ AmountOut(amount - Tax(amount), reserveRng, reserveVusdt) < minOut
       \/ chips[p] < amount
    /\ Tax(amount) > 0
    /\ totalBurned + Tax(amount) <= MaxBurned
    /\ totalBurned' = totalBurned + Tax(amount)
    /\ UNCHANGED <<registered, balances, vault, lp, amm, accumulatedFees, taxed>>

----------------------------------------------------------------------------
\* The guess behind x in integer_sqrt.  The first one, (v + 1) >> 1, is the
\* guess behind v.
Guess(v, x) == (x + v \div x) \div 2

\* integer_sqrt: Newton's iteration from v down, as long as guesses fall.
IntegerSqrt(v) ==
    LET from[x \in 0 .. v] == IF Guess(v, x) < x THEN from[Guess(v, x)] ELSE x
    IN  IF v = 0 THEN 0 ELSE from[v]

\* What it computes (MCLiquidity compares the two).
Sqrt(v) == CHOOSE x \in 0 .. v : x * x <= v /\ v < (x + 1) * (x + 1)

\* Mutant: the larger of the two proportions.
SharesForLarger(rng, usdt) ==
    LET a == (rng * totalShares) \div reserveRng
        b == (usdt * totalShares) \div reserveVusdt
    IN  IF a <= b THEN b ELSE a

\* What a deposit mints to its player once there are shares.
SharesFor(rng, usdt) ==
    Minimum((rng * totalShares) \div reserveRng, (usdt * totalShares) \div reserveVusdt)

Deposit(p, rng, usdt, minted, locked) ==
    /\ chips' = Sub(chips, p, rng)
    /\ vusdt' = Sub(vusdt, p, usdt)
    /\ reserveRng' = reserveRng + rng
    /\ reserveVusdt' = reserveVusdt + usdt
    /\ totalShares' = totalShares + locked + minted
    /\ lp' = Add(lp, p, minted)
    /\ UNCHANGED <<registered, vault, house, taxed>>

CanDeposit(p, rng, usdt) ==
    /\ p \in registered
    /\ rng # 0 /\ usdt # 0
    /\ chips[p] >= rng /\ vusdt[p] >= usdt

\* The first deposit locks MINIMUM_LIQUIDITY shares that nobody owns.
AddFirstLiquidity(p, rng, usdt) ==
    /\ CanDeposit(p, rng, usdt)
    /\ totalShares = 0
    /\ Sqrt(rng * usdt) > MinimumLiquidity
    /\ Deposit(p, rng, usdt, Sqrt(rng * usdt) - MinimumLiquidity, MinimumLiquidity)

AddLiquidity(p, rng, usdt) ==
    /\ CanDeposit(p, rng, usdt)
    /\ totalShares # 0 /\ HasLiquidity
    /\ SharesFor(rng, usdt) # 0
    /\ Deposit(p, rng, usdt, SharesFor(rng, usdt), 0)

RemoveLiquidity(p, shares) ==
    /\ shares # 0
    /\ totalShares # 0 /\ shares <= totalShares
    /\ shares <= lp[p]
    /\ p \in registered
    /\ LET rng == (shares * reserveRng) \div totalShares
           usdt == (shares * reserveVusdt) \div totalShares
       IN  /\ reserveRng' = reserveRng - rng
           /\ reserveVusdt' = reserveVusdt - usdt
           /\ chips' = Add(chips, p, rng)
           /\ vusdt' = Add(vusdt, p, usdt)
    /\ totalShares' = totalShares - shares
    /\ lp' = Sub(lp, p, shares)
    /\ UNCHANGED <<registered, vault, house, taxed>>

Next ==
    \E p \in Players :
        \/ CasinoRegister(p)
        \/ CreateVault(p)
        \/ \E a \in Amounts : \/ DepositCollateral(p, a)
                              \/ BorrowUsdt(p, a)
                              \/ RepayUsdt(p, a)
                              \/ RemoveLiquidity(p, a)
        \/ \E a, b \in Amounts : \/ SwapBuy(p, a, b)
                                 \/ SwapSell(p, a, b)
                                 \/ SwapSellRefused(p, a, b)
                                 \/ AddFirstLiquidity(p, a, b)
                                 \/ AddLiquidity(p, a, b)

Spec == Init /\ [][Next]_vars

----------------------------------------------------------------------------
TypeOK ==
    /\ registered \subseteq Players /\ vaults \subseteq Players
    /\ chips \in Ledgers /\ vusdt \in Ledgers
    /\ collateral \in Ledgers /\ debt \in Ledgers /\ lp \in Ledgers
    /\ reserveRng \in Nat /\ reserveVusdt \in Nat /\ totalShares \in Nat
    /\ accumulatedFees \in Nat /\ totalBurned \in Nat /\ taxed \in Nat

\* RNG is neither made nor lost: what registration granted is held by
\* players, locked as collateral, in the pool, or was burned as sell tax.
RngConserved ==
    Total(chips) + Total(collateral) + reserveRng + taxed
        = InitialChips * Cardinality(registered)

\* All vUSDT is owed: what players and the pool hold is exactly the debt of
\* the vaults.
VusdtIsOwed == Total(vusdt) + reserveVusdt = Total(debt)

\* The pool's shares are those of the providers and the locked ones.
SharesAreOwned ==
    totalShares = Total(lp) + (IF totalShares = 0 THEN 0 ELSE MinimumLiquidity)

\* layer/mod.rs:18, "so the pool can never be fully drained": once there are
\* shares, neither withdrawals nor swaps empty a reserve.
PoolNeverDrained ==
    IF totalShares = 0 THEN reserveRng = 0 /\ reserveVusdt = 0
                       ELSE reserveRng > 0 /\ reserveVusdt > 0

\* No step of anyone takes value from the other providers: the product of the
\* reserves per squared share never falls.
SharesKeepTheirValue ==
    [][totalShares # 0 =>
         reserveRng' * reserveVusdt' * totalShares * totalShares
           >= reserveRng * reserveVusdt * totalShares' * totalShares']_vars

================================================================================
