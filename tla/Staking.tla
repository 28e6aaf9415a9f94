-------------------------------- MODULE Staking --------------------------------
(***************************************************************************)
(* Staking and epochs: execution/src/layer/handlers/staking.rs.            *)
(*                                                                         *)
(* Every operation is one instruction of a transaction, executed in the    *)
(* block of the current view.  ClaimRewards changes nothing.               *)
(***************************************************************************)
EXTENDS Integers, Chips

CONSTANTS
    Durations,
    MinDuration,    \* MIN_DURATION
    EpochLength,    \* EPOCH_LENGTH
    MaxView, MaxPnl \* bounds of the model

ASSUME StakingAssumption ==
    /\ Durations \subseteq Nat
    /\ MinDuration \in Nat /\ EpochLength \in Nat \ {0}
    /\ MaxView \in Nat \ {0} /\ MaxPnl \in Nat

VARIABLES
    view,            \* the view of the block being executed
    stakers,         \* players that have a Staker record
    balance, unlock, power,            \* Staker: balance, unlock_ts, voting_power
    houseExists,                       \* the House record is stored
    totalStaked, totalPower,           \* total_staked_amount, total_voting_power
    epoch, epochStart, netPnl,         \* current_epoch, epoch_start_ts, net_pnl
    founded          \* the view in which the House record was stored (history)

staker == <<stakers, balance, unlock, power>>
totals == <<totalStaked, totalPower>>
epochs == <<houseExists, epoch, epochStart, netPnl, founded>>
stakingVars == <<view, chips, stakers, balance, unlock, power, houseExists, totalStaked,
          totalPower, epoch, epochStart, netPnl, founded>>

SaturatingSub(a, b) == IF b <= a THEN a - b ELSE 0

----------------------------------------------------------------------------
StakingInit ==
    /\ view = 1
    /\ chips = [p \in Players |-> InitialChips]
    /\ stakers = {}
    /\ balance = [p \in Players |-> 0]
    /\ unlock = [p \in Players |-> 0]
    /\ power = [p \in Players |-> 0]
    /\ houseExists = FALSE
    /\ totalStaked = 0 /\ totalPower = 0
    /\ epoch = 0 /\ epochStart = 0 /\ netPnl = 0 /\ founded = 0

\* The next block with a transaction is executed; views may be skipped.
NextView(v) ==
    /\ view < v
    /\ view' = v
    /\ UNCHANGED <<chips, staker, totals, epochs>>

\* get_or_init_house, written back: a new House starts its first epoch now.
TouchHouse ==
    /\ houseExists' = TRUE
    /\ epochStart' = IF houseExists THEN epochStart ELSE view
    /\ founded' = IF houseExists THEN founded ELSE view
    /\ UNCHANGED epoch

\* update_house_pnl: a game was paid for or paid out.
UpdateHousePnl(n) ==
    /\ netPnl + n \in -MaxPnl .. MaxPnl
    /\ netPnl' = netPnl + n
    /\ TouchHouse
    /\ UNCHANGED <<view, chips, staker, totals>>

\* Mutant: the house counts the player's whole balance.
StakeCountsBalance(p, amount, duration) ==
    /\ chips[p] >= amount
    /\ duration >= MinDuration
    /\ chips' = Sub(chips, p, amount)
    /\ stakers' = stakers \cup {p}
    /\ balance' = Add(balance, p, amount)
    /\ unlock' = [unlock EXCEPT ![p] = view + duration]
    /\ power' = [power EXCEPT ![p] = (balance[p] + amount) * duration]
    /\ totalStaked' = totalStaked + balance[p] + amount
    /\ totalPower' = totalPower + amount * duration
    /\ TouchHouse
    /\ UNCHANGED <<view, netPnl>>

\* The lock and the voting power of the whole balance are set by the last
\* stake; the house adds what the new amount alone is worth.
Stake(p, amount, duration) ==
    /\ chips[p] >= amount
    /\ duration >= MinDuration
    /\ chips' = Sub(chips, p, amount)
    /\ stakers' = stakers \cup {p}
    /\ balance' = Add(balance, p, amount)
    /\ unlock' = [unlock EXCEPT ![p] = view + duration]
    /\ power' = [power EXCEPT ![p] = (balance[p] + amount) * duration]
    /\ totalStaked' = totalStaked + amount
    /\ totalPower' = totalPower + amount * duration
    /\ TouchHouse
    /\ UNCHANGED <<view, netPnl>>

Unstake(p) ==
    /\ p \in stakers
    /\ view >= unlock[p]
    /\ balance[p] # 0
    /\ chips' = Add(chips, p, balance[p])
    /\ totalStaked' = SaturatingSub(totalStaked, balance[p])
    /\ totalPower' = SaturatingSub(totalPower, power[p])
    /\ balance' = [balance EXCEPT ![p] = 0]
    /\ power' = [power EXCEPT ![p] = 0]
    /\ TouchHouse
    /\ UNCHANGED <<view, stakers, unlock, netPnl>>

\* Mutant: the new epoch has the start of the old one.
ProcessEpochKeepsStart ==
    /\ houseExists
    /\ view >= epochStart + EpochLength
    /\ epoch' = epoch + 1
    /\ epochStart' = epochStart
    /\ netPnl' = 0
    /\ UNCHANGED <<view, chips, staker, totals, houseExists, founded>>

\* Only a stored House can be old enough; the new epoch starts at this view.
ProcessEpoch ==
    /\ houseExists
    /\ view >= epochStart + EpochLength
    /\ epoch' = epoch + 1
    /\ epochStart' = view
    /\ netPnl' = 0
    /\ UNCHANGED <<view, chips, staker, totals, houseExists, founded>>

StakingNext ==
    \/ \E v \in 1 .. MaxView : NextView(v)
    \/ \E p \in Players :
          \/ \E a \in Amounts, d \in Durations : Stake(p, a, d)
          \/ Unstake(p)
    \/ \E n \in {-1, 1} : UpdateHousePnl(n)
    \/ ProcessEpoch

StakingSpec == StakingInit /\ [][StakingNext]_stakingVars

----------------------------------------------------------------------------
StakingTypeOK ==
    /\ view \in 1 .. MaxView
    /\ chips \in Ledgers /\ balance \in Ledgers
    /\ unlock \in Ledgers /\ power \in Ledgers
    /\ stakers \subseteq Players
    /\ houseExists \in BOOLEAN
    /\ totalStaked \in Nat /\ totalPower \in Nat
    /\ epoch \in Nat /\ epochStart \in 0 .. view /\ founded \in 0 .. view
    /\ netPnl \in -MaxPnl .. MaxPnl

\* What the house calls staked is what the stakers have staked, whatever the
\* order of stakes, top-ups and withdrawals; so its saturating subtraction
\* never saturates.
StakedIsOwned == totalStaked = Total(balance)

\* Staking moves chips and neither makes nor loses any.
ChipsConserved == Total(chips) + Total(balance) = InitialChips * Cardinality(Players)

\* Epochs do not overlap: each one counted since the house was stored took at
\* least EPOCH_LENGTH views, even when nobody asked for it in time.
EpochsDoNotOverlap == epochStart >= founded + epoch * EpochLength

================================================================================
