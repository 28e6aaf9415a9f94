-------------------------------- MODULE Casino ---------------------------------
(***************************************************************************)
(* Players and game sessions: the player, session and modifier handlers of *)
(* execution/src/layer/handlers/casino.rs.                                 *)
(*                                                                         *)
(* Every operation is one instruction of a transaction and runs alone; a   *)
(* refused instruction that changes nothing is no step.  What a game does  *)
(* with its cards and dice is abstracted to the GameResult it returns, of  *)
(* any amount; three games stand for all ten:                              *)
(*   CasinoWar   the games that end in Loss, also HiLo and VideoPoker;     *)
(*   Roulette    the ones that may start without a bet, also Baccarat,     *)
(*               Craps and SicBo;                                          *)
(*   ThreeCard and UltimateHoldem, and, with no progressive bet, Blackjack.*)
(* No game returns Push, WinWithExtraDeduction or                          *)
(* LossPreDeductedWithExtraDeduction, and no init ends a game, so that     *)
(* those branches are never taken.                                         *)
(***************************************************************************)
EXTENDS Integers, Totals, Leaderboard

CONSTANTS
    Players, Ids, Tournaments,
    Games, Modifiers,   \* the games played and the modifiers used
    Bets, Amounts,      \* bets of StartGame; amounts of game results
    InitialChips,       \* INITIAL_CHIPS
    StartingPool,       \* STARTING_SHIELDS, STARTING_DOUBLES
    FeeDivisor,         \* 5: the super mode fee is a fifth
    AuraMax,            \* AURA_METER_MAX
    JackpotBase,        \* *_PROGRESSIVE_BASE_JACKPOT
    StraightShare,      \* 10: what a straight flush wins of the jackpot
    MaxDay, MaxChips    \* bounds of the model

None == "none"

ASSUME CasinoAssumption ==
    /\ IsFiniteSet(Players) /\ IsFiniteSet(Tournaments)
    /\ None \notin Players /\ None \notin Tournaments
    /\ Games \subseteq {"CasinoWar", "Roulette", "ThreeCard", "UltimateHoldem"}
    /\ Modifiers \subseteq {"shield", "double", "super"}
    /\ Bets \subseteq Nat /\ Amounts \subseteq Nat
    /\ InitialChips \in Nat /\ StartingPool \in Nat /\ AuraMax \in Nat
    /\ FeeDivisor \in Nat \ {0} /\ StraightShare \in Nat \ {0}
    /\ JackpotBase \in Nat /\ MaxDay \in Nat /\ MaxChips \in Nat

Never == -1
Progressive == {"ThreeCard", "UltimateHoldem"}
Stacks == {"cash", "tournament"}

VARIABLES
    day,                   \* the day of the block being executed
    registered,            \* players that exist
    chips, tchips,         \* chips, tournament_chips
    shields, doubles,      \* by player and stack
    on,                    \* the modifiers a player has switched on
    aura,                  \* aura_meter
    active,                \* active_tournament
    lastClaim,             \* day of last_deposit_block
    lastPlayed, played,    \* day of last_tournament_ts, tournaments_played_today
    sessions,              \* CasinoSession by id
    boards,                \* the leaderboards: of each tournament, and the casino's
    phase, members, prize, \* Tournament
    netPnl, jackpot, issuance,  \* House
    granted, paid          \* chips granted in all, and as prizes (history)

pools == <<shields, doubles>>
limits == <<day, lastClaim, lastPlayed, played>>
tournament == <<phase, members, prize, issuance>>
vars == <<day, registered, chips, tchips, shields, doubles, on, aura, active,
          lastClaim, lastPlayed, played, sessions, boards, phase, members, prize,
          netPnl, jackpot, issuance, granted, paid>>

NoSession == [player |-> None, game |-> None, bet |-> 0, super |-> FALSE,
              tournament |-> None, complete |-> FALSE]

Init ==
    /\ day = 0 /\ registered = {}
    /\ chips = [p \in Players |-> 0] /\ tchips = [p \in Players |-> 0]
    /\ shields = [p \in Players |-> [k \in Stacks |-> 0]]
    /\ doubles = [p \in Players |-> [k \in Stacks |-> 0]]
    /\ on = [p \in Players |-> {}]
    /\ aura = [p \in Players |-> 0]
    /\ active = [p \in Players |-> None]
    /\ lastClaim = [p \in Players |-> Never]
    /\ lastPlayed = [p \in Players |-> 0] /\ played = [p \in Players |-> 0]
    /\ sessions = [i \in Ids |-> NoSession]
    /\ boards = [t \in Tournaments \cup {None} |-> <<>>]
    /\ phase = [t \in Tournaments |-> None]
    /\ members = [t \in Tournaments |-> <<>>]
    /\ prize = [t \in Tournaments |-> 0]
    /\ netPnl = 0 /\ issuance = 0
    /\ jackpot = [g \in Progressive |-> 0]
    /\ granted = 0 /\ paid = 0

----------------------------------------------------------------------------
\* A game is played in a tournament, t, or for cash, None.
Kind(t) == IF t = None THEN "cash" ELSE "tournament"
Stack(p, t) == IF t = None THEN chips[p] ELSE tchips[p]

\* Mutant: the house books a payout as income.
GainBookedTwice(p, t, n) ==
    /\ Stack(p, t) + n <= MaxChips
    /\ IF t = None THEN /\ chips' = Add(chips, p, n)
                        /\ netPnl' = netPnl + n
                        /\ UNCHANGED tchips
                   ELSE /\ tchips' = Add(tchips, p, n)
                        /\ UNCHANGED <<chips, netPnl>>

\* The player's stack grows, and for cash the house pays.
Gain(p, t, n) ==
    /\ Stack(p, t) + n <= MaxChips
    /\ IF t = None THEN /\ chips' = Add(chips, p, n)
                        /\ netPnl' = netPnl - n
                        /\ UNCHANGED tchips
                   ELSE /\ tchips' = Add(tchips, p, n)
                        /\ UNCHANGED <<chips, netPnl>>

\* ... shrinks, and for cash the house is paid; refused without the chips.
Charge(p, t, n) ==
    /\ Stack(p, t) >= n
    /\ IF t = None THEN /\ chips' = Sub(chips, p, n)
                        /\ netPnl' = netPnl + n
                        /\ UNCHANGED tchips
                   ELSE /\ tchips' = Sub(tchips, p, n)
                        /\ UNCHANGED <<chips, netPnl>>

\* Mutant: a tournament's board is not updated.
ShowCashOnly(p, t, c) ==
    IF t = None THEN \E b \in Updated(boards[t], p, c) : boards' = [boards EXCEPT ![t] = b]
                ELSE UNCHANGED boards

\* update_leaderboard_for_session
Show(p, t, c) == \E b \in Updated(boards[t], p, c) : boards' = [boards EXCEPT ![t] = b]

SuperFee(n) == n \div FeeDivisor

----------------------------------------------------------------------------
CasinoRegister(p) ==
    /\ p \notin registered
    /\ registered' = registered \cup {p}
    /\ chips' = [chips EXCEPT ![p] = InitialChips]
    /\ shields' = [shields EXCEPT ![p]["cash"] = StartingPool]
    /\ doubles' = [doubles EXCEPT ![p]["cash"] = StartingPool]
    /\ granted' = granted + InitialChips
    /\ Show(p, None, InitialChips)
    /\ UNCHANGED <<tchips, on, aura, active, limits, sessions, tournament, netPnl,
                   jackpot, paid>>

\* The daily faucet.
CasinoDeposit(p, amount) ==
    /\ p \in registered
    /\ lastClaim[p] # day
    /\ chips[p] + amount <= MaxChips
    /\ chips' = Add(chips, p, amount)
    /\ lastClaim' = [lastClaim EXCEPT ![p] = day]
    /\ granted' = granted + amount
    /\ Show(p, None, chips[p] + amount)
    /\ UNCHANGED <<day, lastPlayed, played, registered, tchips, pools, on, aura, active,
                   sessions, tournament, netPnl, jackpot, paid>>

CasinoToggle(p, m) ==
    /\ p \in registered
    /\ on' = [on EXCEPT ![p] = (@ \cup {m}) \ (@ \cap {m})]
    /\ UNCHANGED <<registered, chips, tchips, pools, aura, active, limits, sessions,
                   boards, tournament, netPnl, jackpot, granted, paid>>

\* The tournament a player's next game belongs to: one that is joined but not
\* yet, or no longer, active counts for nothing, and is forgotten.
PlaysIn(p) ==
    IF active[p] # None /\ phase[active[p]] = "active" THEN active[p] ELSE None

CasinoStartGame(p, i, g, bet) ==
    /\ p \in registered
    /\ bet = 0 => g = "Roulette"
    /\ sessions[i].player = None
    /\ LET t == PlaysIn(p)
           total == bet + (IF "super" \in on[p] THEN SuperFee(bet) ELSE 0)
       IN  /\ Charge(p, t, total)
           /\ active' = [active EXCEPT ![p] = t]
           /\ sessions' = [sessions EXCEPT ![i] =
                [player |-> p, game |-> g, bet |-> bet, super |-> "super" \in on[p],
                 tournament |-> t, complete |-> FALSE]]
           /\ Show(p, t, Stack(p, t) - total)
    /\ UNCHANGED <<registered, pools, on, aura, limits, tournament, jackpot, granted, paid>>

----------------------------------------------------------------------------
(***************************************************************************)
(* CasinoGameMove, by the result of the game.  Only the owner of a session *)
(* that is not complete can move.                                          *)
(***************************************************************************)
CanMove(p, i) == sessions[i].player = p /\ ~sessions[i].complete

\* ContinueWithUpdate with a negative payout: a bet is placed or raised.
MoveBet(p, i, amount) ==
    /\ CanMove(p, i)
    /\ amount > 0
    /\ LET s == sessions[i]
           total == amount + (IF s.super THEN SuperFee(amount) ELSE 0)
       IN  /\ Charge(p, s.tournament, total)
           /\ Show(p, s.tournament, Stack(p, s.tournament) - total)
    /\ UNCHANGED <<registered, pools, on, aura, active, limits, sessions, tournament,
                   jackpot, granted, paid>>

\* ContinueWithUpdate with a positive payout: a bet is paid or taken back.
MovePaid(p, i, amount) ==
    /\ CanMove(p, i)
    /\ LET t == sessions[i].tournament
       IN  Gain(p, t, amount) /\ Show(p, t, Stack(p, t) + amount)
    /\ UNCHANGED <<registered, pools, on, aura, active, limits, sessions, tournament,
                   jackpot, granted, paid>>

\* update_aura_meter_for_completion
AfterRound(s, meter, won) ==
    IF ~s.super THEN meter ELSE IF won \/ meter >= AuraMax THEN 0 ELSE meter + 1

\* The session is over, and its modifiers are switched off.
Complete(p, i, won) ==
    /\ sessions' = [sessions EXCEPT ![i].complete = TRUE]
    /\ on' = [on EXCEPT ![p] = {}]
    /\ aura' = [aura EXCEPT ![p] = AfterRound(sessions[i], aura[p], won)]
    /\ UNCHANGED <<registered, active, limits, tournament, granted, paid>>

\* apply_progressive_meters_for_completion: a side bet of one chip in a cash
\* game feeds the game's jackpot, which the best hand takes.
Metered(s) == s.tournament = None /\ s.game \in Progressive
Meter(g) == 1 + (IF jackpot[g] <= JackpotBase THEN JackpotBase ELSE jackpot[g])
Bonus(g, hand) ==
    CASE hand = "royal" -> Meter(g) - JackpotBase
      [] hand = "straight" /\ g = "UltimateHoldem" ->
           Meter(g) \div StraightShare - JackpotBase \div StraightShare
      [] OTHER -> 0
FeedJackpot(g, hand) ==
    jackpot' = [jackpot EXCEPT ![g] = IF hand = "royal" THEN JackpotBase ELSE Meter(g)]

\* A double is spent on a win.
Pays(p, i, base, bonus) ==
    LET t == sessions[i].tournament
        k == Kind(t)
        doubled == "double" \in on[p] /\ doubles[p][k] > 0
        payout == (base + bonus) * (IF doubled THEN 2 ELSE 1)
    IN  /\ doubles' = IF doubled THEN [doubles EXCEPT ![p][k] = @ - 1] ELSE doubles
        /\ Gain(p, t, payout)
        /\ Show(p, t, Stack(p, t) + payout)
        /\ UNCHANGED shields

\* Win
MoveWin(p, i, base) ==
    /\ CanMove(p, i)
    /\ Complete(p, i, TRUE)
    /\ Pays(p, i, base, 0)
    /\ UNCHANGED jackpot

\* ... with a progressive side bet.
MoveWinMetered(p, i, base, hand) ==
    /\ CanMove(p, i)
    /\ Metered(sessions[i])
    /\ Complete(p, i, TRUE)
    /\ Pays(p, i, base, Bonus(sessions[i].game, hand))
    /\ FeedJackpot(sessions[i].game, hand)

Shielded(p, i) ==
    "shield" \in on[p] /\ shields[p][Kind(sessions[i].tournament)] > 0

\* A shield is spent on a loss.
SpendShield(p, i) ==
    /\ shields' = IF Shielded(p, i)
                  THEN [shields EXCEPT ![p][Kind(sessions[i].tournament)] = @ - 1]
                  ELSE shields
    /\ UNCHANGED doubles

\* Loss
MoveLoss(p, i) ==
    /\ CanMove(p, i)
    /\ sessions[i].game = "CasinoWar"
    /\ Complete(p, i, FALSE)
    /\ SpendShield(p, i)
    /\ Show(p, sessions[i].tournament, Stack(p, sessions[i].tournament))
    /\ UNCHANGED <<chips, tchips, netPnl, jackpot>>

ExtraTotal(s, extra) == extra + (IF s.super THEN SuperFee(extra) ELSE 0)

\* LossWithExtraDeduction: the second bet is charged when it is lost.
MoveLossWithExtra(p, i, extra) ==
    /\ CanMove(p, i)
    /\ sessions[i].game = "CasinoWar"
    /\ Complete(p, i, FALSE)
    /\ SpendShield(p, i)
    /\ LET t == sessions[i].tournament
           total == ExtraTotal(sessions[i], extra)
       IN  Charge(p, t, total) /\ Show(p, t, Stack(p, t) - total)
    /\ UNCHANGED jackpot

\* ... or not, for lack of chips; the session is already stored as complete.
MoveLossWithExtraRefused(p, i, extra) ==
    /\ CanMove(p, i)
    /\ sessions[i].game = "CasinoWar"
    /\ Stack(p, sessions[i].tournament) < ExtraTotal(sessions[i], extra)
    /\ sessions' = [sessions EXCEPT ![i].complete = TRUE]
    /\ UNCHANGED <<registered, chips, tchips, pools, on, aura, active, limits, boards,
                   tournament, netPnl, jackpot, granted, paid>>

\* LossPreDeducted: a shield brings the loss back.
LosesPreDeducted(p, i, loss) ==
    LET t == sessions[i].tournament
        refund == IF Shielded(p, i) THEN loss ELSE 0
    IN  /\ SpendShield(p, i)
        /\ Gain(p, t, refund)
        /\ Show(p, t, Stack(p, t) + refund)

MoveLossPreDeducted(p, i, loss) ==
    /\ CanMove(p, i)
    /\ sessions[i].game # "CasinoWar"
    /\ Complete(p, i, FALSE)
    /\ LosesPreDeducted(p, i, loss)
    /\ UNCHANGED jackpot

MoveLossMetered(p, i, loss) ==
    /\ CanMove(p, i)
    /\ Metered(sessions[i])
    /\ Complete(p, i, FALSE)
    /\ LosesPreDeducted(p, i, loss)
    /\ FeedJackpot(sessions[i].game, "other")

CasinoGameMove(p, i) ==
    \/ \E n \in Amounts :
         \/ MoveBet(p, i, n) \/ MovePaid(p, i, n)
         \/ MoveWin(p, i, n)
         \/ \E hand \in {"royal", "straight", "other"} : MoveWinMetered(p, i, n, hand)
         \/ MoveLossWithExtra(p, i, n) \/ MoveLossWithExtraRefused(p, i, n)
         \/ MoveLossPreDeducted(p, i, n) \/ MoveLossMetered(p, i, n)
    \/ MoveLoss(p, i)

PlayerStep(p) ==
    \/ CasinoRegister(p)
    \/ \E n \in Amounts : CasinoDeposit(p, n)
    \/ \E m \in Modifiers : CasinoToggle(p, m)
    \/ \E i \in Ids :
         \/ \E g \in Games, bet \in Bets : CasinoStartGame(p, i, g, bet)
         \/ CasinoGameMove(p, i)

================================================================================
