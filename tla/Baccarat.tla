-------------------------------- MODULE Baccarat -------------------------------
(***************************************************************************)
(* Baccarat, execution/src/casino/baccarat.rs: bets of six types are       *)
(* placed, the cards are dealt by fixed rules, and all bets settled        *)
(* together.                                                               *)
(***************************************************************************)
EXTENDS Table

CONSTANTS
    BaccaratDeck,   \* the cards of the model
    BaccaratDecks   \* BACCARAT_DECKS
ASSUME BaccaratAssumption == BaccaratDeck \subseteq Cards /\ BaccaratDecks \in Nat \ {0}

BaccaratBets == {"Player", "Banker", "Tie", "PlayerPair", "BankerPair", "Lucky6"}

PunctoValue(card) == LET rank == (card % 13) + 1 IN IF rank <= 9 THEN rank ELSE 0
PunctoTotal(hand) == Sum([i \in DOMAIN hand |-> PunctoValue(hand[i])]) % 10
IsPair(hand) == hand[1] % 13 = hand[2] % 13

PlayerDraws(total) == total <= 5

\* The banker draws by its total and by the value of the player's third card, if any.
BankerDraws(total, third) ==
    \/ total <= 2
    \/ total \in 3 .. 5 /\ third = <<>>
    \/ /\ third # <<>>
       /\ LET v == PunctoValue(third[1])
          IN  \/ total = 3 /\ v # 8
              \/ total = 4 /\ v \in 2 .. 7
              \/ total = 5 /\ v \in 4 .. 7
              \/ total = 6 /\ v \in {6, 7}

\* The hands that six cards in the order of the shoe deal.
PunctoHands(shoe) ==
    LET player == <<shoe[1], shoe[2]>>
        banker == <<shoe[3], shoe[4]>>
        natural == PunctoTotal(player) >= 8 \/ PunctoTotal(banker) >= 8
        third == IF ~natural /\ PlayerDraws(PunctoTotal(player)) THEN <<shoe[5]>> ELSE <<>>
        fourth == IF ~natural /\ BankerDraws(PunctoTotal(banker), third) THEN <<shoe[6]>> ELSE <<>>
    IN  [player |-> player \o third, banker |-> banker \o fourth]

\* calculate_bet_payout: what a bet of n wins, negative when it loses.
BaccaratDelta(type, n, hands) ==
    LET p == PunctoTotal(hands.player)
        b == PunctoTotal(hands.banker)
        Odds(won, winnings) == IF won THEN winnings ELSE -n
    IN  CASE type = "PlayerPair" -> Odds(IsPair(hands.player), 11 * n)
          [] type = "BankerPair" -> Odds(IsPair(hands.banker), 11 * n)
          [] type = "Tie" -> Odds(p = b, 8 * n)
          [] type = "Player" -> IF p = b THEN 0 ELSE Odds(p > b, n)
          [] type = "Banker" -> IF p = b THEN 0 ELSE Odds(b > p, (n * 95) \div 100)
          [] type = "Lucky6" -> Odds(b = 6 /\ b > p, (IF Len(hands.banker) = 2 THEN 12 ELSE 23) * n)

\* What from_blob reads back. The bets are kept by type, so that there
\* are never more of them than MAX_BETS.
MaxHandSize == 3
BaccaratReadable(s) ==
    /\ Cardinality({type \in BaccaratBets : s.bets[type] > 0}) <= 6
    /\ Len(s.hands.player) <= MaxHandSize /\ Len(s.hands.banker) <= MaxHandSize

NoBaccaratBets == [type \in BaccaratBets |-> 0]
NoHands == [player |-> <<>>, banker |-> <<>>]
BaccaratInit == StartsEmpty("Baccarat", [bets |-> NoBaccaratBets, hands |-> NoHands])

\* A second bet of a type adds to the first.
BaccaratPlace(type, n) ==
    /\ IsOpen("Baccarat")
    /\ BetsUnchecked([state EXCEPT !.bets[type] = @ + n], n)

\* Cleared bets are not returned.
BaccaratClear ==
    /\ IsOpen("Baccarat")
    /\ Pays([state EXCEPT !.bets = NoBaccaratBets], Total(state.bets), 0)

BaccaratNet(hands) ==
    Sum([type \in {t \in BaccaratBets : state.bets[t] > 0} |->
           BaccaratDelta(type, state.bets[type], hands)])

\* What is left of a partial loss is paid as a win.
BaccaratSettle(hands) ==
    LET wagered == Total(state.bets)
        net == BaccaratNet(hands)
        over == [state EXCEPT !.hands = hands]
    IN  IF net < 0 /\ -net >= wagered THEN Ends(over, "LossPreDeducted", wagered)
        ELSE Ends(over, "Win", Boosted(hands.player \o hands.banker, wagered + net))

BaccaratDeal ==
    /\ IsOpen("Baccarat")
    /\ state.bets # NoBaccaratBets
    /\ \E shoe \in Deals(BaccaratDeck, BaccaratDecks, Known(BaccaratDeck, <<>>), 6) :
         BaccaratSettle(PunctoHands(shoe))

BaccaratNext ==
    \/ \E type \in BaccaratBets, n \in Payloads : BaccaratPlace(type, n)
    \/ BaccaratClear
    \/ BaccaratDeal

================================================================================
