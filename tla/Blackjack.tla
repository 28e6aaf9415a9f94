-------------------------------- MODULE Blackjack ------------------------------
(***************************************************************************)
(* Blackjack, execution/src/casino/blackjack.rs: the player's hands, which *)
(* may be split and doubled, are played one after the other; then the      *)
(* dealer draws and all hands are settled together with the 21+3 side bet. *)
(***************************************************************************)
EXTENDS Table

CONSTANTS
    BlackjackDeck,  \* the cards of the model
    BlackjackDecks, \* BLACKJACK_DECKS
    MaxHands,       \* MAX_HANDS
    MaxBlackjackHand,   \* MAX_HAND_SIZE
    DealerDraws     \* bound of the model: the cards the dealer draws

ASSUME BlackjackAssumption ==
    /\ BlackjackDeck \subseteq Cards
    /\ BlackjackDecks \in Nat \ {0} /\ MaxHands \in Nat \ {0} /\ DealerDraws \in Nat \ {0}
    /\ MaxBlackjackHand \in Nat /\ MaxBlackjackHand >= 2

\* hand_value: aces count eleven, then one each as long as the hand is over.
HandValue(cards) ==
    LET points(c) == IF c % 13 = 0 THEN 11 ELSE Min({10, (c % 13) + 1})
        high == Sum([i \in DOMAIN cards |-> points(cards[i])])
        aces == Cardinality({i \in DOMAIN cards : cards[i] % 13 = 0})
        low == Min({k \in 0 .. aces : high - 10 * k <= 21} \cup {aces})
    IN  [points |-> high - 10 * low, soft |-> low < aces /\ high - 10 * low <= 21]
Worth(cards) == HandValue(cards).points

IsBlackjack(cards) == Len(cards) = 2 /\ Worth(cards) = 21

\* eval_21plus3_multiplier
SideMultiplier(cards) ==
    LET ranks == {IF c % 13 = 0 THEN 14 ELSE (c % 13) + 1 : c \in ToSet(cards)}
        trips == Cardinality(ranks) = 1
        flush == Cardinality({c \div 13 : c \in ToSet(cards)}) = 1
        straight == \/ ranks = {2, 3, 14}
                    \/ Cardinality(ranks) = 3 /\ Max(ranks) - Min(ranks) = 2
    IN  CASE trips -> 20 [] straight /\ flush -> 30 [] straight /\ ~flush -> 10
          [] flush /\ ~straight /\ ~trips -> 5 [] OTHER -> 0

\* resolve_21plus3_return: the first two cards and the dealer's first.
SideReturn(s) ==
    LET pays == SideMultiplier(s.first \o <<s.dealer[1]>>)
    IN  IF pays = 0 THEN 0 ELSE s.side * (pays + 1)

Hand(cards, status, split) == [cards |-> cards, mult |-> 1, status |-> status, split |-> split]

\* What parse_state reads back.
BlackjackReadable(s) ==
    /\ s.stage \in {"Betting", "PlayerTurn", "AwaitingReveal", "Complete"}
    /\ Len(s.hands) <= MaxHands /\ Len(s.dealer) <= MaxBlackjackHand
    /\ \A i \in DOMAIN s.hands :
         /\ s.hands[i].status \in {"Playing", "Standing", "Busted", "Blackjack"}
         /\ Len(s.hands[i].cards) <= MaxBlackjackHand

\* A state that is not read back refuses every move.
BlackjackOpen == IsOpen("Blackjack") /\ BlackjackReadable(state)

BlackjackInit ==
    \E b \in Stakes :
        Starts("Blackjack", b, [stage |-> "Betting", side |-> 0, first |-> <<>>, active |-> 1,
                                hands |-> <<>>, dealer |-> <<>>])

InHands(hands, c) == Total([i \in DOMAIN hands |-> Copies(hands[i].cards, c)])

\* Mutant: the dealer's card is back in the shoe.
BlackjackKnownHands == [c \in BlackjackDeck |-> InHands(state.hands, c)]

\* The cards that are on the table.
BlackjackKnown == [c \in BlackjackDeck |-> InHands(state.hands, c) + Copies(state.dealer, c)]
BlackjackDeals(n) == Deals(BlackjackDeck, BlackjackDecks, BlackjackKnown, n)

\* advance_turn: to the next hand that is played, or else to the dealer.
Advanced(s) ==
    LET playing == {i \in DOMAIN s.hands : i >= s.active /\ s.hands[i].status = "Playing"}
    IN  IF playing # {} THEN [s EXCEPT !.active = Min(playing)]
        ELSE [s EXCEPT !.active = Len(s.hands) + 1, !.stage = "AwaitingReveal"]

AllBusted(s) == \A i \in DOMAIN s.hands : s.hands[i].status = "Busted"

----------------------------------------------------------------------------
BlackjackWagered(s) == bet * Total([i \in DOMAIN s.hands |-> s.hands[i].mult]) + s.side

\* finalize_game_result: super mode goes by the first hand.
BlackjackSettle(s, return) ==
    LET over == [s EXCEPT !.stage = "Complete"]
    IN  IF return = 0 THEN Ends(over, "LossPreDeducted", BlackjackWagered(s))
        ELSE Ends(over, "Win", Boosted(s.hands[1].cards, return))

BlackjackSide(n) ==
    /\ BlackjackOpen
    /\ state.stage = "Betting"
    /\ Wagers([state EXCEPT !.side = n], n - state.side)

BlackjackDeal ==
    /\ BlackjackOpen
    /\ state.stage = "Betting"
    /\ \E cards \in BlackjackDeals(3) :
         LET own == SubSeq(cards, 1, 2)
             natural == IsBlackjack(own)
             hand == Hand(own, IF natural THEN "Blackjack" ELSE "Playing", FALSE)
         IN  Continues([state EXCEPT !.stage = IF natural THEN "AwaitingReveal" ELSE "PlayerTurn",
                                     !.first = own, !.hands = <<hand>>, !.dealer = <<cards[3]>>])

BlackjackTurn == BlackjackOpen /\ state.stage = "PlayerTurn"
ActiveHand == state.hands[state.active]

\* A bust of the last hand ends the game when no other hand is left.  Nothing
\* bounds the cards of a hand here.
BlackjackHit ==
    /\ BlackjackTurn
    /\ \E card \in BlackjackDeals(1) :
         LET cards == ActiveHand.cards \o card
             points == Worth(cards)
             status == CASE points > 21 -> "Busted" [] points = 21 -> "Standing" [] OTHER -> "Playing"
             s == Advanced([state EXCEPT !.hands[state.active].cards = cards,
                                         !.hands[state.active].status = status])
         IN  IF AllBusted(s) THEN BlackjackSettle(s, SideReturn(s)) ELSE Continues(s)

BlackjackStand ==
    /\ BlackjackTurn
    /\ Continues(Advanced([state EXCEPT !.hands[state.active].status = "Standing"]))

\* The second bet is charged with the update that is returned when the game goes
\* on; when the hand busts and ends the game, it is not.
BlackjackDouble ==
    /\ BlackjackTurn
    /\ Len(ActiveHand.cards) = 2 /\ ActiveHand.mult = 1
    /\ \E card \in BlackjackDeals(1) :
         LET cards == ActiveHand.cards \o card
             status == IF Worth(cards) > 21 THEN "Busted" ELSE "Standing"
             s == Advanced([state EXCEPT !.hands[state.active] =
                              [@ EXCEPT !.cards = cards, !.mult = 2, !.status = status]])
         IN  IF AllBusted(s) THEN BlackjackSettle(s, SideReturn(s)) ELSE Wagers(s, bet)

\* Mutant: the second hand of a split is not charged.
BlackjackSplitFree ==
    /\ BlackjackTurn
    /\ Len(state.hands) < MaxHands
    /\ Len(ActiveHand.cards) = 2
    /\ ActiveHand.cards[1] % 13 = ActiveHand.cards[2] % 13
    /\ \E cards \in BlackjackDeals(2) :
         LET Half(i) == Hand(<<ActiveHand.cards[i], cards[i]>>, "Playing", TRUE)
         IN  Continues([state EXCEPT !.hands = InsertAt([@ EXCEPT ![state.active] = Half(1)],
                                                        state.active + 1, Half(2))])

BlackjackSplit ==
    /\ BlackjackTurn
    /\ Len(state.hands) < MaxHands
    /\ Len(ActiveHand.cards) = 2
    /\ ActiveHand.cards[1] % 13 = ActiveHand.cards[2] % 13
    /\ \E cards \in BlackjackDeals(2) :
         LET Half(i) == Hand(<<ActiveHand.cards[i], cards[i]>>, "Playing", TRUE)
             kept == [Half(1) EXCEPT !.mult = ActiveHand.mult]
         IN  Wagers([state EXCEPT !.hands = InsertAt([@ EXCEPT ![state.active] = kept],
                                                     state.active + 1, Half(2))], bet)

----------------------------------------------------------------------------
\* The dealer hits soft seventeen.
DealerStands(cards) ==
    Worth(cards) > 17 \/ (Worth(cards) = 17 /\ ~HandValue(cards).soft)

\* The dealer's hands: one card is turned up, and more are drawn until the dealer
\* stands, unless every hand of the player's is bust.
DealerHands ==
    LET Stops(cards) == AllBusted(state) \/ DealerStands(cards)
        Taken(drawn, n) == state.dealer \o SubSeq(drawn, 1, n)
    IN  UNION {{state.dealer \o drawn :
                  drawn \in {cards \in BlackjackDeals(n) :
                              \A k \in 1 .. n : Stops(Taken(cards, k)) <=> k = n}} :
               n \in 1 .. DealerDraws}

\* What a hand returns against the dealer's.
HandReturn(hand, dealer) ==
    LET wager == bet * hand.mult
        natural == IsBlackjack(hand.cards) /\ ~hand.split
    IN  CASE hand.status = "Busted" -> 0
          [] hand.status # "Busted" /\ natural /\ IsBlackjack(dealer) -> wager
          [] hand.status # "Busted" /\ natural /\ ~IsBlackjack(dealer) -> (wager * 5) \div 2
          [] hand.status # "Busted" /\ ~natural ->
               IF IsBlackjack(dealer) THEN 0
               ELSE IF Worth(dealer) > 21 \/ Worth(hand.cards) > Worth(dealer) THEN 2 * wager
               ELSE IF Worth(hand.cards) = Worth(dealer) THEN wager ELSE 0

BlackjackReveal ==
    /\ BlackjackOpen
    /\ state.stage = "AwaitingReveal"
    /\ \E dealer \in DealerHands :
         LET s == [state EXCEPT !.dealer = dealer]
         IN  BlackjackSettle(s, Sum([i \in DOMAIN s.hands |-> HandReturn(s.hands[i], dealer)])
                                + SideReturn(s))

BlackjackNext ==
    \/ \E n \in SideBets : BlackjackSide(n)
    \/ BlackjackDeal \/ BlackjackHit \/ BlackjackStand \/ BlackjackDouble \/ BlackjackSplit
    \/ BlackjackReveal

================================================================================
