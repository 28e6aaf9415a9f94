------------------------------- MODULE CasinoWar -------------------------------
(***************************************************************************)
(* Casino War, execution/src/casino/casino_war.rs: the higher of two cards *)
(* wins; after a tie the player surrenders half the bet, or goes to war,   *)
(* whose raise is charged only when it is lost.  A session of an earlier   *)
(* version, whose cards were dealt at the start, is played on.             *)
(***************************************************************************)
EXTENDS Table

CONSTANTS
    WarDeck,    \* the cards of the model
    WarDecks    \* CASINO_WAR_DECKS
ASSUME WarAssumption == WarDeck \subseteq Cards /\ WarDecks \in Nat \ {0}

TieBetPays == 10
WarRank(card) == IF card % 13 = 0 THEN 14 ELSE (card % 13) + 1
Hidden == <<>>

\* What parse_state reads back. The first version has no tie bet.
WarReadable(s) ==
    \/ /\ s.version = 1
       /\ s.stage \in {"Betting", "War", "Complete"}
       /\ Len(s.cards) \in {0, 2} /\ s.tie \in Nat
    \/ /\ s.version = 0
       /\ s.stage \in {"Initial", "War"}
       /\ Len(s.cards) = 2 /\ s.tie = 0

WarInit ==
    \E b \in Stakes :
        \/ Starts("CasinoWar", b, [version |-> 1, stage |-> "Betting", cards |-> Hidden, tie |-> 0])
        \/ \E cards \in Deals(WarDeck, WarDecks, Known(WarDeck, <<>>), 2) :
             Starts("CasinoWar", b, [version |-> 0, stage |-> "Initial", cards |-> cards, tie |-> 0])

\* A tie bet replaces the one before, and the difference is settled.
WarSetTieBet(n) ==
    /\ IsOpen("CasinoWar")
    /\ state.stage = "Betting"
    /\ Wagers([state EXCEPT !.tie = n], n - state.tie)

WarWin(s, n) == Ends(s, "Win", Boosted(<<s.cards[1]>>, n))

WarCompare(cards, stage) ==
    LET over == [state EXCEPT !.cards = cards, !.stage = stage]
        player == WarRank(cards[1])
        dealer == WarRank(cards[2])
    IN  \/ player > dealer /\ WarWin(over, 2 * bet)
        \/ player < dealer /\ Ends(over, "Loss", 0)
        \* Only a tie pays the tie bet, at once.
        \/ player = dealer /\ Pays([over EXCEPT !.stage = "War"], 0, (TieBetPays + 1) * state.tie)

WarPlay ==
    /\ IsOpen("CasinoWar")
    /\ \/ /\ state.stage = "Betting"
          /\ \E cards \in Deals(WarDeck, WarDecks, Known(WarDeck, <<>>), 2) : WarCompare(cards, "Complete")
       \/ /\ state.stage = "Initial"
          /\ WarCompare(state.cards, "Initial")

WarSurrender ==
    /\ IsOpen("CasinoWar")
    /\ state.stage = "War"
    /\ Ends([state EXCEPT !.stage = IF state.version = 1 THEN "Complete" ELSE "War"], "Win", bet \div 2)

\* A second tie wins, in the current version with a bonus.
WarGoToWar ==
    /\ IsOpen("CasinoWar")
    /\ state.stage = "War"
    /\ \E cards \in Deals(WarDeck, WarDecks, Known(WarDeck, state.cards), 2) :
         LET over == [state EXCEPT !.cards = cards,
                                   !.stage = IF state.version = 1 THEN "Complete" ELSE "War"]
             player == WarRank(cards[1])
             dealer == WarRank(cards[2])
         IN  \/ player > dealer /\ WarWin(over, 2 * bet)
             \/ player = dealer /\ WarWin(over, IF state.version = 1 THEN 3 * bet ELSE 2 * bet)
             \/ player < dealer /\ Ends(over, "LossWithExtraDeduction", bet)

WarNext ==
    \/ \E n \in SideBets : WarSetTieBet(n)
    \/ WarPlay \/ WarSurrender \/ WarGoToWar

================================================================================
