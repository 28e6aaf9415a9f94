------------------------------- MODULE SuperMode -------------------------------
(***************************************************************************)
(* The multipliers of super mode: execution/src/casino/super_mode.rs and   *)
(* generate_super_multipliers of execution/src/casino/mod.rs.              *)
(*                                                                         *)
(* A session in super mode has a set of multipliers, drawn when it starts. *)
(* A multiplier raises what is paid when its element (a card, a rank, a    *)
(* suit, a number or a total) comes up.                                    *)
(***************************************************************************)
EXTENDS Integers, Sequences, FiniteSets, FiniteSetsExt, SequencesExt

CONSTANTS
    AuraIds,    \* the elements a model looks at; other multipliers never match
    AuraValues  \* the multipliers it looks at, of those the code draws from

Multipliers(kind, ids, by) == {[kind |-> kind, id |-> i, by |-> by[i]] : i \in ids}

\* Up to n different elements of ids, each with one of the values its odds allow.
Drawn(kind, ids, n, Values(_)) ==
    UNION {{Multipliers(kind, chosen, by) :
              by \in {f \in [chosen -> AuraValues \cup {1}] :
                        \A i \in chosen : f[i] \in Values(i)}} :
           chosen \in {s \in SUBSET (ids \cap AuraIds) : Cardinality(s) <= n}}

\* The games whose multipliers are all 1 mean to count matches instead.
Marker(i) == {1}
CrapsValues(i) == {25, CASE i \in {6, 8} -> 3 [] i \in {5, 9} -> 5 [] OTHER -> 10}
SicBoValues(i) == CASE i \in {10, 11} -> 3 .. 5
                    [] i \in {7, 8, 13, 14} -> 5 .. 10
                    [] OTHER -> 10 .. 50

Cards == 0 .. 51
BaccaratMultipliers == LET values(i) == {2, 3, 4, 5, 8} IN Drawn("Card", Cards, 5, values)
RouletteMultipliers ==
    LET values(i) == {50, 100, 200, 300, 400, 500} IN Drawn("Number", 0 .. 36, 7, values)
BlackjackMultipliers == LET values(i) == {2, 3, 5, 7, 10} IN Drawn("Card", Cards, 5, values)
CrapsMultipliers == Drawn("Total", {4, 5, 6, 8, 9, 10}, 3, CrapsValues)
SicBoMultipliers == Drawn("Total", 4 .. 17, 3, SicBoValues)
VideoPokerMultipliers == Drawn("Card", Cards, 4, Marker)
ThreeCardMultipliers == Drawn("Suit", 0 .. 3, 2, Marker)
HoldemMultipliers == Drawn("Rank", 0 .. 12, 2, Marker)
CasinoWarMultipliers == Drawn("Rank", 0 .. 12, 3, Marker)

\* A round with a full aura meter has its multipliers raised by half.
Enhanced(mults) == {[m EXCEPT !.by = (@ * 3) \div 2] : m \in mults}

\* generate_super_multipliers: HiLo goes by the streak and has none.
Generated(game) ==
    LET drawn == CASE game = "Baccarat" -> BaccaratMultipliers
                   [] game = "Roulette" -> RouletteMultipliers
                   [] game = "Blackjack" -> BlackjackMultipliers
                   [] game = "Craps" -> CrapsMultipliers
                   [] game = "SicBo" -> SicBoMultipliers
                   [] game = "VideoPoker" -> VideoPokerMultipliers
                   [] game = "ThreeCard" -> ThreeCardMultipliers
                   [] game = "UltimateHoldem" -> HoldemMultipliers
                   [] game = "CasinoWar" -> CasinoWarMultipliers
                   [] game = "HiLo" -> {{}}
    IN  drawn \cup {Enhanced(mults) : mults \in drawn}

----------------------------------------------------------------------------
MatchesCard(m, card) ==
    \/ m.kind = "Card" /\ m.id = card
    \/ m.kind = "Rank" /\ m.id = card % 13
    \/ m.kind = "Suit" /\ m.id = card \div 13

\* apply_super_multiplier_cards: every match of every card counts.
BoostCards(cards, mults, payout) ==
    FoldSet(LAMBDA pair, product : product * pair[2].by, payout,
            {pair \in (DOMAIN cards) \X mults : MatchesCard(pair[2], cards[pair[1]])})

\* apply_super_multiplier_number, apply_super_multiplier_total
BoostElement(kind, id, mults, payout) ==
    LET matching == {m \in mults : m.kind = kind /\ m.id = id}
    IN  IF matching = {} THEN payout ELSE payout * (CHOOSE m \in matching : TRUE).by

\* apply_hilo_streak_multiplier, in tenths
StreakTenths(streak) ==
    CASE streak <= 1 -> 15 [] streak = 2 -> 25 [] streak = 3 -> 40 [] streak = 4 -> 70
      [] streak = 5 -> 120 [] streak = 6 -> 200 [] streak = 7 -> 350
      [] streak = 8 -> 600 [] streak = 9 -> 1000 [] OTHER -> 2000
BoostStreak(payout, streak, ace) ==
    (payout * StreakTenths(streak) * (IF ace THEN 3 ELSE 1)) \div 10

================================================================================
