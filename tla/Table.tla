--------------------------------- MODULE Table ---------------------------------
(***************************************************************************)
(* One casino session as its game sees it: the trait CasinoGame of         *)
(* execution/src/casino/mod.rs, the generator GameRng, and what            *)
(* execution/src/layer/handlers/casino.rs does with the GameResult of a    *)
(* move.  The games of the other modules are played at this table.         *)
(*                                                                         *)
(* The player's stack is left out: a charge the stack cannot bear refuses  *)
(* the whole move and changes nothing, so that it is no step.  A payload   *)
(* that a game refuses changes nothing either.                             *)
(*                                                                         *)
(* An amount in a payload is a u64 and a GameResult carries an i64.  Some  *)
(* games convert the one to the other without a check.                     *)
(***************************************************************************)
EXTENDS SuperMode, Totals

CONSTANTS
    I64Range,       \* 2^63: an i64 holds what is below
    Stakes,         \* the amounts a player bets
    Payloads,       \* the amounts of a bet in a payload, which no stack has paid yet
    SideBets,       \* ... on the side of a card game
    OpeningBets,    \* ... when a game starts that may start without a bet
    MaxBets,        \* MAX_BETS of Roulette, Sic Bo and Craps
    MaxWager,       \* bound of the model: what is charged in one game
    MaxLayout       \* ... in one of the games with bets of their own

ASSUME TableAssumption ==
    /\ Stakes \subseteq Nat \ {0} /\ SideBets \subseteq Nat /\ OpeningBets \subseteq Nat
    /\ Payloads \subseteq Nat \ {0}
    /\ MaxBets \in Nat /\ MaxWager \in Nat /\ MaxLayout \in Nat

\* What is charged fits an i64, and no sum of bets exceeds a u64.  Exactly 2^63,
\* whose negation overflows, is not sent.
ASSUME WidthAssumption ==
    /\ I64Range \in Nat /\ MaxWager < I64Range /\ MaxLayout < I64Range
    /\ \A n \in Payloads : n # I64Range /\ n + MaxLayout < 2 * I64Range

VARIABLES
    game,       \* session.game_type
    bet,        \* session.bet, charged by CasinoStartGame
    super,      \* session.super_mode.is_active
    mults,      \* session.super_mode.multipliers
    state,      \* session.state_blob, as the game reads it
    charged,    \* taken from the player for wagers, less what was taken back (history)
    settled,    \* of that, what is no longer at stake (history)
    paid,       \* what the last move paid before the end of the game
    result      \* the GameResult that ended the game, or after which it is not followed

table == <<game, bet, super, mults, state, charged, settled, paid, result>>

Open == [kind |-> "Open", amount |-> 0]
Kinds == {"Open", "Win", "Loss", "LossWithExtraDeduction", "LossPreDeducted", "Credited"}

\* CasinoStartGame takes the bet and prepares super mode, and the game its state.
\* It ignores every result of an init but Win, Push and Loss, which no init returns.
Begins(g, b, lost, s) ==
    /\ game = g /\ bet = b /\ charged = b /\ settled = lost /\ paid = 0
    /\ \/ super = FALSE /\ mults = {}
       \/ super = TRUE /\ mults \in Generated(g)
    /\ state = s
    /\ result = Open

Starts(g, b, s) == Begins(g, b, 0, s)

\* The games with bets of their own may start without one; they never look at
\* the bet that was charged when they started.
StartsEmpty(g, s) == \E b \in OpeningBets : Begins(g, b, b, s)

IsOpen(g) == game = g /\ result = Open
session == <<game, bet, super, mults>>

\* Continue, and ContinueWithUpdate for a gain of n: wagers that are settled,
\* so many chips of them, are off the table.
Pays(s, wagers, n) ==
    /\ state' = s
    /\ settled' = settled + wagers
    /\ paid' = n
    /\ UNCHANGED <<session, charged, result>>

Continues(s) == Pays(s, 0, 0)

\* ContinueWithUpdate for a wager of n more, or of n less when n is negative.
Wagers(s, n) ==
    /\ charged + n <= MaxWager
    /\ state' = s
    /\ charged' = charged + n
    /\ paid' = 0
    /\ UNCHANGED <<session, settled, result>>

\* ... on a layout of bets.
Bets(s, n) == charged + n <= MaxLayout /\ Wagers(s, n)

\* -(amount as i64): from 2^63 on the amount wraps, the payout is positive, and
\* the handler takes it for a win of n and credits it.  The session stays open
\* in the code; the model follows it no further.
Credits(s, n) ==
    /\ state' = s
    /\ charged' = charged - n
    /\ result' = [kind |-> "Credited", amount |-> n]
    /\ paid' = n
    /\ UNCHANGED <<session, settled>>

\* A bet of n on a layout, converted without a check.
BetsUnchecked(s, n) ==
    \/ n < I64Range /\ Bets(s, n)
    \/ n > I64Range /\ Credits(s, 2 * I64Range - n)

\* The other results end the game.
Ends(s, kind, n) ==
    /\ state' = s
    /\ result' = [kind |-> kind, amount |-> n]
    /\ paid' = 0
    /\ UNCHANGED <<session, charged, settled>>

Boosted(cards, payout) == IF super THEN BoostCards(cards, mults, payout) ELSE payout
BoostedBy(kind, id, payout) ==
    IF super THEN BoostElement(kind, id, mults, payout) ELSE payout

----------------------------------------------------------------------------
\* next_bounded: bytes from the largest multiple of max are drawn again, so that
\* every value below max comes from equally many bytes.
Byte == 255
Limit(max) == Byte - (Byte % max)
Bounded(max) == {byte % max : byte \in 0 .. Limit(max) - 1}

RollDie == {face + 1 : face \in Bounded(6)}
SpinRoulette == Bounded(37)

\* create_deck_excluding: what is left of one deck.
DeckExcluding(deck, excluded) == deck \ excluded

\* create_shoe_excluding: a card c is drawn as long as fewer copies of it than
\* there are decks are known, known[c] of them from before.
Copies(cards, c) == Cardinality({i \in DOMAIN cards : cards[i] = c})
Known(deck, cards) == [c \in deck |-> Copies(cards, c)]

\* The hands of n cards that draw_card may deal, in order, from that shoe.
Deals(deck, decks, known, n) ==
    {hand \in [1 .. n -> deck] :
       \A i \in 1 .. n :
         known[hand[i]] + Cardinality({j \in 1 .. i - 1 : hand[j] = hand[i]}) < decks}

\* The bets of the games where the same bet may be placed again: a bag of records
\* of a spot and an amount, since no game goes by their order.  A bag is a function
\* to the number of its copies, so that Total counts the bets.
Placed(bets, spot, n) ==
    LET b == [spot |-> spot, amount |-> n]
    IN  [x \in DOMAIN bets \cup {b} |->
           (IF x \in DOMAIN bets THEN bets[x] ELSE 0) + (IF x = b THEN 1 ELSE 0)]
Over(bets, Value(_)) == Total([b \in DOMAIN bets |-> bets[b] * Value(b)])

\* What the bets of a layout have cost.
AtStake(bets) == Total([b \in DOMAIN bets |-> bets[b] * b.amount])

\* The sum of numbers of either sign.
Sum(f) == MapThenSumSet(LAMBDA x : f[x], DOMAIN f)

================================================================================
