# A verification project for nullspace

nullspace (this repository) is a casino on a chain of its own: validators order
transactions with threshold-simplex consensus, execute them with randomness
from the consensus seed, certify the results, and publish seeds and certified
summaries to an indexer, from which the website reads. This project models the
parts that carry its logic in TLA+, checks them with TLC on small instances, and
proves the most important results with TLAPS for all values of the constants.

Run a model with `tlc -config MCMempool.cfg Mempool`, a proof with
`tlapm MempoolProofs.tla`. `PROJECT.json` lists every run, the lines each
definition translates, the hazards, the findings and the theorems.

## 1. Inventory

| Part | State | Operations | What makes it correct |
|---|---|---|---|
| **Mempool** `node/src/application/mempool.rs` | transactions by digest and by account and nonce, round-robin queue with stale entries | add, retain, next | the indexes agree; an account with transactions is reachable; limits hold; `next` loses nothing and serves everyone |
| **Application actor** `node/src/application/actor.rs` | block under construction, mempool, stores | Propose, Ancestry, Broadcast, Verify, Finalized, Seeded, pending transactions | a finalized block is executed once, in order, and acknowledged after its result is durable |
| **State transition** `execution/src/state_transition.rs`, `layer/mod.rs` | authenticated state, events log | execute a height, replay it | the stores are those of a validator that never crashed |
| **Seeder** `node/src/seeder/actor.rs` | seeds, durable upload marker, listeners, fetches | Put, Get, Deliver, Produce, Uploaded | who waits for a seed gets it; the marker never passes a seed that is not uploaded |
| **Aggregator** `node/src/aggregator/actor.rs` | proofs cache, results journal, certificates, pending requests, uploads | Executed, Propose, Verify, Certified, Tip, Deliver, Uploaded | nothing is pruned or skipped before it is indexed; gaps are fetched; every certified height reaches the indexer |
| **Vaults and AMM** `layer/handlers/liquidity.rs` | vaults, pool, shares, tax | create, deposit, borrow, repay, swap, add, remove | tokens are conserved; shares are owned; nobody is diluted; the pool is never drained |
| **Staking** `layer/handlers/staking.rs` | stakers, house totals, epoch | stake, unstake, process epoch | totals are the sums; locks hold; epochs do not overlap |
| **Players and sessions** `layer/handlers/casino.rs` | stacks, modifier pools, aura meter, sessions, house PnL, jackpots | register, deposit, toggles, start game, move | no stack is overdrawn; the house's books balance |
| **Tournaments** `layer/handlers/casino.rs` | phase, players, prize, tournament stacks | join, start, end | prizes are issued once and within the pool; nobody is left behind |
| **Leaderboards** `types/src/casino/leaderboard.rs` | the ten best | update | sorted, one entry per player, current |
| **Games** `execution/src/casino/*.rs` | the session's blob | init, process_move of ten games | what is wagered was charged, what is stored can be read, bets of fixed odds return no more than their stakes, no card is dealt too often |
| **Super mode** `execution/src/casino/super_mode.rs` | multipliers of a session | generate, apply | drawn at the start, applied once to what is paid |
| **Indexer client** `node/src/indexer.rs` | background task with a connection | submit, reconnecting stream | transactions reach the mempool; the stream ends only with the node |
| **Simulator** `simulator/src/lib.rs` | claimed heights, operations by key and height, progress, explorer's blocks, broadcast channels | submit, query, subscribe | answers come from the newest block submitted, nothing is announced twice, everything is served, whatever the order and number of submissions |
| **Nonce manager** `website/src/api/nonceManager.js` | nonce and pending transactions in local storage | submit, resubmit, sync, clean up | what is stored without a gap is sent again until it is executed; a record is given up for a known reason only |
| Engine, supervisor, codecs, client library, website, WASM | wiring, data, user interface | | |

Interaction. Consensus notarizes seeds, which go to the **seeder**, and
finalizes blocks, which *marshal* (external) delivers to the **application**.
The application asks the seeder for the block's seed (a task that waits, then
puts a message back into the application's mailbox), executes the block
(**state transition**, which calls the **instruction handlers** through
`Layer`), hands the result to the **aggregator**, and answers marshal, which
moves its save point. The aggregator records result and proofs, answers the
aggregation engine, collects certificates and uploads summaries to the
**simulator**. The application takes pending transactions from the
indexer's stream into the **mempool** and proposes blocks from it. The website's
**nonce manager** signs and stores requests, posts them to the simulator, which
broadcasts them to the validators, resends what is not confirmed, and is told
by the simulator's stream of updates what was executed.

What is hard here. Three durable stores are written one after the other, and a
crash may fall between any two; redelivery must replay, not repeat. Actors run
concurrently, answer each other through mailboxes, and skip part of their loop
by `continue`. Uploads finish in any order while the durable markers must stay
contiguous. The mempool keeps stale queue entries. The instructions of a
block run one at a time, so there the difficulty is in long sequences:
overlapping tournaments, sessions that outlive them, modifiers, rounding, games
whose whole memory is a blob of at most a few hundred bytes. Between page and chain
nothing is reliable: answers and updates overtake each other, the index keeps no
transactions, proposals that fail lose what they took, and pages are reloaded.

## 2. Modules and their correspondence to the code

`Mempool`: `transactions`, `tracked`, `queue`, `queued` are the fields of the
same names. `add` and `retain` are one step each, since the actor runs one
handler at a time; an iteration of the loop in `next` is one step, and `mode`
keeps everything else out meanwhile. `TransactionPool` is what the application
may rely on: one set of transactions per account, from which a call takes the
lowest nonce of some account. `Mempool` implements it under the mapping
`pool <- tracked, asked <- (mode = "next"), taken <- returned`; skipping stale
entries and compacting are stutters.

`NonceManager`, `Proposer`, `Submission`: a transaction's way from the page to
the chain and back, for one account. `NonceManager` has localStorage (`nonce`,
`stored`), the POST that is awaited (`posting`), the round of resubmission under way
(`resending`, a set, since there is one
record per nonce and they are posted in that order) and what travels in both directions (`wire`, `updates`); every
`await` of the code ends an action. `Proposer` has the validator: the pool (as
`TransactionPool` promises it), the ancestry a proposal was asked for on and the
block built on it, which are separate steps between which the state may move. The
chain is what consensus (external) notarizes; a block is the account's
transactions in it. `Submission` composes them with the index between them.

`Simulator`: handlers of uploads as processes, one per validator, with a step
for each time they take the lock (`claim`, `index`, `announce`, `store`). The
contents of the blocks are chosen in the initial state. `Timeout` drops a
handler at the lock it waits for, as the server does when the client's 30
seconds are over; `given` remembers that a claimed height was lost that way.

`BlockExecution`: the path of a finalized block. `pc` says where the node is:
delivered, seeded, events committed, state applied, recorded. A crash may fall
between any two steps and loses what is not durable (`layer`, `result`); the
restart redelivers from marshal's `savePoint`. `expected` is what a validator
that never crashes computes. Transactions are abstracted to account and nonce,
which is what decides whether they take effect. `skipped` records that the
response of a block was dropped, which `Mailbox::report` takes for an
acknowledgement; behind such a block only the stores are still claimed right.

`Seeder` and `Aggregator`: one action per message, with the upload loop that
follows it unless the handler leaves by `continue`. Upload tasks are separate
actions that report through the mailbox. Values are abstracted to their views
and heights. `Ordinal` holds the gap and missing-item functions of the store
they both use (external, from its use). In `Aggregator` the two writes that
Executed joins are two steps.

`Liquidity` and `Staking`: one action per instruction, with its early returns;
a refused instruction that has already written is an action of its own
(`SwapSellRefused`). `IntegerSqrt` is the code's Newton iteration as a recursive
function. `Totals` adds up a function with a fold. `Chips` holds what the two share, the
players and their stacks, so that both can be proved about in one module.

`SuperMode`, `Table`, the ten game modules and `Games`: a session at a table.
`Table` is what the session handler does with every `GameResult`, in terms of
what was `charged`, what is `settled` and the `result`; a game is its stored
`state` and one action per move. A deal or roll is any that the generator can
produce from the cards, numbers and dice of the constants: the shoe is rebuilt from
the state exactly as in the code, so a card the code forgets to exclude can be
dealt. Bags stand for lists of bets whose order no game reads. `PokerHands` has
the evaluators that Three Card and Ultimate Hold'em share. The `*Readable` operators are
what the codecs refuse to read back. A move with several bets in its payload
(atomic batch) is the same as its moves one after the other and has no action of its own.

A charge of -n goes through `Wagers`. Roulette, Sic Bo, Baccarat and the odds of Craps compute
theirs as `-(amount as i64)` from a `u64` of the payload that nothing has bounded; they
go through `BetsUnchecked`, over amounts (`Payloads`) on both sides of 2^63 (`I64Range`). Above it the
payout is positive and the handler credits it (`Credits`): the result is then
`Credited` and the table is followed no further, though in the code the session stays
open. An amount of exactly 2^63, whose negation overflows, is left out (`WidthAssumption`), as
are sums of bets above 2^64. The other charges are either
compared with the limits of an i64 before they are made (side bets, bets of Craps) or multiples of
the session's bet, which a stack has paid; these are taken to fit an i64, which stacks of
more than 2^61 chips would not ensure. Nothing bounds the bets of Sic Bo or the cards of a
Blackjack hand where they are added, here as in the code: a state that cannot be read
back refuses every move (`SicBoOpen`, `BlackjackOpen`) and the session is stuck (`Finished`).

`Leaderboard`, `Casino`, `Tournament`: the rest of the instructions, with the players'
stacks. There a game is
abstracted to the `GameResult` it returns, of any amount (the handlers are what
is modelled); the arms for results that no game returns (Push, the two other
variants with an extra deduction, and any result of init that ends the game) are
left out. `CasinoWar` stands for the games that end in `Loss`, `Roulette` for
those that may start without a bet, `ThreeCard` and `UltimateHoldem` for the ones
with a progressive jackpot. A binary search that meets equal entries may end at any
of them. Prizes are divided exactly where the code uses `f64`.

The `MC*` modules add the symmetry sets (`MCLiquidity` also compares `IntegerSqrt`
with the square root for all arguments up to 400); the `.cfg` files give the
constants. Modules without symmetry are run as they are. Where two specifications are
proved about in one module the second has names of its own (`StakingSpec`, `ServerSpec`).

## 3. Runs

| Run | Shows | Bounds |
|---|---|---|
| `mempool` | no account is stranded under any interleaving; the mempool implements `TransactionPool`; everyone is served | 2 accounts, 3 nonces, 2 digests (so that a transaction can be replaced), backlog 2, pool 3: both limits are reached; compaction after 2 stale entries, queue up to 4 |
| `block_execution` | stores and journal agree with a validator that never crashed; no transaction takes effect twice; no empty proof; every finalized block is recorded unless the node is wedged or a response was dropped | 2 blocks of up to 2 transactions of 2 accounts, 2 crashes at any step (one to interrupt a block, one to interrupt its replay) |
| `block_execution_wedge` (violation) | a crash between the two commits leaves a node that panics on every restart | as above |
| `aggregator` | proofs are pruned only when indexed; gaps are fetched; requests are kept; every certified height is indexed, unless the crash fell between the joined writes | 3 heights, 2 upload slots, blobs of 2: out-of-order completion and a partial blob; 1 crash at any step |
| `seeder` | whoever waits and every gap is fetched; the marker is safe; gets are answered; seeds are indexed | 5 views, 2 slots, 2 crashes: a gap can open on both sides of the marker |
| `liquidity` | conservation of both tokens, no draining, no dilution | 2 players, amounts 1, 2, 4; a fee of 1/4 and tax of 1/2, so that every rounding occurs at small amounts |
| `staking` | totals are sums, epochs do not overlap | 2 players, 4 views, epochs of 2: an epoch can be processed late, twice and never |
| `tournaments` | the house's books balance, prizes are within what was issued, nobody is left behind, boards are sorted and current | 2 players, 1 session, War and Ultimate Hold'em (with its jackpot), the double as the only modifier, 2 tournaments on 2 days, 1 tournament per player and day, reward pool of one and a half prizes: the cap is met and the daily limit reset. Shields, super mode's fee and two sessions of one player at a time are beyond this run and covered by the theorem `HouseAlwaysBalances` |
| `games` | all ten games from start to end: books, losses, payouts, odds, shoes, evaluators, stored states of the eight games that bound them | decks of a few cards chosen so that straights, pairs, wars, naturals, splits and soft hands occur; every kind of bet of Roulette, Sic Bo and most of Craps (one number each), two bets at once, which is also the limit `MaxBets`, and hands of up to 3 cards that can be read back; bets of 1, 2 and 12 with an i64 that holds less than 8, so that a bet can wrap; rolls and spins that make every bet win and lose, while `HouseEdge` goes over all outcomes of the bets it names; super mode with one matching element |
| `games_unreadable` (violation) | one more bet at Sic Bo than can be read back is taken, and no move is possible after it | as above, with Sic Bo and Blackjack only |
| `submission` | notarized blocks hold consecutive nonces; records leave the page only when the chain is past their nonce, or in one of the two named cases; what is held without a gap is executed | 1 account, 2 requests, blocks of 2, any number of losses, failed proposals and abandoned blocks, 1 reload, restart or end of the stream: two requests suffice for one to overtake, replace or wait for the other |
| `simulator` | queries answer from the newest block; nothing is announced twice; every height is served | 2 validators, 2 heights (each before or after the other), 1 seed, every content of the blocks, 1 subscriber with or without a filter and a channel of 2, 1 dropped handler |

Deadlock is not checked where the bounds end the behaviour (all blocks
finalized, all session ids used, all views passed); it is checked for the mempool,
the seeder, the games and the submission of transactions. Type invariants are
stated in the modules and proved where the proofs use them.

Fairness. `Mempool`: the proposer keeps calling `next`, and a loop that has begun
goes on (one thread runs it). `BlockExecution`: weak fairness of the node's own
steps, which are enabled until they happen; crashes are bounded and not fair.
`Seeder`: weak fairness of the peers' answers, of the upload tasks (they retry
until they succeed), of the mailbox and of the restart. `Aggregator`: the same,
with strong fairness for the messages that a step of `Executed` makes wait in the
mailbox: it is first in, first out, so what waits is handled. `Submission`: weak
fairness of the page's timer, of the answers to what it resends and of the
validator's own steps; strong fairness, since losses and failures may repeat but not
for ever, of the delivery of the transaction that is due, of an accepted resend of each
nonce, of building, of notarization and of execution. Nothing is assumed of users,
reloads, updates or the index's answers. `Simulator`: validators go on uploading (the
aggregator repeats an upload until it succeeds) and a handler that is not
dropped runs to its end; nothing is assumed of subscribers. In the other modules no
fairness is assumed of clients, of players or of consensus finalizing more.

### Findings

* **Wedge.** `state_transition.rs:100` says events are committed before state
  "otherwise we risk wedging on restart". With this order too a crash between the two
  commits leaves heights that differ, and each redelivery of the block ends in
  the mismatch error, which the application turns into a panic.

* **Unreadable states.** Sic Bo limits its bets to 20 where it reads the state back
  (`sic_bo.rs:127`, "Validate bet count against maximum"), and not where it places one (:424): the
  21st bet is charged, and the session refuses every later move. A Blackjack hand may be hit
  (`blackjack.rs:495`) beyond the "Maximum cards in a blackjack hand" (:48), eleven, above which
  the state is refused too (:351). `StatesAreReadable` is violated; of the eight other games the
  same is checked and proved (`BoundedAreReadable`).

Observed while modelling, part of what the models do and not stated as runs of their own:

* **Result missing.** `aggregator/actor.rs:542` expects a result wherever proofs
  and certificate are present; a crash between the joined writes (:356) can leave the proofs
  alone, and the upload loop then panics. `SummariesAreIndexed` excuses this.
* **Burned without a sale.** `handle_swap` adds the tax to `total_burned` (:214)
  before the checks that may refuse the sale; `economy.rs:15` calls it "Total RNG
  burned via Sell Tax". `RngConserved` counts the tax really taken.
* **Lock shortened.** `staking.rs:52` promises `max(old_unlock, new_unlock)`;
  the code takes the new one.
* **A nonce skipped.** `nonceManager.js:383` queues requests "to ensure nonces are
  allocated sequentially". When the update of an executed request overtakes the answer
  of its POST, the update has set the nonce past the request and the answer
  increments it once more (:402): the next request is signed one too high, and is
  not executed until the page is reloaded and the nonce synchronised.
* **A claimed height lost.** The simulator enters a height into `submitted_events`
  before it indexes and broadcasts it (`lib.rs:490`). A handler dropped in between, when
  its client's 30 seconds are over, leaves a height that every repeated upload passes by.
* **The stream ends.** One invalid signature ends the "reconnecting" stream of
  transactions (`indexer.rs:188`), which `actor.rs:325` says never fails.
* **Free wagers.** The Blind of Ultimate Hold'em is never charged, since
  `handle_casino_start_game` ignores what `init` returns (the comment at
  `ultimate_holdem.rs:720` says it is); a double that busts the last Blackjack hand is
  not charged. `BooksAreCharged` and `LossIsCharged` name both as exceptions.
* **Credited bets.** A bet above 2^63 at Roulette (`roulette.rs:478`), Sic Bo (`sic_bo.rs:432`),
  Baccarat (`baccarat.rs:395`) or as Craps odds (`craps.rs:1340`) wraps to a positive payout. By
  `mod.rs:283` ("positive = add, negative = deduct") the handler credits it as an
  "intermediate win" (`casino.rs:539`), while the bet stays in the state: the books are then
  2^64 apart, which `BooksAreCharged` says, and a later loss would report an amount that was never
  charged, which `LossIsCharged` does not reach.
* **Records given up.** The timer removes a stored record whose nonce is the page's own as one "from a
  previous session" (`nonceManager.js:334`), although its POST may still be awaited; after a
  failed POST the code says "Continue trying to submit transactions until confirmed" (:413), and the
  next round of the timer drops the record the same way, although the index may have taken the
  transaction; and the synchronisation after a reload
  (:148) drops all records when the index is behind the page. `RecordsAreKept`
  names these cases as exceptions.
* **Streaks.** `hilo.rs:144` takes `move_count` for the number of right guesses;
  both the game and the handler count moves, so the streak is too long.
* **Ties.** Two poker hands of one rank are compared by all their card ranks from high
  to low (`ultimate_holdem.rs:439`, `three_card.rs:150`), so that a pair of twos with
  an ace beats a pair of kings; the model compares them the same way.
* The result journal is appended by position and not by height, so a block acknowledged
  without a result shifts those after it (`aggregator/actor.rs:349`); a shield spent on a
  plain `Loss` refunds nothing (`casino.rs:796`); the Baccarat multipliers "capped at
  512x" (`super_mode.rs:16`) are not capped.

## 4. Proofs

All are for every value of the constants that satisfies the named assumptions: finite
sets of players, limits of at least one, amounts that are naturals, and that `None` is
neither a player nor a tournament. Every safety property of a passing run is
proved, except `HouseEdge`, which sums payouts over all outcomes.

* `MempoolProofs`: type correctness, `IndexesAgree`, `NoneStranded`,
  `WithinLimits`, `NextIsLossless`, and `PoolIsImplemented`, the refinement of
  `TransactionPool`: initial states map to initial states, and under the inductive
  invariant every action maps to one of the pool's or to a stutter. `NoneStranded` is
  not inductive alone: what is needed besides is that every queued account has an entry
  in the queue, that the loop of `next` has not yet passed a live entry, and that the
  counters are the sizes of the indexes, through compaction.
* `BlockExecutionProofs`: `StoresMatchCertified` and `NoTransactionTwice` without
  conditions; `ResultsMatchCertified`, `SavePointIsRecorded` and `NoEmptyProof` until a
  response is dropped. The invariant has two parts. `StoreInv` says how far each store
  has come and that it equals the prefix of `expected` at its own height, with the events at
  most one block ahead of the state: this survives even a dropped response, after which
  the node stays behind or panics but writes nothing wrong. `RecordInv` relates the journal,
  the save point and the result in hand to the stores, and is claimed while
  `~skipped`. That no transaction takes effect twice rests on `Sound`: what the events
  hold of an account lies below its nonce, proved along the transactions of a
  block and along the blocks of the chain.
* `AggregatorProofs`: `PrunedIsIndexed`, `GapsAreFetched`, `PendingAreAhead`, and
  at most `MaxUploads` uploads. The invariant adds: everything below the boundary is
  indexed and what was reported too, tasks are behind the cursor, the two writes of
  Executed leave the journal and the cache at most one block ahead of what was
  acknowledged (also after a crash between them), and what is missing is waited for, and what is
  waited for is fetched.
* `IndexProofs`: the two ends of publishing. Of the Seeder `FetchesAreKept` and
  `MarkerIsSafe`, with an invariant of the same kind; the boundary of the
  uploads in memory always equals the durable marker's successor. Of the Simulator (`ServerSpec`)
  `AnswersAreLatest` and `AnnouncedOnce`. The first needs that the operations kept of a key are
  exactly those of the submitted blocks that touch it; the second, that a height is
  claimed by at most one handler that has not yet broadcast, that such a
  height is not listed, and that whatever a client was sent is settled: its height is
  claimed and no handler still has it in hand.
* `EconomyProofs`: of Liquidity, conservation of both tokens, `SharesAreOwned`,
  `PoolNeverDrained`, and the action property `SharesKeepTheirValue`. The
  strengthening adds the sums of shares, and that who is not registered has no
  collateral. The nonlinear steps (products of reserves against squares of shares) are
  lemmas of their own. Of Staking (`StakingSpec`) `StakedIsOwned`, `ChipsConserved`,
  `EpochsDoNotOverlap`, with the extra fact that no epoch has passed while no House is stored.
  Of the ten games (`GamesSpec`) `BooksAreCharged`, `LossIsCharged`, `OddsFollowThePoint`,
  `ShoeIsRespected`, `EvaluatorsAgree` and `BoundedAreReadable` for any decks, layouts, stakes and
  numbers of bets. The books are right for amounts an i64 holds and 2^64 apart right after one of
  the unchecked bets that it does not hold; losses are claimed only where no such bet was made. Each game has an invariant of
  its own (`HiLoInv` ... `CrapsInv`), kept by its moves and closed to those of the
  others, since a session never changes its game; `GamesInv` is their disjunction.
  What each adds to the properties:
  * Roulette, Sic Bo and Baccarat: the layout is a bag of bets with positive counts (at Baccarat an
    amount per kind of bet), so that placing, replacing and imprisoning a bet changes the amount at stake by exactly what
    is charged or decided (sums over bags, from the lemmas on totals).
  * Craps: a bet that stays keeps its stake and its place among the others, what is gone and
    what is left make up what there was, a line bet has a target only while the point
    is on, and then that point, and a come bet that waits for its point has no odds.
  * Blackjack: hands after the active one are still being played, so that all are
    busted only when the last one is, and only the last can be a double that
    is not charged; hands and dealer together come from one shoe, also across a split, which
    moves a card to a new hand and deals two from what the shoe has left.
  * Three Card and Ultimate Hold'em: every part (hand, flop, turn and river, dealer, bonus)
    is dealt once and whole, from the cards in no other part.
  * Video Poker: `HandsAgree` is for any five of the 52 cards. Moving the ace from below to
    above is a bijection of the ranks, so groups of equal cards have the same sizes; five ranks
    that span five are those five, which settles the straights through the ace; and five
    cards hold at most two pairs, or one beside three of a kind, so that testing for exactly one or
    two pairs and for at least as many is the same.
* `TournamentProofs`: type correctness, `HouseBalances`, `PrizesAreIssued`,
  `NobodyLeftBehind` and `BoardsAreCurrent` for the whole casino. The invariant is a conjunction of groups of
  variables that change together (books, modifiers, limits, sessions, prizes, who is
  active), so that an action is shown to keep the groups it touches. `HouseBalances`
  needs that sessions belong to registered players; `PrizesAreIssued` that a tournament
  has no prize before it starts, and that shares rounded down add up to at most the
  prize: winners have distinct ranks, and the weights of distinct ranks are among those in the
  divisor. `BoardsAreCurrent` has an invariant of its own on top (`BInv`): an update,
  wherever its search ends, leaves a board that is sorted, has one entry per player and
  keeps only entries of others; every operation that changes a stack shows it on
  the board it counts on; and a game of a tournament is always played by one of its players,
  so that a stack which changes under another tournament's board is one that the
  property excuses.
* `SubmissionProofs`: `ProposedAreValid` and the action property `RecordsAreKept`. The
  first needs that, while a proposal is under way, the notarized chain stays a prefix
  of the ancestry the proposal was asked for on (blocks are abandoned, none is added), so
  that applying the part of the ancestry above the executed height to the state of
  now gives what the whole ancestry gives, however far execution has come. The second
  needs that a round of resubmission holds only accepted transactions, that no other
  record takes the place of one it holds, and that every update on its way is of
  a nonce the executed chain is past.
* `DataTheorems`: the lemmas about data. A sum of naturals is the cardinality of a set
  of numbered coins, one per unit, so that the library's cardinality theorems say what adding
  to or taking from one entry does to a total, and that renaming, padding with zeros or
  splitting its entries does not change it. Induction over an interval is by its least
  counterexample (`InductionTo`), over sets, since the library's induction theorems
  take an operator that the provers cannot instantiate. A function defined by recursion over an
  interval exists and follows its steps (`RecursionExists`, `RecursionFollows`), and two
  that take the same steps agree (`RunsAgree`): this is how blocks, chains and shares,
  which are recursive functions, are reasoned about. The rest is about the gaps and runs of
  `Ordinal`.

Only model-checked: every liveness property, since fairness and ENABLED are out of the
prover's reach (`EveryoneGetsAChance`, `FinalizedIsRecorded`, `SummariesAreIndexed`,
`GetsAreAnswered`, `SeedsAreIndexed`, `DueAreExecuted`, `HeightsAreServed`);
`HouseEdge`, whose sums of payouts over 37, 36 and 216 outcomes would have to be unfolded
term by term; and that the square root's iteration computes the square root.

## 5. Not modelled

Consensus, marshal, the aggregation engine, broadcast, resolver and storage are
libraries outside this repository and appear as the environment of the actors.
Signatures, hashes, encodings and Merkle proofs are abstracted to the values they
stand for; of the codecs only the limits they enforce are modelled. Metrics, logging,
pruning of the state store, configuration, the passkey and explorer read
routes of the simulator, the WASM bindings and the user interface carry no
invariants of the kind checked here. Functions of `super_mode.rs` that nothing
calls are left out. Of the games, multipliers on elements outside
`AuraIds` are beyond the bounds, and what follows a credited bet is not modelled. One account stands for all in `Submission`, since accounts share only the
room in a block, which is chosen freely.

## 6. Plan

Done, in this order: the path of a block (Mempool, BlockExecution), the publishing
actors (Seeder, Aggregator), money (Liquidity, Staking), the casino (Casino,
Tournament), the abstract pool and its refinement (TransactionPool), the games
(SuperMode, Table, Games), submission (NonceManager, Proposer, Submission), the
Simulator.

Proved since: everything in section 4.

Left to prove: `HouseEdge`, bet by bet.
Further modelling: an abstract ledger that `BlockExecution` implements; several
accounts and forks in `Proposer`.
