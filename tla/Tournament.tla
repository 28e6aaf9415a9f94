------------------------------- MODULE Tournament ------------------------------
(***************************************************************************)
(* Tournaments, and the casino as a whole: the tournament handlers of      *)
(* execution/src/layer/handlers/casino.rs beside those of Casino.          *)
(*                                                                         *)
(* A tournament gives its players a stack of their own; its prize is new   *)
(* money, issued at the start and credited to the cash of the best at the  *)
(* end.  Anyone may start and end a tournament.  The shares of the prize   *)
(* are computed exactly where the code uses f64.                           *)
(***************************************************************************)
EXTENDS Casino

CONSTANTS
    StartingChips,      \* STARTING_CHIPS of a tournament
    MaxPerDay,          \* 5 tournaments per player and day
    PerGame,            \* per_game_emission
    RewardPool,         \* reward_pool_cap
    WinnersPercent      \* 15

ASSUME TournamentAssumption ==
    /\ StartingChips \in Nat /\ MaxPerDay \in Nat
    /\ PerGame \in Nat /\ RewardPool \in Nat /\ WinnersPercent \in 0 .. 100

\* The next block with a transaction is on the next day.
NextDay ==
    /\ day < MaxDay
    /\ day' = day + 1
    /\ UNCHANGED <<registered, chips, tchips, pools, on, aura, active, lastClaim, lastPlayed,
                   played, sessions, boards, tournament, netPnl, jackpot, granted, paid>>

MembersOf(t) == {members[t][i] : i \in DOMAIN members[t]}

CasinoJoinTournament(p, t) ==
    /\ p \in registered
    /\ phase[t] \in {None, "registration"}
    /\ p \notin MembersOf(t)
    /\ LET today == IF day > lastPlayed[p] THEN 0 ELSE played[p]
       IN  /\ today < MaxPerDay
           /\ played' = [played EXCEPT ![p] = today + 1]
    /\ lastPlayed' = [lastPlayed EXCEPT ![p] = day]
    /\ active' = [active EXCEPT ![p] = t]
    /\ phase' = [phase EXCEPT ![t] = "registration"]
    /\ members' = [members EXCEPT ![t] = Append(@, p)]
    /\ UNCHANGED <<day, lastClaim, registered, chips, tchips, pools, on, aura, sessions,
                   boards, prize, issuance, netPnl, jackpot, granted, paid>>

----------------------------------------------------------------------------
\* The prize: what the emission allows, while the reward pool lasts.
Emission == IF PerGame <= RewardPool - issuance THEN PerGame ELSE RewardPool - issuance

\* The boards that may result from entering the players ps in turn.
FreshBoards(ps) ==
    LET after[n \in 0 .. Len(ps)] ==
          IF n = 0 THEN {<<>>}
          ELSE IF ps[n] \notin registered THEN after[n - 1]
          ELSE UNION {Updated(b, ps[n], StartingChips) : b \in after[n - 1]}
    IN  after[Len(ps)]

\* A pool of modifiers is set for the players ps.
SetPool(f, ps, n) ==
    [p \in Players |-> IF p \in ps THEN [f[p] EXCEPT !["tournament"] = n] ELSE f[p]]

\* What starting t does, with the players ps.
Begin(t, ps) ==
    LET in == registered \cap {ps[i] : i \in DOMAIN ps}
    IN  /\ members' = [members EXCEPT ![t] = ps]
        /\ phase' = [phase EXCEPT ![t] = "active"]
        /\ prize' = [prize EXCEPT ![t] = Emission]
        /\ issuance' = issuance + Emission
        /\ tchips' = [p \in Players |-> IF p \in in THEN StartingChips ELSE tchips[p]]
        /\ shields' = SetPool(shields, in, StartingPool)
        /\ doubles' = SetPool(doubles, in, StartingPool)
        /\ active' = [p \in Players |-> IF p \in in THEN t ELSE active[p]]
        /\ on' = [p \in Players |-> IF p \in in THEN {} ELSE on[p]]
        /\ aura' = [p \in Players |-> IF p \in in THEN 0 ELSE aura[p]]
        /\ \E b \in FreshBoards(ps) : boards' = [boards EXCEPT ![t] = b]
        /\ UNCHANGED <<limits, registered, chips, sessions, netPnl, jackpot, granted, paid>>

\* Mutant: a tournament that is active is started again.
CasinoStartTournamentAgain(p, t) ==
    /\ phase[t] # "complete"
    /\ Begin(t, IF phase[t] = None THEN <<p>> ELSE members[t])

\* One that nobody joined is created with the player who starts it, who need
\* not be registered.
CasinoStartTournament(p, t) ==
    /\ phase[t] \in {None, "registration"}
    /\ Begin(t, IF phase[t] = None THEN <<p>> ELSE members[t])

----------------------------------------------------------------------------
\* The rank of a registered member: by stack, then by order of joining.
Rank(t, i) ==
    LET beats(j) == LET c == tchips[members[t][j]] d == tchips[members[t][i]]
                    IN  c > d \/ (c = d /\ j < i)
    IN  1 + Cardinality({j \in DOMAIN members[t] : members[t][j] \in registered /\ beats(j)})

\* How many of n win.
NumWinners(n) ==
    LET c == (n * WinnersPercent + 99) \div 100
    IN  IF n = 0 THEN 0 ELSE IF c = 0 THEN 1 ELSE c

\* The share of rank r among k winners: 1/r, over the sum of all weights.
Share(pool, k, r) ==
    LET fact[n \in 0 .. k] == IF n = 0 THEN 1 ELSE n * fact[n - 1]
        sum[n \in 0 .. k] == IF n = 0 THEN 0 ELSE fact[k] \div n + sum[n - 1]
    IN  (pool * (fact[k] \div r)) \div sum[k]

Prizes(t) ==
    LET ranked == {i \in DOMAIN members[t] : members[t][i] \in registered}
        k == NumWinners(Cardinality(ranked))
        won(p) == {i \in ranked : members[t][i] = p /\ Rank(t, i) <= k}
    IN  [p \in Players |->
           IF won(p) = {} THEN 0
           ELSE Share(prize[t], k, Rank(t, CHOOSE i \in won(p) : TRUE))]

\* Mutant: only the winners leave the tournament.
LeaversWinners(t) == {p \in registered \cap MembersOf(t) : active[p] = t /\ Prizes(t)[p] > 0}

\* Members who have since joined another tournament keep what they have.
Leavers(t) == {p \in registered \cap MembersOf(t) : active[p] = t}

\* The casino's board is not updated for the prizes.
CasinoEndTournament(t) ==
    /\ phase[t] = "active"
    /\ chips' = [p \in Players |-> chips[p] + Prizes(t)[p]]
    /\ granted' = granted + Total(Prizes(t))
    /\ paid' = paid + Total(Prizes(t))
    /\ LET out == Leavers(t)
       IN  /\ active' = [p \in Players |-> IF p \in out THEN None ELSE active[p]]
           /\ tchips' = [p \in Players |-> IF p \in out THEN 0 ELSE tchips[p]]
           /\ shields' = SetPool(shields, out, 0)
           /\ doubles' = SetPool(doubles, out, 0)
           /\ on' = [p \in Players |-> IF p \in out THEN {} ELSE on[p]]
    /\ phase' = [phase EXCEPT ![t] = "complete"]
    /\ UNCHANGED <<limits, registered, aura, sessions, boards, members, prize, issuance,
                   netPnl, jackpot>>

Next ==
    \/ \E p \in Players : PlayerStep(p)
    \/ \E p \in Players, t \in Tournaments : \/ CasinoJoinTournament(p, t)
                                             \/ CasinoStartTournament(p, t)
    \/ \E t \in Tournaments : CasinoEndTournament(t)
    \/ NextDay

Spec == Init /\ [][Next]_vars

----------------------------------------------------------------------------
Pools == [Players -> [Stacks -> 0 .. StartingPool]]
Sessions == [player : Players, game : Games, bet : Bets, super : BOOLEAN,
             tournament : Tournaments \cup {None}, complete : BOOLEAN]

TypeOK ==
    /\ day \in 0 .. MaxDay /\ registered \subseteq Players
    /\ chips \in [Players -> Nat] /\ tchips \in [Players -> Nat]
    /\ shields \in Pools /\ doubles \in Pools
    /\ on \in [Players -> SUBSET Modifiers] /\ aura \in [Players -> 0 .. AuraMax]
    /\ active \in [Players -> Tournaments \cup {None}]
    /\ lastPlayed \in [Players -> 0 .. MaxDay] /\ played \in [Players -> 0 .. MaxPerDay]
    /\ lastClaim \in [Players -> Never .. MaxDay]
    /\ \A i \in Ids : sessions[i] = NoSession \/ sessions[i] \in Sessions
    /\ phase \in [Tournaments -> {None, "registration", "active", "complete"}]
    /\ prize \in [Tournaments -> Nat]
    /\ netPnl \in Int /\ jackpot \in [Progressive -> Nat]
    /\ issuance \in Nat /\ granted \in Nat /\ paid \in Nat

\* The house's books balance: what cash players hold and what the house has
\* won is what was ever granted, whatever games return, with every fee,
\* double, shield and jackpot, and whatever tournaments run beside them.
HouseBalances == Total(chips) + netPnl = granted

\* Prizes are paid out of what was issued: every tournament's prize is issued
\* once, the reward pool bounds them all, and no more is paid than the prizes
\* of the tournaments that are over.
PrizesAreIssued ==
    /\ issuance = Total(prize)
    /\ issuance <= RewardPool
    /\ paid <= Total([t \in Tournaments |-> IF phase[t] = "complete" THEN prize[t] ELSE 0])

\* Nobody is left in a tournament that is over, or plays in one without being
\* among its players, although players join, start and end tournaments while
\* they are in others.
NobodyLeftBehind ==
    \A p \in Players : active[p] # None =>
        /\ p \in MembersOf(active[p])
        /\ phase[active[p]] \in {"registration", "active"}

\* A board is sorted, has one entry per player, and shows what its players have:
\* in an active tournament, those who were in no other that has started, and in
\* the casino, those who were in no tournament that is over (prizes do not reach
\* the casino's board).
BoardsAreCurrent ==
    /\ \A t \in Tournaments \cup {None} : IsBoard(boards[t])
    /\ \A t \in Tournaments : phase[t] = "active" =>
         \A i \in DOMAIN boards[t] :
            LET e == boards[t][i]
                elsewhere == {u \in Tournaments \ {t} : /\ e.player \in MembersOf(u)
                                                        /\ phase[u] # "registration"}
            IN  elsewhere = {} => e.chips = tchips[e.player]
    /\ \A i \in DOMAIN boards[None] :
         LET e == boards[None][i]
         IN  (\A t \in Tournaments : phase[t] = "complete" => e.player \notin MembersOf(t))
               => e.chips = chips[e.player]

================================================================================
