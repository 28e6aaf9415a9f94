--------------------------------- MODULE Craps ---------------------------------
(***************************************************************************)
(* Craps, execution/src/casino/craps.rs: bets are placed between rolls and *)
(* each is decided by its own rules, while a point is established, made or *)
(* lost; the game is over when a roll leaves no bet.                       *)
(*                                                                         *)
(* No payload changes the field paytable or the time of the commission, so *)
(* that the defaults hold: twelve pays double, and a buy bet is charged    *)
(* its commission when it is placed.                                       *)
(***************************************************************************)
EXTENDS Table

CONSTANTS
    CrapsRolls,     \* the rolls of the model, two digits each
    CrapsTargets,   \* the targets bets are placed on
    CrapsTypes,     \* the bets of the model
    MaxOdds         \* bound of the model: odds an i64 holds

ASSUME CrapsAssumption ==
    /\ CrapsRolls \subseteq Nat /\ CrapsTargets \subseteq 2 .. 12 /\ MaxOdds \in Nat

Line == {"Pass", "DontPass"}
Contract == Line \cup {"Come", "DontCome"}
Ats == {"AtsSmall", "AtsTall", "AtsAll"}
Hardways == {"Hardway4", "Hardway6", "Hardway8", "Hardway10"}
Points == {4, 5, 6, 8, 9, 10}
Targeted == {"Yes", "No", "Buy", "Next"}
Ways(total) == Cardinality({roll \in (1 .. 6) \X (1 .. 6) : roll[1] + roll[2] = total})

\* seen: the totals rolled since an ATS bet was placed, which the code keeps in
\* the bet's odds_amount.
CrapsBet(type, target, n) ==
    [type |-> type, target |-> target, amount |-> n, odds |-> 0, seen |-> {},
     status |-> IF type \in {"Come", "DontCome"} THEN "Pending" ELSE "On"]

----------------------------------------------------------------------------
\* calculate_odds_payout, which is also what calculate_yes_payout, _buy_payout and
\* _no_payout go by: true odds for and against a point.
OddsFor(point, n) ==
    CASE point \in {4, 10} -> 2 * n [] point \in {5, 9} -> (3 * n) \div 2
      [] point \in {6, 8} -> (6 * n) \div 5 [] OTHER -> 0
OddsAgainst(point, n) ==
    CASE point \in {4, 10} -> n \div 2 [] point \in {5, 9} -> (2 * n) \div 3
      [] point \in {6, 8} -> (5 * n) \div 6 [] OTHER -> 0
LessOnePercent(winnings) == winnings - winnings \div 100

NextPays(ways) == <<35, 17, 11, 8, 6, 5>>[ways]
BuyCommission(n) == (n * 500 + 9999) \div 10000
AtsRequires(type) ==
    CASE type = "AtsSmall" -> 2 .. 6 [] type = "AtsTall" -> 8 .. 12
      [] type = "AtsAll" -> (2 .. 12) \ {7}
AtsPays(type) == IF type = "AtsAll" THEN 175 ELSE 34
FirePays(points) == CASE points = 4 -> 24 [] points = 5 -> 249 [] points = 6 -> 999 [] OTHER -> 0
HardTarget(type) ==
    CASE type = "Hardway4" -> 4 [] type = "Hardway6" -> 6
      [] type = "Hardway8" -> 8 [] type = "Hardway10" -> 10

\* What a bet has cost.
CrapsStake(b) == b.amount + b.odds + (IF b.type = "Buy" THEN BuyCommission(b.amount) ELSE 0)

\* A roll leaves a bet on the table, or settles it and returns so much.
Stays == [settled |-> FALSE, returns |-> 0]
Returns(n) == [settled |-> TRUE, returns |-> n]
Loses == Returns(0)

----------------------------------------------------------------------------
\* Pass, DontPass, Come and DontCome: a first roll, then the point against seven.
\* A line bet goes by the table's point, a come bet by its own.
ContractVerdict(b, total) ==
    LET first == IF b.type \in Line THEN state.phase = "ComeOut" ELSE b.status = "Pending"
        right == b.type \in {"Pass", "Come"}
        point == IF b.type \in Line THEN state.point ELSE b.target
        odds == IF right THEN OddsFor(b.target, b.odds) ELSE OddsAgainst(b.target, b.odds)
        back == IF b.target > 0 THEN b.odds + odds ELSE 0
    IN  CASE first /\ total \in (IF right THEN {7, 11} ELSE {2, 3}) -> Returns(2 * b.amount)
          [] first /\ total \in (IF right THEN {2, 3, 12} ELSE {7, 11}) -> Loses
          [] first /\ total = 12 /\ ~right -> Returns(b.amount)
          [] ~first /\ total = (IF right THEN point ELSE 7) -> Returns(2 * b.amount + back)
          [] ~first /\ total = (IF right THEN 7 ELSE point) -> Loses
          [] OTHER -> Stays

\* update_phase: the seven that ends the shooter's epoch.
SevenOut(total) == state.phase = "Point" /\ total = 7

\* A bet on one roll: the field, or the next total.
FieldReturn(total, n) ==
    CASE total \in {2, 12} -> 3 * n [] total \in {3, 4, 9, 10, 11} -> 2 * n [] OTHER -> 0
NextReturn(b, total) ==
    IF total = b.target THEN b.amount + LessOnePercent(b.amount * NextPays(Ways(total))) ELSE 0

\* A pair against seven and against the other ways to its total.
HardwayVerdict(b, d1, d2) ==
    LET target == HardTarget(b.type)
    IN  CASE d1 = d2 /\ d1 + d2 = target ->
               Returns(b.amount + b.amount * (IF target \in {4, 10} THEN 7 ELSE 9))
          [] d1 # d2 /\ d1 + d2 = target -> Loses
          [] d1 + d2 = 7 -> Loses
          [] OTHER -> Stays

\* A point number against seven, or seven against it.
NumberVerdict(b, total) ==
    LET won == IF b.type = "No" THEN OddsAgainst(b.target, b.amount) ELSE OddsFor(b.target, b.amount)
        after == IF b.type = "Buy" THEN won ELSE LessOnePercent(won)
    IN  CASE total = (IF b.type = "No" THEN 7 ELSE b.target) -> Returns(b.amount + after)
          [] total = (IF b.type = "No" THEN b.target ELSE 7) -> Loses
          [] OTHER -> Stays

\* All small, tall or other totals before the shooter sevens out.
AtsVerdict(b, total) ==
    CASE SevenOut(total) -> Loses
      [] total # 7 /\ AtsRequires(b.type) \subseteq b.seen \cup {total} ->
           Returns(b.amount * (AtsPays(b.type) + 1))
      [] OTHER -> Stays

\* As many different points as can be made before the shooter sevens out.
FireVerdict(b, total) ==
    LET pays == FirePays(Cardinality(state.made))
    IN  IF SevenOut(total) THEN Returns(IF pays = 0 THEN 0 ELSE b.amount * (pays + 1)) ELSE Stays

\* process_roll, bet by bet
Verdict(b, d1, d2) ==
    LET total == d1 + d2
    IN  CASE b.type \in Contract -> ContractVerdict(b, total)
          [] b.type = "Field" -> Returns(FieldReturn(total, b.amount))
          [] b.type = "Next" -> Returns(NextReturn(b, total))
          [] b.type \in Hardways -> HardwayVerdict(b, d1, d2)
          [] b.type \in {"Yes", "No", "Buy"} -> NumberVerdict(b, total)
          [] b.type \in Ats -> AtsVerdict(b, total)
          [] b.type = "Fire" -> FireVerdict(b, total)

\* Mutant: a line bet follows every point number that is rolled.
MovedEveryRoll(b, total) ==
    CASE b.type \in Ats -> [b EXCEPT !.seen = IF total = 7 THEN @ ELSE @ \cup {total}]
      [] b.status = "Pending" -> [b EXCEPT !.target = total, !.status = "On"]
      [] b.type \in Line /\ total \in Points -> [b EXCEPT !.target = total]
      [] OTHER -> b

\* What a roll changes in the bets that stay.
Moved(b, total) ==
    LET established == state.phase = "ComeOut" /\ total \in Points
    IN  CASE b.type \in Ats -> [b EXCEPT !.seen = IF total = 7 THEN @ ELSE @ \cup {total}]
          [] b.status = "Pending" -> [b EXCEPT !.target = total, !.status = "On"]
          [] b.type \in Line /\ established -> [b EXCEPT !.target = total]
          [] OTHER -> b

----------------------------------------------------------------------------
\* What from_blob reads back.
CrapsReadable(s) ==
    /\ s.phase \in {"ComeOut", "Point"}
    /\ Len(s.bets) <= MaxBets
    /\ \A i \in DOMAIN s.bets :
         /\ s.bets[i].status \in {"On", "Pending"}
         /\ s.bets[i].amount \in Nat /\ s.bets[i].odds \in Nat

\* last: what the dice, kept in d1 and d2, are asked for.
CrapsInit ==
    StartsEmpty("Craps", [phase |-> "ComeOut", point |-> 0, last |-> "none", made |-> {},
                          established |-> FALSE, bets |-> <<>>])

\* The timing rules.
CrapsMayPlace(type) ==
    /\ type \in {"Come", "DontCome"} => state.phase = "Point"
    /\ type = "Fire" => /\ state.last = "none"
                        /\ \A i \in DOMAIN state.bets : state.bets[i].type # "Fire"
    /\ type \in Ats => /\ ~state.established
                       /\ state.last \in {"none", "seven"}

CrapsPlace(type, target, n) ==
    /\ IsOpen("Craps")
    /\ Len(state.bets) < MaxBets
    /\ target \in (CASE type = "Next" -> CrapsTargets
                     [] type \in Targeted \ {"Next"} -> CrapsTargets \cap Points
                     [] OTHER -> {0})
    /\ CrapsMayPlace(type)
    /\ LET b == CrapsBet(type, target, n)
       IN  /\ CrapsStake(b) < I64Range
           /\ Bets([state EXCEPT !.bets = Append(@, b)], CrapsStake(b))

\* Odds go to the last contract bet that is on, if it has a point.
CrapsOdds(n) ==
    /\ IsOpen("Craps")
    /\ LET on == {i \in DOMAIN state.bets :
                    state.bets[i].type \in Contract /\ state.bets[i].status = "On"}
       IN  /\ on # {}
           /\ state.bets[Max(on)].target \in Points
           /\ n < I64Range => state.bets[Max(on)].odds + n <= MaxOdds
           /\ BetsUnchecked([state EXCEPT !.bets[Max(on)].odds = @ + n], n)

\* What all bets have cost.
CrapsWagered(bets) == Total([i \in DOMAIN bets |-> CrapsStake(bets[i])])

\* The bets at the given positions, in their order.
Nth(positions, k) == CHOOSE i \in positions : Cardinality({j \in positions : j <= i}) = k
Retained(bets, positions) == [k \in 1 .. Cardinality(positions) |-> bets[Nth(positions, k)]]

CrapsRoll(d1, d2) ==
    /\ IsOpen("Craps")
    /\ state.bets # <<>>
    /\ LET total == d1 + d2
           verdict == [i \in DOMAIN state.bets |-> Verdict(state.bets[i], d1, d2)]
           gone == {i \in DOMAIN state.bets : verdict[i].settled}
           left == Retained(state.bets, DOMAIN state.bets \ gone)
           returned == Sum([i \in gone |-> verdict[i].returns])
           stakes == [i \in gone |-> CrapsStake(state.bets[i])]
           lost == [i \in gone |-> IF verdict[i].returns = 0 THEN stakes[i] ELSE 0]
           made == state.phase = "Point" /\ total = state.point
           set == state.phase = "ComeOut" /\ total \in Points
           after == [phase |-> IF set THEN "Point"
                               ELSE IF made \/ SevenOut(total) THEN "ComeOut" ELSE state.phase,
                     point |-> IF set THEN total
                               ELSE IF made \/ SevenOut(total) THEN 0 ELSE state.point,
                     last |-> IF total = 7 THEN "seven" ELSE "other",
                     made |-> IF made THEN state.made \cup {total} ELSE state.made,
                     established |-> set \/ (state.established /\ ~SevenOut(total)),
                     bets |-> [i \in DOMAIN left |-> Moved(left[i], total)]]
       IN  IF left # <<>> THEN Pays(after, Total(stakes), returned)
           ELSE IF returned > 0 THEN Ends(after, "Win", BoostedBy("Total", total, returned))
           ELSE Ends(after, "LossPreDeducted", Total(lost))

CrapsClear ==
    /\ IsOpen("Craps")
    /\ state.last = "none"
    /\ Pays([state EXCEPT !.bets = <<>>], CrapsWagered(state.bets), 0)

CrapsNext ==
    \/ \E type \in CrapsTypes, target \in CrapsTargets \cup {0}, n \in Payloads :
         CrapsPlace(type, target, n)
    \/ \E n \in Payloads : CrapsOdds(n)
    \/ \E d1, d2 \in RollDie : 10 * d1 + d2 \in CrapsRolls /\ CrapsRoll(d1, d2)
    \/ CrapsClear

================================================================================
