---------------------------- MODULE PaperRunsProofs ----------------------------
(***************************************************************************)
(* For every set of markets, every bankroll, all fees, thresholds, books,  *)
(* evaluations and caps: the runs on the paper book keep its types, keep   *)
(* one resting exit for exactly the shares an exit has left, and never     *)
(* rest a model-driven exit on a position that rides to resolution; cash   *)
(* never goes negative, entries of a scan stay within the caps, the ledger *)
(* explains the book, every save is a step of the abstract account, and    *)
(* cash and cost basis add up to the bankroll and the realized gains.      *)
(*                                                                         *)
(* First what the operations of PaperPolicy and PaperPortfolio return,     *)
(* then the runs built from them, then the account they implement.         *)
(***************************************************************************)
EXTENDS PaperRuns, FiniteSums, SequenceTheorems

USE PolicyAssumption DEF PolicyAssumption

\* The exits of a book in order: at most one resting exit per position, which is
\* for all the shares the position has left, and none without a position.
OneExit(b) == \A p \in PosIds :
                 /\ Len(b.limits[p]) <= 1
                 /\ b.limits[p] # <<>> => /\ b.limits[p][1].shares = b.pos[p].shares
                                          /\ b.pos[p].shares > 0

\* A position that rides to resolution has no exit but a stop-loss.
Kept(b) == \A p \in PosIds :
              b.pos[p].satHold =>
                  \A i \in DOMAIN b.limits[p] : b.limits[p][i].reason = "stop_loss"

GoodBook(b) == b \in Portfolio /\ OneExit(b) /\ Kept(b)
-----------------------------------------------------------------------------
(* Numbers.                                                                  *)

\* A product of naturals is a natural (every notional and fee).
LEMMA ProductNat == ASSUME NEW a \in Nat, NEW b \in Nat PROVE a * b \in Nat
  OBVIOUS

\* A fee per share is a natural (feeUsd).
LEMMA FeeNat ==
    ASSUME NEW price \in Int, NEW bps \in Nat
    PROVE  PerShareFee(price, bps) \in Nat
<1>1. CASE price \in 1..(One - 1)
  <2>1. Min2(price, One - price) \in Nat
    BY <1>1 DEF Min2
  <2>2. bps * Min2(price, One - price) \in Nat
    BY <2>1, ProductNat
  <2>3. QED
    BY <1>1, <2>2 DEF PerShareFee
<1>2. CASE price \notin 1..(One - 1)
  BY <1>2 DEF PerShareFee
<1>3. QED
  BY <1>1, <1>2

\* A percentage of a number of shares is a part of them (planHybridExit).
LEMMA PercentOf ==
    ASSUME NEW n \in Nat, NEW pct \in 0..100
    PROVE  (n * pct) \div 100 \in 0..n
<1>1. n * pct \in Nat
  BY ProductNat
<1>2. n * pct <= n * 100
  OBVIOUS
<1>3. QED
  BY <1>1, <1>2

\* Probabilities of a side are probabilities.
LEMMA ProbOK ==
    ASSUME NEW eval, eval.probYes \in Prob, NEW side \in Side
    PROVE  ProbFor(eval, side) \in Prob
  BY DEF ProbFor, Prob

\* The price of a resting exit is a price, and below one dollar (planHybridExit).
LEMMA LimitPriceOK ==
    ASSUME NEW prob \in Prob, NEW book \in Book
    PROVE  LimitPrice(prob, book) \in 0..(One - 1)
<1> DEFINE bid == IF book.bid = 0 THEN 1 ELSE book.bid
           ask == IF book.ask = One THEN One - 1 ELSE book.ask
           insideAsk == Max2(bid + 1, ask - 1)
           raw == Max2(prob, Max2(Min2(insideAsk, One - 1), bid + 1))
<1>1. bid \in Nat \ {0} /\ ask \in Int /\ prob \in Int
  BY DEF Book, Prob
<1>2. insideAsk \in Int
  BY <1>1 DEF Max2
<1>3. raw \in Int
  BY <1>1, <1>2 DEF Max2, Min2
<1>4. Max2(bid + 1, raw) \in Nat
  <2> HIDE DEF raw, bid
  <2> QED
    BY <1>1, <1>3 DEF Max2
<1>5. Min2(One - 1, Max2(bid + 1, raw)) \in 0..(One - 1)
  <2> HIDE DEF raw, bid
  <2> QED
    BY <1>4 DEF Min2
<1>6. QED
  BY <1>5 DEF LimitPrice

\* What is executed after an evaluation: a saturated hold is a hold.
LEMMA DecisionOK ==
    ASSUME NEW eval, NEW entry, NEW side, NEW book
    PROVE  LET d == FinalDecision(eval, entry, side, book) IN
           /\ d.reason \in ExitReason \cup {"hold"}
           /\ d.saturatedHold \in BOOLEAN
           /\ d.saturatedHold => d.reason = "hold"
<1> DEFINE raw == ExitDecision(ProbFor(eval, side), entry, book)
           kept == IF eval.contaminated /\ raw = "negative_edge" THEN "hold" ELSE raw
           veto == SaturatedHold(kept, eval.saturatedAt, side, book)
<1>1. raw \in ExitReason \cup {"hold"}
  BY DEF ExitDecision, ExitReason
<1>2. kept \in ExitReason \cup {"hold"}
  BY <1>1
<1>3. veto \in BOOLEAN
  BY DEF SaturatedHold
<1>4. FinalDecision(eval, entry, side, book)
        = [reason |-> IF veto THEN "hold" ELSE kept, saturatedHold |-> veto]
  BY DEF FinalDecision
<1>5. QED
  <2> HIDE DEF kept, veto
  <2> QED
    BY <1>2, <1>3, <1>4
-----------------------------------------------------------------------------
(* Sales.                                                                    *)

\* The parts of a portfolio can be replaced one by one.
LEMMA PartsOK ==
    ASSUME NEW b \in Portfolio, NEW c \in Int, NEW d \in Int,
           NEW P \in [PosIds -> Position], NEW L \in [PosIds -> Seq(Limit)]
    PROVE  /\ [b EXCEPT !.cash = c, !.realized = d] \in Portfolio
           /\ [b EXCEPT !.pos = P] \in Portfolio
           /\ [b EXCEPT !.limits = L] \in Portfolio
  BY DEF Portfolio

\* A flat position is a position.
LEMMA FlatOK == Flat \in Position
<1>1. 0 \in Price
  BY DEF Price
<1>2. QED
  BY <1>1 DEF Flat, Position

\* So is a position with other shares.
LEMMA ChangedShares ==
    ASSUME NEW x \in Position, NEW n \in Nat
    PROVE  /\ [x EXCEPT !.shares = n] \in Position
           /\ [x EXCEPT !.shares = n].shares = n
           /\ [x EXCEPT !.shares = n].satHold = x.satHold
  BY DEF Position

\* So is one with another flag.
LEMMA ChangedFlag ==
    ASSUME NEW x \in Position, NEW h \in BOOLEAN
    PROVE  /\ [x EXCEPT !.satHold = h] \in Position
           /\ [x EXCEPT !.satHold = h].shares = x.shares
           /\ [x EXCEPT !.satHold = h].satHold = h
  BY DEF Position

\* A sale touches one position only, takes exactly its shares, and drops the
\* resting exits exactly when it takes the last one (applySell).
LEMMA SellFacts ==
    ASSUME NEW b \in Portfolio, NEW p \in PosIds,
           NEW n \in 0..b.pos[p].shares, NEW proceeds \in Int
    PROVE  LET r == ApplySell(b, p, n, proceeds) IN
           /\ r \in Portfolio
           /\ \A q \in PosIds \ {p} : r.pos[q] = b.pos[q] /\ r.limits[q] = b.limits[q]
           /\ r.pos[p].shares = b.pos[p].shares - n
           /\ r.pos[p].satHold => b.pos[p].satHold
           /\ r.limits[p] = IF n > 0 /\ n = b.pos[p].shares THEN <<>> ELSE b.limits[p]
<1> DEFINE x == b.pos[p]
           left == x.shares - n
           booked == [b EXCEPT !.cash = @ + proceeds,
                               !.realized = @ + proceeds - n * Cost(x)]
<1>1. x \in Position /\ b.limits \in [PosIds -> Seq(Limit)] /\ b.pos \in [PosIds -> Position]
  BY DEF Portfolio
<1>2. x.shares \in Nat /\ left \in Nat /\ n \in Nat
  BY <1>1 DEF Position
<1>3. n * Cost(x) \in Int
  <2>1. Cost(x) \in Nat
    BY <1>1 DEF Cost, Position, Price
  <2>2. QED
    BY <1>2, <2>1, ProductNat
<1>4. /\ booked \in Portfolio
      /\ booked.pos = b.pos /\ booked.limits = b.limits
  <2>1. b.cash + proceeds \in Int
    BY DEF Portfolio
  <2>2. b.realized + proceeds - n * Cost(x) \in Int
    <3> HIDE DEF x
    <3> QED
      BY <1>3 DEF Portfolio
  <2>3. booked \in Portfolio
    BY <1>1, <2>1, <2>2, PartsOK
  <2>4. QED
    BY <2>3 DEF Portfolio
<1>5. CASE n = 0
  BY <1>1, <1>2, <1>5 DEF ApplySell
<1>6. CASE n > 0 /\ left > 0
  <2> DEFINE r == [booked EXCEPT !.pos[p].shares = left]
  <2>1. ApplySell(b, p, n, proceeds) = r
    BY <1>6 DEF ApplySell
  <2>2. r.pos = [b.pos EXCEPT ![p].shares = left] /\ r.limits = b.limits
    BY <1>4 DEF Portfolio
  <2>3. r.pos \in [PosIds -> Position] /\ r.pos[p].shares = left
           /\ r.pos[p].satHold = b.pos[p].satHold
    <3>1. /\ [b.pos[p] EXCEPT !.shares = left] \in Position
          /\ [b.pos[p] EXCEPT !.shares = left].shares = left
          /\ [b.pos[p] EXCEPT !.shares = left].satHold = b.pos[p].satHold
      <4> HIDE DEF left
      <4> QED
        BY <1>1, <1>2, ChangedShares
    <3> HIDE DEF r, left
    <3>2. r.pos = [b.pos EXCEPT ![p] = [b.pos[p] EXCEPT !.shares = left]]
      BY <2>2
    <3>3. QED
      BY <1>1, <3>1, <3>2
  <2>4. r \in Portfolio
    <3>1. r = [booked EXCEPT !.pos = [b.pos EXCEPT ![p].shares = left]]
      BY <1>4 DEF Portfolio
    <3>2. [b.pos EXCEPT ![p].shares = left] \in [PosIds -> Position]
      BY <2>2, <2>3
    <3>3. QED
      BY <1>4, <3>1, <3>2 DEF Portfolio
  <2>5. \A q \in PosIds \ {p} : r.pos[q] = b.pos[q]
    BY <1>1, <2>2
  <2>6. QED
    BY <1>2, <1>6, <2>1, <2>2, <2>3, <2>4, <2>5
<1>7. CASE n > 0 /\ left = 0
  <2> DEFINE flat == [booked EXCEPT !.pos[p] = Flat]
             r == DropLimits(flat, p)
  <2>1. ApplySell(b, p, n, proceeds) = r
    BY <1>2, <1>7 DEF ApplySell
  <2>2. r.pos = [b.pos EXCEPT ![p] = Flat] /\ r.limits = [b.limits EXCEPT ![p] = <<>>]
    BY <1>4 DEF Portfolio, DropLimits
  <2>3. Flat \in Position
    BY FlatOK
  <2>4. r.pos \in [PosIds -> Position] /\ r.limits \in [PosIds -> Seq(Limit)]
    <3> HIDE DEF r
    <3>1. <<>> \in Seq(Limit)
      OBVIOUS
    <3>2. QED
      BY <1>1, <2>2, <2>3, <3>1
  <2>5. r \in Portfolio
    <3>1. r = [[booked EXCEPT !.pos = r.pos] EXCEPT !.limits = r.limits]
      BY <1>4, <2>2 DEF Portfolio, DropLimits
    <3> HIDE DEF r
    <3>2. QED
      BY <1>4, <2>4, <3>1 DEF Portfolio
  <2>6. \A q \in PosIds \ {p} : r.pos[q] = b.pos[q] /\ r.limits[q] = b.limits[q]
    BY <1>1, <2>2
  <2>7. r.pos[p] = Flat /\ r.limits[p] = <<>>
    BY <1>1, <2>2
  <2>8. QED
    BY <1>2, <1>7, <2>1, <2>5, <2>6, <2>7, SMTT(30) DEF Flat
<1>8. QED
  BY <1>2, <1>5, <1>6, <1>7

\* A sale out of a position without a resting exit leaves a good book.
LEMMA SellGood ==
    ASSUME NEW b, GoodBook(b), NEW p \in PosIds, b.limits[p] = <<>>,
           NEW n \in 0..b.pos[p].shares, NEW proceeds \in Int
    PROVE  /\ GoodBook(ApplySell(b, p, n, proceeds))
           /\ ApplySell(b, p, n, proceeds).limits[p] = <<>>
<1> DEFINE r == ApplySell(b, p, n, proceeds)
<1>1. b \in Portfolio
  BY DEF GoodBook
<1>2. /\ r \in Portfolio
      /\ \A q \in PosIds \ {p} : r.pos[q] = b.pos[q] /\ r.limits[q] = b.limits[q]
      /\ r.limits[p] = <<>>
  BY <1>1, SellFacts
<1> HIDE DEF r
<1>3. OneExit(r)
  BY <1>2 DEF GoodBook, OneExit
<1>4. Kept(r)
  BY <1>2 DEF GoodBook, Kept
<1>5. QED
  BY <1>2, <1>3, <1>4 DEF GoodBook, r

\* Cancelling the resting exit of a position leaves a good book.
LEMMA DropGood ==
    ASSUME NEW b, GoodBook(b), NEW p \in PosIds
    PROVE  /\ GoodBook(DropLimits(b, p))
           /\ DropLimits(b, p).limits[p] = <<>>
           /\ DropLimits(b, p).pos = b.pos
<1> DEFINE r == DropLimits(b, p)
           L == [b.limits EXCEPT ![p] = <<>>]
<1>1. b \in Portfolio /\ b.limits \in [PosIds -> Seq(Limit)] /\ b.pos \in [PosIds -> Position]
  BY DEF GoodBook, Portfolio
<1>2. L \in [PosIds -> Seq(Limit)] /\ L[p] = <<>> /\ \A q \in PosIds \ {p} : L[q] = b.limits[q]
  BY <1>1
<1>3. r = [b EXCEPT !.limits = L] /\ r.limits = L /\ r.pos = b.pos
  BY <1>1 DEF DropLimits, Portfolio
<1> HIDE DEF r, L
<1>4. r \in Portfolio
  BY <1>1, <1>2, <1>3 DEF Portfolio
<1>5. OneExit(r)
  BY <1>2, <1>3 DEF GoodBook, OneExit
<1>6. Kept(r)
  BY <1>2, <1>3 DEF GoodBook, Kept
<1>7. QED
  BY <1>2, <1>3, <1>4, <1>5, <1>6 DEF GoodBook, r

\* Noting in a book that p rides to resolution, or no longer does: the former
\* needs that no exit rests on it.
LEMMA FlagGood ==
    ASSUME NEW b, GoodBook(b), NEW p \in PosIds, NEW h \in BOOLEAN,
           h => b.limits[p] = <<>>
    PROVE  LET r == [b EXCEPT !.pos[p].satHold = h] IN
           /\ GoodBook(r) /\ r.limits = b.limits
           /\ r.pos[p].satHold = h /\ r.pos[p].shares = b.pos[p].shares
<1> DEFINE x == [b.pos[p] EXCEPT !.satHold = h]
           P == [b.pos EXCEPT ![p] = x]
           r == [b EXCEPT !.pos[p].satHold = h]
<1>1. b \in Portfolio /\ b.limits \in [PosIds -> Seq(Limit)] /\ b.pos \in [PosIds -> Position]
  BY DEF GoodBook, Portfolio
<1>2. x \in Position /\ x.shares = b.pos[p].shares /\ x.satHold = h
  BY <1>1, ChangedFlag
<1>3. r = [b EXCEPT !.pos = P] /\ r.pos = P /\ r.limits = b.limits
  BY <1>1 DEF Portfolio
<1> HIDE DEF x
<1>4. P \in [PosIds -> Position] /\ P[p] = x /\ \A q \in PosIds \ {p} : P[q] = b.pos[q]
  BY <1>1, <1>2
<1> HIDE DEF P, r
<1>5. r \in Portfolio
  BY <1>1, <1>3, <1>4 DEF Portfolio
<1>6. OneExit(r)
  BY <1>2, <1>3, <1>4 DEF GoodBook, OneExit
<1>7. Kept(r)
  BY <1>2, <1>3, <1>4 DEF GoodBook, Kept
<1>8. QED
  BY <1>2, <1>3, <1>4, <1>5, <1>6, <1>7 DEF GoodBook, r

\* Opening a position that is not held (applyBuy).
LEMMA BuyGood ==
    ASSUME NEW b, GoodBook(b), NEW p \in PosIds, ~Held(b, p),
           NEW n \in Nat, NEW price \in Price, NEW fee \in Nat
    PROVE  GoodBook(ApplyBuy(b, p, n, price, fee))
<1> DEFINE x == [shares |-> n, price |-> price, fee |-> fee, satHold |-> FALSE]
           P == [b.pos EXCEPT ![p] = x]
           c == b.cash - n * (price + fee)
           r == ApplyBuy(b, p, n, price, fee)
<1>1. b \in Portfolio /\ b.limits \in [PosIds -> Seq(Limit)] /\ b.pos \in [PosIds -> Position]
  BY DEF GoodBook, Portfolio
<1>2. x \in Position /\ x.satHold = FALSE
  BY DEF Position
<1>3. c \in Int
  <2>1. price + fee \in Nat
    BY DEF Price
  <2>2. n * (price + fee) \in Nat
    BY <2>1, ProductNat
  <2>3. QED
    BY <1>1, <2>2 DEF Portfolio
<1>4. b.limits[p] = <<>>
  <2>1. b.pos[p].shares \in Nat
    BY <1>1 DEF Position
  <2>2. QED
    BY <2>1 DEF GoodBook, OneExit, Held
<1>5. r = [b EXCEPT !.cash = c, !.pos = P] /\ r.pos = P /\ r.limits = b.limits
  BY <1>1 DEF Portfolio, ApplyBuy
<1> HIDE DEF x, c
<1>6. P \in [PosIds -> Position] /\ P[p] = x /\ \A q \in PosIds \ {p} : P[q] = b.pos[q]
  BY <1>1, <1>2
<1> HIDE DEF P, r
<1>7. r \in Portfolio
  BY <1>1, <1>3, <1>5, <1>6 DEF Portfolio
<1>8. OneExit(r)
  BY <1>4, <1>5, <1>6 DEF GoodBook, OneExit
<1>9. Kept(r)
  BY <1>2, <1>5, <1>6 DEF GoodBook, Kept
<1>10. QED
  BY <1>7, <1>8, <1>9 DEF GoodBook, r

\* Settling a position drops it with its resting exit (applySettlement).
LEMMA SettleGood ==
    ASSUME NEW b, GoodBook(b), NEW p \in PosIds, NEW outcome \in {"yes", "no", "voided"}
    PROVE  GoodBook(ApplySettlement(b, p, outcome))
<1> DEFINE n == b.pos[p].shares
           pay == n * Payout(SideOf(p), outcome)
           r == ApplySell(b, p, n, pay)
<1>1. b \in Portfolio /\ b.limits \in [PosIds -> Seq(Limit)] /\ b.pos \in [PosIds -> Position]
  BY DEF GoodBook, Portfolio
<1>2. n \in Nat
  BY <1>1 DEF Position
<1>3. pay \in Int
  <2>1. Payout(SideOf(p), outcome) \in Nat
    BY DEF Payout
  <2> HIDE DEF n
  <2>2. QED
    BY <1>2, <2>1, ProductNat
<1>4. n = 0 => b.limits[p] = <<>>
  BY <1>2 DEF GoodBook, OneExit
<1>5. ApplySettlement(b, p, outcome) = r
  BY DEF ApplySettlement
<1>11. n \in 0..b.pos[p].shares
  BY <1>2
<1> HIDE DEF pay
<1>6. /\ r \in Portfolio
      /\ \A q \in PosIds \ {p} : r.pos[q] = b.pos[q] /\ r.limits[q] = b.limits[q]
      /\ r.limits[p] = IF n > 0 /\ n = b.pos[p].shares THEN <<>> ELSE b.limits[p]
  BY <1>1, <1>11, <1>3, SellFacts
<1>7. r.limits[p] = <<>>
  BY <1>2, <1>4, <1>6
<1> HIDE DEF r, n
<1>8. OneExit(r)
  BY <1>6, <1>7 DEF GoodBook, OneExit
<1>9. Kept(r)
  BY <1>6, <1>7 DEF GoodBook, Kept
<1>10. QED
  BY <1>5, <1>6, <1>8, <1>9 DEF GoodBook
-----------------------------------------------------------------------------
(* Exits.                                                                    *)

\* A book that is in order except, perhaps, at p.
GoodElsewhere(b, p) ==
    /\ b \in Portfolio
    /\ \A q \in PosIds \ {p} :
          /\ Len(b.limits[q]) <= 1
          /\ b.limits[q] # <<>> => /\ b.limits[q][1].shares = b.pos[q].shares
                                   /\ b.pos[q].shares > 0
          /\ b.pos[q].satHold =>
                \A i \in DOMAIN b.limits[q] : b.limits[q][i].reason = "stop_loss"

\* Selling from p disturbs the order at p only.
LEMMA SellElsewhere ==
    ASSUME NEW b, GoodBook(b), NEW p \in PosIds,
           NEW n \in 0..b.pos[p].shares, NEW proceeds \in Int
    PROVE  GoodElsewhere(ApplySell(b, p, n, proceeds), p)
<1> DEFINE r == ApplySell(b, p, n, proceeds)
<1>1. b \in Portfolio
  BY DEF GoodBook
<1>2. /\ r \in Portfolio
      /\ \A q \in PosIds \ {p} : r.pos[q] = b.pos[q] /\ r.limits[q] = b.limits[q]
  BY <1>1, SellFacts
<1> HIDE DEF r
<1>3. QED
  BY <1>2 DEF GoodBook, OneExit, Kept, GoodElsewhere, r

\* Resting the one exit that p needs restores the order.
LEMMA RestGood ==
    ASSUME NEW p \in PosIds, NEW b, GoodElsewhere(b, p), NEW l \in Limit,
           l.shares = b.pos[p].shares, l.shares > 0,
           b.pos[p].satHold => l.reason = "stop_loss"
    PROVE  GoodBook([b EXCEPT !.limits = [b.limits EXCEPT ![p] = <<l>>]])
<1> DEFINE L == [b.limits EXCEPT ![p] = <<l>>]
           r == [b EXCEPT !.limits = L]
<1>1. b \in Portfolio /\ b.limits \in [PosIds -> Seq(Limit)]
  BY DEF GoodElsewhere, Portfolio
<1>2. /\ <<l>> \in Seq(Limit) /\ Len(<<l>>) = 1 /\ <<l>>[1] = l
      /\ \A i \in DOMAIN <<l>> : <<l>>[i] = l
  OBVIOUS
<1>3. L \in [PosIds -> Seq(Limit)] /\ L[p] = <<l>> /\ \A q \in PosIds \ {p} : L[q] = b.limits[q]
  BY <1>1, <1>2
<1> HIDE DEF L
<1>4. r.limits = L /\ r.pos = b.pos
  BY <1>1 DEF Portfolio
<1>5. r \in Portfolio
  BY <1>1, <1>3 DEF Portfolio
<1> HIDE DEF r
<1>6. OneExit(r)
  <2>1. /\ r.limits[p] = <<l>> /\ r.pos[p] = b.pos[p]
        /\ \A q \in PosIds \ {p} : r.limits[q] = b.limits[q] /\ r.pos[q] = b.pos[q]
    BY <1>3, <1>4
  <2>2. /\ Len(r.limits[p]) <= 1 /\ r.limits[p][1].shares = r.pos[p].shares
        /\ r.pos[p].shares > 0
    BY <1>2, <2>1
  <2>3. ASSUME NEW q \in PosIds, q # p
        PROVE  /\ Len(r.limits[q]) <= 1
               /\ r.limits[q] # <<>> => /\ r.limits[q][1].shares = r.pos[q].shares
                                        /\ r.pos[q].shares > 0
    BY <2>1, <2>3 DEF GoodElsewhere
  <2>4. QED
    BY <2>2, <2>3 DEF OneExit
<1>7. Kept(r)
  BY <1>2, <1>3, <1>4 DEF GoodElsewhere, Kept
<1>8. QED
  BY <1>5, <1>6, <1>7 DEF GoodBook, r, L

\* A book in order everywhere but at p is in order if p has no exit.
LEMMA NoRestGood ==
    ASSUME NEW p \in PosIds, NEW b, GoodElsewhere(b, p), b.limits[p] = <<>>
    PROVE  GoodBook(b)
<1>1. OneExit(b)
  BY DEF GoodElsewhere, OneExit
<1>2. Kept(b)
  BY DEF GoodElsewhere, Kept
<1>3. QED
  BY <1>1, <1>2 DEF GoodBook, GoodElsewhere

\* The proceeds of a sale at one price are a whole amount.
LEMMA ProceedsInt ==
    ASSUME NEW n \in Nat, NEW price \in Nat, NEW bps \in Nat
    PROVE  n * price - FeeUsd(n, price, bps) \in Int
<1>1. PerShareFee(price, bps) \in Nat
  BY FeeNat
<1>2. n * price \in Nat /\ n * PerShareFee(price, bps) \in Nat
  BY <1>1, ProductNat
<1>3. QED
  BY <1>2 DEF FeeUsd

\* A market sale fills a part of what is asked for.
LEMMA FillOK ==
    ASSUME NEW book \in Book, NEW n \in Nat
    PROVE  MarketFill(book, n) \in 0..n
  BY DEF MarketFill, Min2, Book

\* An exit of a position without a resting order leaves every share it did not
\* sell in one resting order (executeExit); only a stop-loss may exit a position
\* that rides to resolution.
LEMMA ExitGood ==
    ASSUME NEW b, GoodBook(b), NEW p \in PosIds, b.limits[p] = <<>>,
           NEW book \in Book, NEW prob \in Prob, NEW reason \in ExitReason,
           b.pos[p].satHold => reason = "stop_loss"
    PROVE  /\ GoodBook(ExecuteExit(b, p, book, prob, reason))
           /\ ExitFill(b, p, book, prob, reason) \in 0..b.pos[p].shares
<1> DEFINE n      == b.pos[p].shares
           pct    == IF reason = "stop_loss" THEN 100 ELSE HybridPct
           market == (n * pct) \div 100
           plan   == HybridPlan(pct, n, prob, book)
           fill   == ExitFill(b, p, book, prob, reason)
           sold   == SellAt(b, p, fill, book.bid, TakerBps)
           rest   == Min2(plan.limit + (plan.market - fill), sold.pos[p].shares)
           limit  == [shares |-> rest, price |-> plan.price, expired |-> FALSE, reason |-> reason]
<1>1. b \in Portfolio /\ n \in Nat
  BY DEF GoodBook, Portfolio, Position
<1>2. market \in 0..n
  <2>1. pct \in 0..100
    OBVIOUS
  <2> HIDE DEF n, pct
  <2>2. QED
    BY <1>1, <2>1, PercentOf
<1>3. /\ plan.market = market /\ plan.limit = n - market
      /\ plan.price = LimitPrice(prob, book)
  BY DEF HybridPlan
<1>4. fill = MarketFill(book, plan.market)
  BY DEF ExitFill
<1> HIDE DEF n, market, plan
<1>5. fill \in 0..n
  <2>1. market \in Nat /\ market <= n
    BY <1>1, <1>2
  <2>2. MarketFill(book, market) \in 0..market
    BY <2>1, FillOK
  <2>3. QED
    BY <1>1, <1>3, <1>4, <2>1, <2>2
<1> HIDE DEF fill
<1>6. fill * book.bid - FeeUsd(fill, book.bid, TakerBps) \in Int
  <2>1. book.bid \in Nat /\ fill \in Nat
    BY <1>1, <1>5 DEF Book
  <2>2. QED
    BY <2>1, ProceedsInt
<1>7. /\ GoodBook(sold) /\ GoodElsewhere(sold, p)
      /\ sold.pos[p].shares = n - fill /\ sold.limits[p] = <<>>
      /\ sold.pos[p].satHold => b.pos[p].satHold
  <2>1. fill \in 0..b.pos[p].shares
    BY <1>5 DEF n
  <2>2. sold = ApplySell(b, p, fill, fill * book.bid - FeeUsd(fill, book.bid, TakerBps))
    BY DEF SellAt
  <2> HIDE DEF sold
  <2>3. QED
    BY <1>1, <1>6, <2>1, <2>2, SellGood, SellElsewhere, SellFacts DEF n
<1> HIDE DEF sold
<1>8. rest = n - fill
  BY <1>1, <1>2, <1>3, <1>5, <1>7 DEF Min2
<1>9. ExecuteExit(b, p, book, prob, reason)
        = IF rest > 0 THEN [sold EXCEPT !.limits[p] = Append(@, limit)] ELSE sold
  BY DEF ExecuteExit, n, plan, fill, sold
<1> HIDE DEF rest
<1>10. CASE rest > 0
  <2>1. limit \in Limit
    <3>1. plan.price \in 0..(One - 1)
      BY <1>3, LimitPriceOK
    <3>2. rest \in Nat
      BY <1>1, <1>5, <1>8
    <3>3. QED
      BY <3>1, <3>2 DEF Limit
  <2>2. limit.shares = sold.pos[p].shares /\ limit.shares > 0 /\ limit.reason = reason
    BY <1>7, <1>8, <1>10
  <2> HIDE DEF limit
  <2>3. Append(sold.limits[p], limit) = <<limit>>
    BY <1>7, <2>1
  <2>4. [sold EXCEPT !.limits[p] = Append(@, limit)]
          = [sold EXCEPT !.limits = [sold.limits EXCEPT ![p] = <<limit>>]]
    BY <2>3
  <2>5. GoodBook([sold EXCEPT !.limits = [sold.limits EXCEPT ![p] = <<limit>>]])
    BY <1>7, <2>1, <2>2, RestGood
  <2>6. QED
    BY <1>5, <1>9, <1>10, <2>4, <2>5 DEF n, fill, limit
<1>11. CASE ~(rest > 0)
  BY <1>5, <1>7, <1>9, <1>11 DEF n, fill
<1>12. QED
  BY <1>10, <1>11

HIDE PolicyAssumption DEF PolicyAssumption
-----------------------------------------------------------------------------
(* The runs.                                                                 *)

\* Where the run is, or where it goes on once its save is done.
Stage == IF pc = "save" THEN after ELSE pc

\* Besides the books in order: a run that works on a position knows which, and
\* an entry that is being researched is one the book does not hold yet.
RunInv ==
    /\ TypeOK
    /\ GoodBook(disk) /\ GoodBook(mem)
    /\ pc = "save" => after \in {"cycle", "tick", "limits", "bought"}
    /\ Stage \in {"evaluate", "limits", "bought", "research"} => cur \in PosIds
    /\ Stage = "limits" => cursor > 0
    /\ pc = "research" => \A s \in Side : ~Held(mem, <<MarketOf(cur), s>>)
-----------------------------------------------------------------------------
(* Facts about the parts.                                                    *)

Journal == [bought : [PosIds -> Nat], gone : [PosIds -> Nat]]

\* Ledgering a number of shares keeps the ledger's shape (appendLedger).
LEMMA JournalOK ==
    ASSUME NEW j \in Journal, NEW p \in PosIds, NEW n \in Nat
    PROVE  /\ [j EXCEPT !.gone[p] = @ + n] \in Journal
           /\ [j EXCEPT !.bought[p] = @ + n] \in Journal
<1>1. j.gone \in [PosIds -> Nat] /\ j.bought \in [PosIds -> Nat]
  BY DEF Journal
<1>2. [j.gone EXCEPT ![p] = @ + n] \in [PosIds -> Nat]
  BY <1>1
<1>3. [j.bought EXCEPT ![p] = @ + n] \in [PosIds -> Nat]
  BY <1>1
<1>4. QED
  BY <1>1, <1>2, <1>3 DEF Journal

\* A portfolio holds whole numbers of shares.
LEMMA SharesNat ==
    ASSUME NEW b \in Portfolio, NEW p \in PosIds
    PROVE  b.pos[p].shares \in Nat
  BY DEF Portfolio, Position

\* What the venue shows is a book.
LEMMA ShownOK ==
    ASSUME NEW p PROVE Shown(p) \subseteq Books /\ Shown(p) \subseteq Book
  BY RunsAssumption DEF RunsAssumption, Shown

\* The empty book is a book.
LEMMA NoBookOK == NoBook \in Book
<1>1. 0 \in 0..(One - 1) /\ One \in 1..One
  BY PolicyAssumption DEF PolicyAssumption
<1>2. QED
  BY <1>1 DEF NoBook, Book

\* The side an entry takes is a side (decideEntry).
LEMMA EntrySideOK ==
    ASSUME NEW eval \in Evaluation, NEW yesBook \in Book, NEW noBook \in Book
    PROVE  DecideEntry(eval, yesBook, noBook).side \in Side
<1> DEFINE book(s) == IF s = 0 THEN yesBook ELSE noBook
           offered == {s \in Side : book(s).ask # One}
           edge(s) == EntryEdgeOf(ProbFor(eval, s), book(s))
           wins(s) == \A t \in offered : edge(s) > edge(t) \/ (edge(s) = edge(t) /\ s <= t)
           best    == CHOOSE s \in offered : wins(s)
<1>1. \A s \in Side : edge(s) \in Int
  <2> SUFFICES ASSUME NEW s \in Side PROVE edge(s) \in Int
    OBVIOUS
  <2>1. book(s) \in Book
    OBVIOUS
  <2>2. ProbFor(eval, s) \in Int
    <3>1. eval.probYes \in Prob
      BY DEF Evaluation
    <3>2. QED
      BY <3>1, ProbOK DEF Prob
  <2> HIDE DEF book
  <2>3. book(s).ask \in Int
    BY <2>1 DEF Book
  <2>4. PerShareFee(book(s).ask, TakerBps) \in Nat
    BY <2>3, FeeNat, PolicyAssumption DEF PolicyAssumption
  <2>5. QED
    BY <2>2, <2>3, <2>4 DEF EntryEdgeOf
<1> HIDE DEF edge
<1>2. offered # {} => \E s \in offered : wins(s)
  <2> SUFFICES ASSUME offered # {} PROVE \E s \in offered : wins(s)
    OBVIOUS
  <2>1. offered \subseteq {0, 1}
    BY DEF Side
  <2> HIDE DEF offered
  <2>2. ASSUME NEW s \in offered, offered = {s} PROVE \E t \in offered : wins(t)
    <3>1. edge(s) = edge(s) /\ s <= s
      BY <2>1
    <3>2. wins(s)
      BY <2>2, <3>1
    <3>3. QED
      BY <3>2
  <2>3. CASE 0 \notin offered \/ 1 \notin offered
    <3>1. offered = {0} \/ offered = {1}
      BY <2>1, <2>3
    <3>2. QED
      BY <2>2, <3>1
  <2>4. CASE 0 \in offered /\ 1 \in offered
    <3>1. edge(0) \in Int /\ edge(1) \in Int
      BY <1>1 DEF Side
    <3>2. CASE edge(0) >= edge(1)
      <4>1. wins(0)
        BY <2>1, <3>1, <3>2
      <4>2. QED
        BY <2>4, <4>1
    <3>3. CASE edge(1) > edge(0)
      <4>1. wins(1)
        BY <2>1, <3>1, <3>3
      <4>2. QED
        BY <2>4, <4>1
    <3>4. QED
      BY <3>1, <3>2, <3>3
  <2>5. QED
    BY <2>3, <2>4
<1>3. offered # {} => best \in offered
  <2> HIDE DEF offered, wins
  <2> QED
    BY <1>2
<1>4. DecideEntry(eval, yesBook, noBook).side = IF offered = {} THEN 0 ELSE best
  BY DEF DecideEntry, edge
<1>5. offered \subseteq Side
  OBVIOUS
<1> HIDE DEF offered, best
<1>6. QED
  BY <1>3, <1>4, <1>5 DEF Side

\* Both a hold and an exit decided by an evaluation leave a good book
\* (runEvaluationCycleLocked, from the decision to the save).
LEMMA DecideGood ==
    ASSUME NEW b, GoodBook(b), NEW p \in PosIds,
           NEW eval \in Evaluation, NEW book \in Book
    PROVE  /\ GoodBook(Decide(b, p, eval, book).book)
           /\ Decide(b, p, eval, book).sold \in Nat
<1> DEFINE decision == FinalDecision(eval, b.pos[p].price, SideOf(p), book)
           exits    == decision.reason # "hold"
           cleared  == IF decision.saturatedHold \/ exits THEN DropLimits(b, p) ELSE b
           noted    == [cleared EXCEPT !.pos[p].satHold = decision.saturatedHold]
           prob     == ProbFor(eval, SideOf(p))
<1>1. /\ decision.reason \in ExitReason \cup {"hold"}
      /\ decision.saturatedHold \in BOOLEAN
      /\ decision.saturatedHold => decision.reason = "hold"
  BY DecisionOK
<1>2. prob \in Prob
  <2>1. SideOf(p) \in Side /\ eval.probYes \in Prob
    BY DEF SideOf, PosIds, Evaluation
  <2>2. QED
    BY <2>1, ProbOK
<1> HIDE DEF decision, prob
<1>3. /\ GoodBook(cleared)
      /\ decision.saturatedHold \/ exits => cleared.limits[p] = <<>>
  BY DropGood
<1> HIDE DEF cleared
<1>4. /\ GoodBook(noted) /\ noted.limits = cleared.limits
      /\ noted.pos[p].satHold = decision.saturatedHold
  BY <1>1, <1>3, FlagGood
<1> HIDE DEF noted
<1>5. Decide(b, p, eval, book)
        = [book |-> IF exits THEN ExecuteExit(noted, p, book, prob, decision.reason) ELSE noted,
           sold |-> IF exits THEN ExitFill(noted, p, book, prob, decision.reason) ELSE 0]
  BY DEF Decide, noted, cleared, decision, prob
<1>6. CASE exits
  <2>1. decision.reason \in ExitReason /\ ~noted.pos[p].satHold /\ noted.limits[p] = <<>>
    BY <1>1, <1>3, <1>4, <1>6
  <2>2. /\ GoodBook(ExecuteExit(noted, p, book, prob, decision.reason))
        /\ ExitFill(noted, p, book, prob, decision.reason) \in 0..noted.pos[p].shares
    BY <1>2, <1>4, <2>1, ExitGood
  <2>3. noted.pos[p].shares \in Nat
    BY <1>4, SharesNat DEF GoodBook
  <2>4. QED
    BY <1>5, <1>6, <2>2, <2>3
<1>7. CASE ~exits
  BY <1>4, <1>5, <1>7
<1>8. QED
  BY <1>6, <1>7

\* A stop-loss, in a cycle or in a tick (the resting exit was cancelled, or there
\* was none).
LEMMA StopLossGood ==
    ASSUME NEW b, GoodBook(b), NEW p \in PosIds, b.limits[p] = <<>>, NEW book \in Book
    PROVE  /\ GoodBook(ExecuteExit(b, p, book, 0, "stop_loss"))
           /\ ExitFill(b, p, book, 0, "stop_loss") \in Nat
<1>1. 0 \in Prob /\ "stop_loss" \in ExitReason
  BY PolicyAssumption DEF PolicyAssumption, Prob, ExitReason
<1>2. b.pos[p].shares \in Nat
  BY SharesNat DEF GoodBook
<1>3. QED
  BY <1>1, <1>2, ExitGood

\* An only element of a sequence can be replaced by building the sequence anew.
LEMMA SingleReplaced ==
    ASSUME NEW S, NEW s \in Seq(S), Len(s) = 1, NEW v \in S
    PROVE  [s EXCEPT ![1] = v] = <<v>>
<1> DEFINE r == [s EXCEPT ![1] = v]
<1>1. 1 \in 1..Len(s)
  OBVIOUS
<1>2. /\ r \in Seq(S) /\ Len(r) = 1
      /\ \A j \in 1..1 : r[j] = IF j = 1 THEN v ELSE s[j]
  BY <1>1, ExceptSeq
<1>3. <<v>> \in Seq(S) /\ Len(<<v>>) = 1 /\ <<v>>[1] = v
  OBVIOUS
<1> HIDE DEF r
<1>4. \A j \in 1..Len(r) : r[j] = <<v>>[j]
  BY <1>2, <1>3
<1>5. r = <<v>>
  BY <1>2, <1>3, <1>4, SeqEqual
<1>6. QED
  BY <1>5 DEF r

\* A sale against the resting exit of the position a tick works on, and the
\* shrinking of that exit, keep it equal to what is left of the position
\* (runFillTickLocked, limit fill and fallback).
LEMMA ShrinkGood ==
    ASSUME RunInv, cur \in PosIds, AtLimit, cursor > 0,
           NEW n \in 0..TheLimit.shares, NEW proceeds \in Int, NEW expired \in BOOLEAN
    PROVE  GoodBook(ShrinkLimit(ApplySell(mem, cur, n, proceeds), n, expired))
<1> DEFINE sold == ApplySell(mem, cur, n, proceeds)
           left == TheLimit.shares - n
           new == [TheLimit EXCEPT !.shares = left, !.expired = expired]
<1>1. mem \in Portfolio /\ GoodBook(mem) /\ cursor \in Nat
  BY DEF RunInv, TypeOK, GoodBook
<1>2. mem.limits[cur] \in Seq(Limit) /\ mem.pos[cur].shares \in Nat
  BY <1>1, SharesNat DEF Portfolio
<1>3. cursor = 1 /\ Len(mem.limits[cur]) = 1
  <2>1. Len(mem.limits[cur]) <= 1 /\ Len(mem.limits[cur]) \in Nat
    BY <1>1, <1>2 DEF GoodBook, OneExit
  <2>2. cursor <= Len(mem.limits[cur])
    BY DEF AtLimit
  <2> DEFINE len == Len(mem.limits[cur])
  <2>3. len <= 1 /\ len \in Nat /\ cursor <= len
    BY <2>1, <2>2
  <2> HIDE DEF len
  <2>4. cursor = 1 /\ len = 1
    BY <1>1, <2>3
  <2>5. QED
    BY <2>4 DEF len
<1>4. TheLimit = mem.limits[cur][1] /\ TheLimit \in Limit
  BY <1>2, <1>3 DEF TheLimit
<1>5. TheLimit.shares = mem.pos[cur].shares
  BY <1>1, <1>2, <1>3, <1>4 DEF GoodBook, OneExit
<1>6. n \in 0..mem.pos[cur].shares /\ left \in Nat
  BY <1>2, <1>5
<1>7. /\ GoodElsewhere(sold, cur) /\ sold.pos[cur].shares = left
      /\ sold.pos[cur].satHold => mem.pos[cur].satHold
      /\ sold.limits[cur] = IF n > 0 /\ n = mem.pos[cur].shares THEN <<>> ELSE mem.limits[cur]
  BY <1>1, <1>5, <1>6, SellElsewhere, SellFacts
<1> HIDE DEF sold
<1>8. CASE left = 0
  <2>1. ~Held(sold, cur)
    BY <1>7, <1>8 DEF Held
  <2>2. ShrinkLimit(sold, n, expired) = sold
    BY <2>1 DEF ShrinkLimit
  <2>3. sold.limits[cur] = <<>>
    BY <1>2, <1>5, <1>6, <1>7, <1>8 DEF AtLimit, Held
  <2>4. QED
    BY <1>7, <2>2, <2>3, NoRestGood DEF sold
<1>9. CASE left > 0
  <2>1. Held(sold, cur) /\ sold.limits[cur] = mem.limits[cur]
    BY <1>2, <1>5, <1>6, <1>7, <1>9 DEF Held
  <2>2. new \in Limit /\ new.shares = left /\ new.reason = TheLimit.reason
    <3> HIDE DEF left
    <3> QED
      BY <1>4, <1>6 DEF Limit
  <2>3. sold.pos[cur].satHold => new.reason = "stop_loss"
    <3>1. mem.pos[cur].satHold => TheLimit.reason = "stop_loss"
      BY <1>1, <1>2, <1>3, <1>4 DEF GoodBook, Kept
    <3>2. QED
      BY <1>7, <2>2, <3>1
  <2>4. ShrinkLimit(sold, n, expired)
          = [sold EXCEPT !.limits[cur][1] = new]
    BY <1>3, <1>9, <2>1 DEF ShrinkLimit
  <2> HIDE DEF new
  <2>5. [sold.limits[cur] EXCEPT ![1] = new] = <<new>>
    BY <1>2, <1>3, <2>1, <2>2, SingleReplaced
  <2>6. [sold EXCEPT !.limits[cur][1] = new]
          = [sold EXCEPT !.limits = [sold.limits EXCEPT ![cur] = <<new>>]]
    BY <2>5
  <2>7. GoodBook([sold EXCEPT !.limits = [sold.limits EXCEPT ![cur] = <<new>>]])
    BY <1>7, <1>9, <2>2, <2>3, RestGood
  <2>8. QED
    BY <2>4, <2>6, <2>7 DEF sold
<1>10. QED
  BY <1>6, <1>8, <1>9
-----------------------------------------------------------------------------
(* The steps of a run keep the invariant, one by one.                        *)

\* Starting a cycle or a tick loads the saved book.
LEMMA StartKeeps ==
    ASSUME RunInv, StartCycle \/ StartTick PROVE RunInv'
<1>1. Open(disk) \subseteq PosIds
  BY DEF Open
<1>2. QED
  BY <1>1 DEF RunInv, TypeOK, Stage, StartCycle, StartTick, Pc, envVars
\* Moving from one position to the next without touching the book.
LEMMA VisitKeeps ==
    ASSUME RunInv, NEW p \in PosIds,
           CycleSkip(p) \/ CycleEvaluate(p) \/ TickSkip(p) \/ TickVisit(p)
    PROVE  RunInv'
<1>1. CASE CycleSkip(p) \/ TickSkip(p)
  BY <1>1 DEF RunInv, TypeOK, Stage, CycleSkip, TickSkip, Visit, envVars
<1>2. CASE CycleEvaluate(p)
  BY <1>2 DEF RunInv, TypeOK, Stage, CycleEvaluate, Visit, Pc, envVars
<1>3. CASE TickVisit(p)
  <2>1. seen' \in Books
    BY <1>3, ShownOK DEF TickVisit
  <2>2. QED
    BY <1>3, <2>1 DEF RunInv, TypeOK, Stage, TickVisit, Visit, Pc, envVars
<1>4. QED
  BY <1>1, <1>2, <1>3

\* Failed evaluations and the ends of the loops.
LEMMA MoveKeeps ==
    ASSUME RunInv,
           EvaluateFails \/ ResearchFails \/ CycleScans \/ ScanDone \/ TickMovesOn \/ TickDone
    PROVE  RunInv'
<1>1. CASE EvaluateFails \/ ResearchFails \/ TickMovesOn
  BY <1>1 DEF RunInv, TypeOK, Stage, EvaluateFails, ResearchFails, TickMovesOn, Leave, Pc, envVars
<1>2. CASE CycleScans
  BY <1>2 DEF RunInv, TypeOK, Stage, CycleScans, Pc, envVars
<1>3. CASE ScanDone \/ TickDone
  BY <1>3 DEF RunInv, TypeOK, Stage, ScanDone, TickDone, Finish, Leave, Pc, envVars
<1>4. QED
  BY <1>1, <1>2, <1>3

\* The scan picks a market to research only when no side of it is held.
LEMMA ScanKeeps ==
    ASSUME RunInv, NEW m \in Markets, ScanSkip(m) \/ ScanEvaluate(m)
    PROVE  RunInv'
<1>1. CASE ScanSkip(m)
  BY <1>1 DEF RunInv, TypeOK, Stage, ScanSkip, envVars
<1>2. CASE ScanEvaluate(m)
  <2>1. <<m, 0>> \in PosIds /\ MarketOf(<<m, 0>>) = m
    BY DEF PosIds, Side, MarketOf
  <2>2. cur' \in PosIds /\ MarketOf(cur') = m
    BY <1>2, <2>1 DEF ScanEvaluate
  <2>3. \A s \in Side : ~Held(mem', <<MarketOf(cur'), s>>)
    BY <1>2, <2>2 DEF ScanEvaluate
  <2>4. QED
    BY <1>2, <2>2, <2>3 DEF RunInv, TypeOK, Stage, ScanEvaluate, Pc, envVars
<1>3. QED
  BY <1>1, <1>2

\* The venue and the operator change nothing of the book; a crash forgets what
\* was not saved.
LEMMA WorldKeeps ==
    ASSUME RunInv, (\E m \in Markets : Resolve(m)) \/ (\E p \in PosIds : Collapse(p)) \/ Crash
    PROVE  RunInv'
<1>1. CASE \E m \in Markets : Resolve(m)
  <2>1. resolution' \in [Markets -> {"open", "awaiting"} \cup Settled]
    BY <1>1, RunsAssumption DEF RunsAssumption, RunInv, TypeOK, Resolve
  <2>2. QED
    BY <1>1, <2>1 DEF RunInv, TypeOK, Stage, Resolve, runVars
<1>2. CASE \E p \in PosIds : Collapse(p)
  BY <1>2 DEF RunInv, TypeOK, Stage, Collapse, runVars
<1>3. CASE Crash
  BY <1>3 DEF RunInv, TypeOK, Stage, Crash, Finish, Leave, Pc
<1>4. QED
  BY <1>1, <1>2, <1>3
\* A good book is a portfolio.
LEMMA BookTyped == ASSUME NEW b, GoodBook(b) PROVE b \in Portfolio
  BY DEF GoodBook

\* Saving makes the book of the run the one on disk.
LEMMA SaveKeeps == ASSUME RunInv, Save PROVE RunInv'
<1>1. opened' \in [PosIds -> Nat]
  <2>1. \A p \in PosIds : opened[p] + Max2(0, mem.pos[p].shares - disk.pos[p].shares) \in Nat
    <3> SUFFICES ASSUME NEW p \in PosIds
                 PROVE  opened[p] + Max2(0, mem.pos[p].shares - disk.pos[p].shares) \in Nat
      OBVIOUS
    <3>1. opened[p] \in Nat
      BY DEF RunInv, TypeOK
    <3>2. mem.pos[p].shares \in Nat /\ disk.pos[p].shares \in Nat
      BY SharesNat DEF RunInv, TypeOK
    <3>3. QED
      BY <3>1, <3>2 DEF Max2
  <2>2. QED
    BY <2>1 DEF Save
<1>2. QED
  BY <1>1 DEF RunInv, TypeOK, Stage, Save, Pc, envVars

\* Ledgering a buy counts the shares of the position it opened.
LEMMA JournalKeeps == ASSUME RunInv, JournalBuy PROVE RunInv'
<1>1. cur \in PosIds
  BY DEF RunInv, Stage, JournalBuy
<1>2. journal' \in Journal
  <2>1. mem.pos[cur].shares \in Nat /\ journal \in Journal
    BY <1>1, SharesNat DEF RunInv, TypeOK, Journal
  <2>2. QED
    BY <1>1, <2>1, JournalOK DEF JournalBuy
<1>3. QED
  BY <1>2 DEF RunInv, TypeOK, Stage, Journal, JournalBuy, Leave, Finish, Pc, envVars

\* A run that hands a good book to the save, and ledgers a number of shares,
\* keeps the ledger and both books in order.
LEMMA ExitStep ==
    ASSUME RunInv, NEW b, GoodBook(b), NEW p \in PosIds, NEW n \in Nat,
           mem' = b, JournalGone(p, n)
    PROVE  /\ mem' \in Portfolio /\ GoodBook(mem')
           /\ journal' \in [bought : [PosIds -> Nat], gone : [PosIds -> Nat]]
<1>1. journal \in Journal
  BY DEF RunInv, TypeOK, Journal
<1>2. journal' \in Journal
  BY <1>1, JournalOK DEF JournalGone
<1>3. QED
  BY <1>2, BookTyped DEF Journal

\* Settling a position of a resolved market (settleFromMarket).
LEMMA SettleKeeps ==
    ASSUME RunInv, NEW p \in PosIds, CycleSettle(p) \/ TickSettle(p)
    PROVE  RunInv'
<1> DEFINE b == ApplySettlement(mem, p, resolution[MarketOf(p)])
<1>1. GoodBook(b)
  BY SettleGood DEF RunInv, CycleSettle, TickSettle, SettleVisited, Settled
<1>2. mem.pos[p].shares \in Nat
  BY SharesNat DEF RunInv, TypeOK
<1>3. mem' = b /\ JournalGone(p, mem.pos[p].shares)
  BY DEF CycleSettle, TickSettle, SettleVisited, SaveThen
<1> HIDE DEF b
<1>4. /\ mem' \in Portfolio /\ GoodBook(mem')
      /\ journal' \in [bought : [PosIds -> Nat], gone : [PosIds -> Nat]]
  BY <1>1, <1>2, <1>3, ExitStep
<1>5. QED
  BY <1>4 DEF RunInv, TypeOK, Stage, CycleSettle, TickSettle, SettleVisited, SaveThen,
              Visit, Pc, envVars

\* The stop-loss of a cycle cancels the resting exit and sells (executeExit).
LEMMA CycleStopLossKeeps ==
    ASSUME RunInv, NEW p \in PosIds, CycleStopLoss(p)
    PROVE  RunInv'
<1> DEFINE b == DropLimits(mem, p)
<1>1. PICK book \in Shown(p) :
         /\ SaveThen(ExecuteExit(b, p, book, 0, "stop_loss"), "cycle")
         /\ JournalGone(p, ExitFill(b, p, book, 0, "stop_loss"))
  BY DEF CycleStopLoss
<1>2. book \in Book
  BY ShownOK
<1>3. GoodBook(b) /\ b.limits[p] = <<>>
  BY DropGood DEF RunInv
<1> HIDE DEF b
<1>4. /\ GoodBook(ExecuteExit(b, p, book, 0, "stop_loss"))
      /\ ExitFill(b, p, book, 0, "stop_loss") \in Nat
  BY <1>2, <1>3, StopLossGood
<1>5. /\ mem' \in Portfolio /\ GoodBook(mem')
      /\ journal' \in [bought : [PosIds -> Nat], gone : [PosIds -> Nat]]
  BY <1>1, <1>4, ExitStep DEF SaveThen
<1>6. QED
  BY <1>1, <1>5 DEF RunInv, TypeOK, Stage, CycleStopLoss, SaveThen, Visit, Pc, envVars

\* So does the one of a tick, on a position without a resting exit.
LEMMA TickStopLossKeeps == ASSUME RunInv, TickStopLoss PROVE RunInv'
<1>1. cur \in PosIds /\ mem.limits[cur] = <<>>
  BY DEF RunInv, Stage, TickStopLoss, TickStops
<1>2. seen \in Book
  BY NoBookOK, RunsAssumption DEF RunsAssumption, RunInv, TypeOK
<1>3. /\ GoodBook(ExecuteExit(mem, cur, seen, 0, "stop_loss"))
      /\ ExitFill(mem, cur, seen, 0, "stop_loss") \in Nat
  BY <1>1, <1>2, StopLossGood DEF RunInv
<1>4. /\ mem' \in Portfolio /\ GoodBook(mem')
      /\ journal' \in [bought : [PosIds -> Nat], gone : [PosIds -> Nat]]
  BY <1>1, <1>3, ExitStep DEF TickStopLoss, SaveThen
<1>5. QED
  BY <1>4 DEF RunInv, TypeOK, Stage, TickStopLoss, SaveThen, Leave, Pc, envVars

\* What a cycle does with an evaluation.
LEMMA EvaluateKeeps == ASSUME RunInv, EvaluateDone PROVE RunInv'
<1>1. cur \in PosIds
  BY DEF RunInv, Stage, EvaluateDone
<1>2. PICK eval \in Evaluations, book \in Shown(cur) :
         /\ SaveThen(Decide(mem, cur, eval, book).book, "cycle")
         /\ JournalGone(cur, Decide(mem, cur, eval, book).sold)
  BY DEF EvaluateDone
<1>3. eval \in Evaluation /\ book \in Book
  BY ShownOK, RunsAssumption DEF RunsAssumption
<1>4. /\ GoodBook(Decide(mem, cur, eval, book).book)
      /\ Decide(mem, cur, eval, book).sold \in Nat
  BY <1>1, <1>3, DecideGood DEF RunInv
<1>5. /\ mem' \in Portfolio /\ GoodBook(mem')
      /\ journal' \in [bought : [PosIds -> Nat], gone : [PosIds -> Nat]]
  BY <1>1, <1>2, <1>4, ExitStep DEF SaveThen
<1>6. QED
  BY <1>2, <1>5 DEF RunInv, TypeOK, Stage, EvaluateDone, SaveThen, Leave, Pc, envVars
\* The limit a tick looks at, and the snapshot it looks with.
LEMMA AtLimitFacts ==
    ASSUME RunInv, AtLimit
    PROVE  /\ cur \in PosIds /\ cursor \in Nat /\ cursor > 0
           /\ TheLimit \in Limit /\ mem.pos[cur].shares \in Nat
           /\ seen \in Book
<1>1. cur \in PosIds /\ cursor \in Nat /\ cursor > 0
  BY DEF RunInv, TypeOK, Stage, AtLimit
<1>2. mem.limits[cur] \in Seq(Limit) /\ mem.pos[cur].shares \in Nat
  BY <1>1, SharesNat DEF RunInv, TypeOK, Portfolio
<1>3. TheLimit \in Limit
  <2>1. cursor \in 1..Len(mem.limits[cur])
    <3>1. cursor <= Len(mem.limits[cur]) /\ Len(mem.limits[cur]) \in Nat
      BY <1>2 DEF AtLimit
    <3> DEFINE len == Len(mem.limits[cur])
    <3>2. cursor <= len /\ len \in Nat
      BY <3>1
    <3> HIDE DEF len
    <3>3. cursor \in 1..len
      BY <1>1, <3>2
    <3>4. QED
      BY <3>3 DEF len
  <2>2. QED
    BY <1>2, <2>1, ElementOfSeq DEF TheLimit
<1>4. seen \in Book
  BY NoBookOK, RunsAssumption DEF RunsAssumption, RunInv, TypeOK
<1>5. QED
  BY <1>1, <1>2, <1>3, <1>4

\* Whatever a tick sells against a limit is a part of it, and the rest of the
\* limit stays with the rest of the position (runFillTickLocked).
LEMMA LimitKeeps ==
    ASSUME RunInv, LimitFills \/ LimitFallsBack PROVE RunInv'
<1>1. AtLimit
  BY DEF LimitFills, LimitFallsBack
<1>2. /\ cur \in PosIds /\ cursor \in Nat /\ cursor > 0
      /\ TheLimit \in Limit /\ mem.pos[cur].shares \in Nat
      /\ seen \in Book
  BY <1>1, AtLimitFacts
<1>3. /\ TheLimit.shares \in Nat /\ TheLimit.price \in Nat /\ TheLimit.expired \in BOOLEAN
      /\ seen.bid \in Nat /\ seen.size \in Nat
  BY <1>2, PolicyAssumption DEF PolicyAssumption, Limit, Book
<1>4. PICK n \in 0..TheLimit.shares, price \in Nat, bps \in Nat, expired \in BOOLEAN :
         /\ mem' = ShrinkLimit(SellAt(mem, cur, n, price, bps), n, expired)
         /\ AdvanceCursor(mem')
         /\ JournalGone(cur, n)
         /\ pc' = "save" /\ after' = "limits"
  <2>1. CASE LimitFills
    <3>1. LimitFill \in 0..TheLimit.shares
      BY <1>2, <1>3 DEF LimitFill, Min2
    <3>2. MakerBps \in Nat
      BY PolicyAssumption DEF PolicyAssumption
    <3>3. /\ mem' = ShrinkLimit(SellAt(mem, cur, LimitFill, TheLimit.price, MakerBps),
                                LimitFill, TheLimit.expired)
          /\ AdvanceCursor(mem')
          /\ JournalGone(cur, LimitFill)
          /\ pc' = "save" /\ after' = "limits"
      BY <2>1 DEF LimitFills, SaveThen
    <3>4. QED
      BY <1>3, <3>1, <3>2, <3>3
  <2>2. CASE LimitFallsBack
    <3>1. FallbackFill \in 0..TheLimit.shares
      BY <1>2, <1>3 DEF FallbackFill, MarketFill, Min2
    <3>2. TakerBps \in Nat
      BY PolicyAssumption DEF PolicyAssumption
    <3>3. /\ mem' = ShrinkLimit(SellAt(mem, cur, FallbackFill, seen.bid, TakerBps),
                                FallbackFill, FALSE)
          /\ AdvanceCursor(mem')
          /\ JournalGone(cur, FallbackFill)
          /\ pc' = "save" /\ after' = "limits"
      BY <2>2 DEF LimitFallsBack, SaveThen
    <3>4. QED
      BY <1>3, <3>1, <3>2, <3>3
  <2>3. QED
    BY <2>1, <2>2
<1> DEFINE proceeds == n * price - FeeUsd(n, price, bps)
<1>5. n \in Nat /\ proceeds \in Int
  BY <1>3, <1>4, ProceedsInt
<1>6. GoodBook(mem')
  <2>1. mem' = ShrinkLimit(ApplySell(mem, cur, n, proceeds), n, expired)
    BY <1>4 DEF SellAt
  <2> HIDE DEF proceeds
  <2>2. GoodBook(ShrinkLimit(ApplySell(mem, cur, n, proceeds), n, expired))
    BY <1>1, <1>2, <1>4, <1>5, ShrinkGood
  <2>3. QED
    BY <2>1, <2>2
<1>7. /\ mem' \in Portfolio /\ GoodBook(mem')
      /\ journal' \in [bought : [PosIds -> Nat], gone : [PosIds -> Nat]]
  BY <1>2, <1>4, <1>5, <1>6, ExitStep
<1>8. cursor' \in Nat /\ cursor' > 0
  BY <1>2, <1>4 DEF AdvanceCursor
<1>9. QED
  BY <1>2, <1>4, <1>7, <1>8
     DEF RunInv, TypeOK, Stage, LimitFills, LimitFallsBack, Pc, envVars

\* A limit that rests only moves the cursor and saves the book.
LEMMA RestsKeeps == ASSUME RunInv, LimitRests PROVE RunInv'
<1>1. /\ cur \in PosIds /\ cursor \in Nat /\ cursor > 0
  BY AtLimitFacts DEF LimitRests
<1>2. cursor' \in Nat /\ cursor' > 0
  BY <1>1 DEF LimitRests
<1>3. QED
  BY <1>1, <1>2 DEF RunInv, TypeOK, Stage, LimitRests, Pc, envVars

\* A filled buy of a side that is not held leaves a good book.
LEMMA BuyStep ==
    ASSUME NEW b, GoodBook(b), NEW p \in PosIds, ~Held(b, p), NEW book,
           BuyThenSave(b, p, book)
    PROVE  /\ GoodBook(mem') /\ mem' \in Portfolio
           /\ pc' = "save" /\ after' = "bought" /\ cur' = p
<1>1. PICK n \in Lots, price \in Asks :
         /\ SaveThen(ApplyBuy(b, p, n, price, PerShareFee(price, TakerBps)), "bought")
         /\ cur' = p
  BY DEF BuyThenSave
<1>2. n \in Nat /\ price \in Price /\ price \in Int
  BY RunsAssumption, PolicyAssumption DEF RunsAssumption, PolicyAssumption, Price
<1>3. PerShareFee(price, TakerBps) \in Nat
  BY <1>2, FeeNat, PolicyAssumption DEF PolicyAssumption
<1>4. GoodBook(ApplyBuy(b, p, n, price, PerShareFee(price, TakerBps)))
  BY <1>2, <1>3, BuyGood
<1>5. QED
  BY <1>1, <1>4, BookTyped DEF SaveThen

\* The operator buys what is not held.
LEMMA SeedKeeps == ASSUME RunInv, NEW p \in Seeds, SeedBuy(p) PROVE RunInv'
<1>1. p \in PosIds /\ ~Held(disk, p)
  BY RunsAssumption DEF RunsAssumption, SeedBuy
<1>2. PICK book \in Shown(p) : BuyThenSave(disk, p, book)
  BY DEF SeedBuy
<1>3. /\ GoodBook(mem') /\ mem' \in Portfolio
      /\ pc' = "save" /\ after' = "bought" /\ cur' = p
  BY <1>1, <1>2, BuyStep DEF RunInv
<1>4. QED
  BY <1>1, <1>3 DEF RunInv, TypeOK, Stage, SeedBuy, Pc, envVars

\* So does the scan: neither side of the researched market is held.
LEMMA ResearchKeeps == ASSUME RunInv, ResearchEnters PROVE RunInv'
<1> DEFINE m == MarketOf(cur)
<1>1. PICK eval \in Evaluations, yesBook \in Shown(<<m, 0>>), noBook \in Shown(<<m, 1>>) :
         LET entry == DecideEntry(eval, yesBook, noBook) IN
         BuyThenSave(mem, <<m, entry.side>>, IF entry.side = 0 THEN yesBook ELSE noBook)
  BY DEF ResearchEnters
<1> DEFINE side == DecideEntry(eval, yesBook, noBook).side
<1>2. side \in Side
  <2>1. eval \in Evaluation /\ yesBook \in Book /\ noBook \in Book
    BY ShownOK, RunsAssumption DEF RunsAssumption
  <2>2. QED
    BY <2>1, EntrySideOK
<1>3. BuyThenSave(mem, <<m, side>>, IF side = 0 THEN yesBook ELSE noBook)
  BY <1>1
<1> HIDE DEF side
<1>4. <<m, side>> \in PosIds /\ ~Held(mem, <<m, side>>)
  <2>1. cur \in PosIds /\ ~Held(mem, <<MarketOf(cur), side>>)
    BY <1>2 DEF RunInv, Stage, ResearchEnters
  <2>2. QED
    BY <1>2, <2>1 DEF PosIds, MarketOf
<1>5. /\ GoodBook(mem') /\ mem' \in Portfolio
      /\ pc' = "save" /\ after' = "bought" /\ cur' = <<m, side>>
  <2> HIDE DEF m
  <2> QED
    BY <1>3, <1>4, BuyStep DEF RunInv
<1>6. QED
  BY <1>4, <1>5 DEF RunInv, TypeOK, Stage, ResearchEnters, Pc, envVars
\* Time only marks a resting exit: it stays one exit for the same shares.
LEMMA ExpireKeeps == ASSUME RunInv, NEW p \in PosIds, Expire(p) PROVE RunInv'
<1> DEFINE s == disk.limits[p]
           t == [i \in DOMAIN s |-> [s[i] EXCEPT !.expired = TRUE]]
           l == [s[1] EXCEPT !.expired = TRUE]
<1>1. disk \in Portfolio /\ GoodBook(disk)
  BY DEF RunInv, TypeOK
<1>2. s \in Seq(Limit) /\ disk.pos[p].shares \in Nat
  BY <1>1, SharesNat DEF Portfolio
<1>3. PICK k \in DOMAIN s : TRUE
  BY DEF Expire
<1>4. Len(s) = 1 /\ s # <<>>
  <2>1. DOMAIN s = 1..Len(s) /\ Len(s) \in Nat
    BY <1>2, LenProperties
  <2>2. Len(s) <= 1
    BY <1>1 DEF GoodBook, OneExit
  <2> HIDE DEF s
  <2>3. QED
    BY <1>3, <2>1, <2>2
<1>5. /\ s[1] \in Limit /\ s[1].shares = disk.pos[p].shares /\ disk.pos[p].shares > 0
      /\ disk.pos[p].satHold => s[1].reason = "stop_loss"
  <2>1. 1 \in DOMAIN s /\ s[1] \in Limit
    BY <1>2, <1>4
  <2>2. QED
    BY <1>1, <1>4, <2>1 DEF GoodBook, OneExit, Kept
<1>6. t = <<l>>
  <2>1. DOMAIN s = 1..1
    BY <1>2, <1>4, LenProperties
  <2> HIDE DEF s
  <2>2. t = [i \in 1..1 |-> l]
    BY <2>1
  <2> HIDE DEF t, l
  <2>3. <<l>> = [i \in 1..1 |-> l]
    OBVIOUS
  <2>4. QED
    BY <2>2, <2>3
<1>7. l \in Limit /\ l.shares = s[1].shares /\ l.reason = s[1].reason
  <2> HIDE DEF s
  <2> QED
    BY <1>5 DEF Limit
<1>8. disk' = [disk EXCEPT !.limits = [disk.limits EXCEPT ![p] = <<l>>]]
  <2>1. disk' = [disk EXCEPT !.limits[p] = t]
    BY DEF Expire
  <2> HIDE DEF t, l
  <2>2. QED
    BY <1>6, <2>1
<1>9. GoodElsewhere(disk, p)
  BY <1>1 DEF GoodBook, OneExit, Kept, GoodElsewhere
<1>10. GoodBook(disk')
  <2> HIDE DEF l, s
  <2>1. GoodBook([disk EXCEPT !.limits = [disk.limits EXCEPT ![p] = <<l>>]])
    BY <1>5, <1>7, <1>9, RestGood
  <2>2. QED
    BY <1>8, <2>1
<1>11. QED
  BY <1>10, BookTyped DEF RunInv, TypeOK, Stage, Expire, runVars, envVars
-----------------------------------------------------------------------------
(* The theorems.                                                             *)

\* A book without positions is in order.
LEMMA FreshGood == GoodBook(FreshBook)
<1>1. FreshBook \in Portfolio
  <2>1. Bankroll \in Int
    BY PortfolioAssumption DEF PortfolioAssumption
  <2>2. [p \in PosIds |-> Flat] \in [PosIds -> Position]
    BY FlatOK
  <2>3. [p \in PosIds |-> <<>>] \in [PosIds -> Seq(Limit)]
    OBVIOUS
  <2>4. QED
    BY <2>1, <2>2, <2>3 DEF FreshBook, Portfolio
<1>2. OneExit(FreshBook)
  BY DEF OneExit, FreshBook
<1>3. Kept(FreshBook)
  BY DEF Kept, FreshBook, Flat
<1>4. QED
  BY <1>1, <1>2, <1>3 DEF GoodBook

\* No cycle runs and the books are fresh.
LEMMA RunInit == Init => RunInv
<1> SUFFICES ASSUME Init PROVE RunInv
  OBVIOUS
<1>1. disk = FreshBook /\ mem = FreshBook /\ pc = "idle"
  BY DEF Init
<1>2. GoodBook(disk) /\ GoodBook(mem) /\ disk \in Portfolio /\ mem \in Portfolio
  BY <1>1, FreshGood, BookTyped
<1>3. TypeOK
  BY <1>2 DEF TypeOK, Init, Pc, Settled
<1>4. QED
  BY <1>1, <1>2, <1>3 DEF RunInv, Stage

\* Every step of the system keeps the invariant.
LEMMA RunStep == RunInv /\ [Next]_vars => RunInv'
<1> SUFFICES ASSUME RunInv, [Next]_vars PROVE RunInv'
  OBVIOUS
<1>1. CASE Run
  <2>1. CASE Save
    BY <2>1, SaveKeeps
  <2>2. CASE JournalBuy
    BY <2>2, JournalKeeps
  <2>3. CASE \E p \in PosIds : CycleSkip(p) \/ CycleEvaluate(p) \/ TickSkip(p) \/ TickVisit(p)
    BY <2>3, VisitKeeps
  <2>4. CASE \E p \in PosIds : CycleSettle(p) \/ TickSettle(p)
    BY <2>4, SettleKeeps
  <2>5. CASE \E p \in PosIds : CycleStopLoss(p)
    BY <2>5, CycleStopLossKeeps
  <2>6. CASE EvaluateFails \/ ResearchFails \/ CycleScans \/ ScanDone \/ TickMovesOn \/ TickDone
    BY <2>6, MoveKeeps
  <2>7. CASE EvaluateDone
    BY <2>7, EvaluateKeeps
  <2>8. CASE \E m \in Markets : ScanSkip(m) \/ ScanEvaluate(m)
    BY <2>8, ScanKeeps
  <2>9. CASE ResearchEnters
    BY <2>9, ResearchKeeps
  <2>10. CASE LimitFills \/ LimitFallsBack
    BY <2>10, LimitKeeps
  <2>11. CASE LimitRests
    BY <2>11, RestsKeeps
  <2>12. CASE TickStopLoss
    BY <2>12, TickStopLossKeeps
  <2>13. QED
    BY <1>1, <2>1, <2>2, <2>3, <2>4, <2>5, <2>6, <2>7, <2>8, <2>9, <2>10, <2>11, <2>12 DEF Run
<1>2. CASE Start
  <2>1. CASE StartCycle \/ StartTick
    BY <2>1, StartKeeps
  <2>2. CASE \E p \in Seeds : SeedBuy(p)
    BY <2>2, SeedKeeps
  <2>3. QED
    BY <1>2, <2>1, <2>2 DEF Start
<1>3. CASE Environment
  <2>1. CASE (\E m \in Markets : Resolve(m)) \/ (\E p \in PosIds : Collapse(p)) \/ Crash
    BY <2>1, WorldKeeps
  <2>2. CASE \E p \in PosIds : Expire(p)
    BY <2>2, ExpireKeeps
  <2>3. QED
    BY <1>3, <2>1, <2>2 DEF Environment
<1>4. CASE UNCHANGED vars
  BY <1>4 DEF vars, runVars, envVars, RunInv, TypeOK, Stage
<1>5. QED
  BY <1>1, <1>2, <1>3, <1>4 DEF Next

\* The invariant holds throughout.
LEMMA RunSafe == Spec => []RunInv
  BY RunInit, RunStep, PTL DEF Spec

\* Every variable keeps its type, whatever runs, fails or crashes.
THEOREM RunsTyped == Spec => []TypeOK
<1>1. RunInv => TypeOK
  BY DEF RunInv
<1>2. QED
  BY <1>1, RunSafe, PTL

\* In the saved book and in the one a run works on, a resting exit is alone on
\* its position and is for exactly the shares the position has left, after any
\* number of partial fills, fallbacks, stop-losses, settlements and crashes.
THEOREM ExitsCovered == Spec => []ExitsCoverPositions
<1>1. RunInv => ExitsCoverPositions
  BY DEF RunInv, GoodBook, OneExit, ExitsCoverPositions, Covered
<1>2. QED
  BY <1>1, RunSafe, PTL

\* No resting exit but a stop-loss is ever left on a position that the last
\* evaluation decided to ride to resolution, so no fill and no time to live
\* sells it behind that decision.
THEOREM HoldsKept == Spec => []SaturatedHoldIsKept
<1>1. RunInv => SaturatedHoldIsKept
  BY DEF RunInv, GoodBook, Kept, SaturatedHoldIsKept
<1>2. QED
  BY <1>1, RunSafe, PTL
-----------------------------------------------------------------------------
(* The account and the ledger: what a save and a ledger entry owe each       *)
(* other, and the caps of an entry, from the decision to the ledger.         *)

\* What PaperAccount sees of a book.
View(b) == [shares |-> [p \in PosIds |-> b.pos[p].shares],
            cost |-> [p \in PosIds |-> Cost(b.pos[p])],
            cash |-> b.cash, realized |-> b.realized]

Reduced(v, w, p, n, proceeds) ==
    /\ w.shares = [v.shares EXCEPT ![p] = v.shares[p] - n]
    /\ w.cost = [v.cost EXCEPT ![p] = IF n = v.shares[p] THEN 0 ELSE v.cost[p]]
    /\ w.cash = v.cash + proceeds
    /\ w.realized = v.realized + proceeds - n * v.cost[p]

Sale(v, w, p, n) == \/ \E proceeds \in 0..(n * (One - 1)) : Reduced(v, w, p, n, proceeds)
                    \/ /\ n = v.shares[p]
                       /\ \E value \in {0, One \div 2, One} : Reduced(v, w, p, n, n * value)

Purchase(v, w, p) ==
    /\ v.shares[p] = 0 /\ w.shares[p] > 0 /\ w.cost[p] >= 0
    /\ w.shares = [v.shares EXCEPT ![p] = w.shares[p]]
    /\ w.cost = [v.cost EXCEPT ![p] = w.cost[p]]
    /\ w.cash = v.cash - w.shares[p] * w.cost[p] /\ w.cash >= 0
    /\ w.realized = v.realized

\* One step of the account, or none.
Move(v, w) == \/ w = v
              \/ \E p \in PosIds : Purchase(v, w, p)
              \/ \E p \in PosIds : \E n \in 1..v.shares[p] : Sale(v, w, p, n)

\* A run changes its copy by one step of the account between two saves.
AccountInv ==
    /\ disk.cash >= 0 /\ mem.cash >= 0
    /\ pc \notin {"idle", "save"} => mem = disk
    /\ pc = "save" => Move(View(disk), View(mem))
    /\ pc = "research" => mem.cash >= Budget

\* Shares that the save in progress adds, and those the book then shows.
Grown(p) == IF pc = "save" THEN Max2(0, mem.pos[p].shares - disk.pos[p].shares) ELSE 0
Ahead(p) == IF pc = "save" THEN mem.pos[p].shares ELSE disk.pos[p].shares
Entering(p) == Stage = "bought" /\ p = cur

\* The ledger counts a sale before it is saved and a buy after.
Ledgered(p) ==
    /\ journal.gone[p] >= opened[p] + Grown(p) - Ahead(p)
    /\ journal.bought[p] <= opened[p]
    /\ crashes = 0 => journal.gone[p] = opened[p] + Grown(p) - Ahead(p)
    /\ crashes = 0 /\ ~(pc = "bought" /\ p = cur) => journal.bought[p] = opened[p]
    /\ pc = "save" /\ ~Entering(p) => mem.pos[p].shares <= disk.pos[p].shares
    /\ pc = "save" /\ Entering(p) => disk.pos[p].shares = 0
    /\ pc = "bought" /\ p = cur =>
         /\ journal.bought[p] + mem.pos[p].shares <= opened[p]
         /\ crashes = 0 => journal.bought[p] + mem.pos[p].shares = opened[p]
LedgerInv == \A p \in PosIds : Ledgered(p)

Caps(b, p) == /\ Cardinality(HeldInEvent(b, EventOf[MarketOf(p)])) <= MaxPerEvent
              /\ Cardinality(Open(b)) <= MaxPositions
              /\ \A s \in Side : Held(b, <<MarketOf(p), s>>) => s = SideOf(p)

\* There is room for the entry under research, and the entry took it.
CapsInv ==
    /\ pc = "research" =>
         /\ Cardinality(Open(mem)) < MaxPositions
         /\ Cardinality(HeldInEvent(mem, EventOf[MarketOf(cur)])) < MaxPerEvent
    /\ Stage = "bought" /\ kind = "cycle" => Caps(mem, cur)

\* A fee is a part of the price (feeUsd).
LEMMA FeeBelowPrice ==
    ASSUME NEW price \in Nat, NEW bps \in Nat, bps <= 10000
    PROVE  PerShareFee(price, bps) \in Nat /\ PerShareFee(price, bps) <= price
<1>1. PerShareFee(price, bps) \in Nat
  BY FeeNat
<1>2. CASE price \in 1..(One - 1)
  <2> DEFINE m == Min2(price, One - price)
             k == bps * m
  <2>1. m \in Nat /\ m <= price
    BY <1>2, PolicyAssumption DEF PolicyAssumption, Min2
  <2> HIDE DEF m
  <2>2. k \in Nat /\ (10000 - bps) * m \in Nat
    BY <2>1, ProductNat
  <2>3. (10000 - bps) * m = 10000 * m - k
    BY <2>1
  <2> HIDE DEF k
  <2>4. k <= 10000 * m
    BY <2>1, <2>2, <2>3
  <2>5. k \div 10000 <= price
    BY <2>1, <2>2, <2>4
  <2>6. PerShareFee(price, bps) = k \div 10000
    BY <1>2 DEF PerShareFee, k, m
  <2>7. QED
    BY <1>1, <2>5, <2>6
<1>3. CASE price \notin 1..(One - 1)
  BY <1>1, <1>3 DEF PerShareFee
<1>4. QED
  BY <1>2, <1>3

\* The venue's rates are rates.
LEMMA RatesOK == /\ TakerBps \in Nat /\ TakerBps <= 10000
                 /\ MakerBps \in Nat /\ MakerBps <= 10000
  BY PolicyAssumption, FeeAssumption DEF PolicyAssumption, FeeAssumption

\* A product of naturals grows with its factor.
LEMMA ProductBound ==
    ASSUME NEW n \in Nat, NEW a \in Nat, NEW b \in Nat, a <= b
    PROVE  n * a \in Nat /\ n * a <= n * b
<1>1. n * a \in Nat /\ n * b \in Nat /\ n * (b - a) \in Nat
  BY ProductNat
<1>2. n * (b - a) = n * b - n * a
  OBVIOUS
<1>3. QED
  BY <1>1, <1>2

\* A sale at one price brings at least nothing and less than a dollar a share.
LEMMA SaleRange ==
    ASSUME NEW n \in Nat, NEW price \in Nat, price < One,
           NEW bps \in Nat, bps <= 10000
    PROVE  n * price - FeeUsd(n, price, bps) \in 0..(n * (One - 1))
<1> DEFINE fee == PerShareFee(price, bps)
<1>1. fee \in Nat /\ fee <= price
  BY FeeBelowPrice
<1> HIDE DEF fee
<1>2. price - fee \in Nat /\ One - 1 \in Nat /\ price - fee <= One - 1
  BY <1>1, PolicyAssumption DEF PolicyAssumption
<1>3. n * (price - fee) \in Nat /\ n * (price - fee) <= n * (One - 1)
  BY <1>2, ProductBound
<1>4. n * (price - fee) = n * price - n * fee
  BY <1>1
<1>5. n * (One - 1) \in Nat
  BY <1>2, ProductNat
<1>6. QED
  BY <1>3, <1>4, <1>5 DEF FeeUsd, fee

\* From book b to book c, n shares of p were sold or settled, and nothing else
\* of the account moved.
Took(b, c, p, n) ==
    /\ n \in 0..b.pos[p].shares
    /\ IF n = 0 THEN View(c) = View(b) ELSE Sale(View(b), View(c), p, n)

\* What a sale does to the account (applySell).
LEMMA SellView ==
    ASSUME NEW b \in Portfolio, NEW p \in PosIds,
           NEW n \in 1..b.pos[p].shares, NEW proceeds \in Int
    PROVE  Reduced(View(b), View(ApplySell(b, p, n, proceeds)), p, n, proceeds)
<1> DEFINE x == b.pos[p]
           left == x.shares - n
           booked == [b EXCEPT !.cash = @ + proceeds,
                               !.realized = @ + proceeds - n * Cost(x)]
           r == ApplySell(b, p, n, proceeds)
<1>1. b.pos \in [PosIds -> Position] /\ x.shares \in Nat
  BY SharesNat DEF Portfolio
<1>2. /\ booked.pos = b.pos /\ booked.cash = b.cash + proceeds
      /\ booked.realized = b.realized + proceeds - n * Cost(x)
  BY DEF Portfolio
<1>3. n > 0 /\ left >= 0 /\ (left = 0 <=> n = x.shares) /\ left \in Nat
  BY <1>1
<1>4. CASE left > 0
  <2>1. r = [booked EXCEPT !.pos[p].shares = left]
    BY <1>3, <1>4 DEF ApplySell
  <2>2. /\ r.cash = booked.cash /\ r.realized = booked.realized
        /\ r.pos = [b.pos EXCEPT ![p] = [x EXCEPT !.shares = left]]
    BY <1>1, <1>2, <2>1 DEF Portfolio
  <2>3. /\ [x EXCEPT !.shares = left].shares = left
        /\ Cost([x EXCEPT !.shares = left]) = Cost(x)
    BY <1>1 DEF Position, Cost
  <2> HIDE DEF r, booked, left
  <2>4. View(r).shares = [View(b).shares EXCEPT ![p] = left]
    BY <1>1, <2>2, <2>3 DEF View
  <2>5. View(r).cost = View(b).cost
    BY <1>1, <2>2, <2>3 DEF View
  <2>6. View(b).shares[p] = x.shares /\ View(b).cost[p] = Cost(x)
    BY DEF View
  <2>7. View(r).cost = [View(b).cost EXCEPT ![p] = View(b).cost[p]]
    BY <2>5 DEF View
  <2>8. n # x.shares
    BY <1>3, <1>4
  <2>9. /\ View(r).cash = View(b).cash + proceeds
        /\ View(r).realized = View(b).realized + proceeds - n * View(b).cost[p]
    BY <1>2, <2>2, <2>6 DEF View
  <2>10. QED
    BY <2>4, <2>6, <2>7, <2>8, <2>9 DEF Reduced, left, r
<1>5. CASE left = 0
  <2>1. r = DropLimits([booked EXCEPT !.pos[p] = Flat], p)
    BY <1>3, <1>5 DEF ApplySell
  <2>2. /\ r.cash = booked.cash /\ r.realized = booked.realized
        /\ r.pos = [b.pos EXCEPT ![p] = Flat]
    BY <1>1, <1>2, <2>1 DEF Portfolio, DropLimits
  <2>3. Flat.shares = 0 /\ Cost(Flat) = 0
    BY DEF Flat, Cost
  <2> HIDE DEF r, booked
  <2>4. View(r).shares = [View(b).shares EXCEPT ![p] = 0]
    BY <1>1, <2>2, <2>3 DEF View
  <2>5. View(r).cost = [View(b).cost EXCEPT ![p] = 0]
    BY <1>1, <2>2, <2>3 DEF View
  <2>6. View(b).shares[p] = x.shares /\ View(b).cost[p] = Cost(x)
    BY DEF View
  <2>7. n = x.shares /\ x.shares - n = 0
    BY <1>3, <1>5
  <2>8. /\ View(r).cash = View(b).cash + proceeds
        /\ View(r).realized = View(b).realized + proceeds - n * View(b).cost[p]
    BY <1>2, <2>2, <2>6 DEF View
  <2>9. QED
    BY <2>4, <2>5, <2>6, <2>7, <2>8 DEF Reduced, r
<1>6. QED
  BY <1>3, <1>4, <1>5

\* A sale at one price (applySell under every fill).
LEMMA SellTakes ==
    ASSUME NEW b \in Portfolio, NEW p \in PosIds, NEW n \in 0..b.pos[p].shares,
           NEW price \in Nat, price < One, NEW bps \in Nat, bps <= 10000
    PROVE  Took(b, SellAt(b, p, n, price, bps), p, n)
<1> DEFINE proceeds == n * price - FeeUsd(n, price, bps)
<1>1. b.pos[p].shares \in Nat /\ n \in Nat
  BY SharesNat
<1>2. proceeds \in 0..(n * (One - 1))
  BY <1>1, SaleRange
<1>3. n * (One - 1) \in Int
  BY <1>1, PolicyAssumption DEF PolicyAssumption
<1> HIDE DEF proceeds
<1>4. SellAt(b, p, n, price, bps) = ApplySell(b, p, n, proceeds)
  BY DEF SellAt, proceeds
<1>5. CASE n = 0
  <2>1. ApplySell(b, p, n, proceeds) = b
    BY <1>5 DEF ApplySell
  <2>2. QED
    BY <1>4, <1>5, <2>1 DEF Took
<1>6. CASE n # 0
  <2>1. n \in 1..b.pos[p].shares /\ proceeds \in Int
    BY <1>1, <1>2, <1>3, <1>6
  <2>2. Reduced(View(b), View(ApplySell(b, p, n, proceeds)), p, n, proceeds)
    BY <2>1, SellView
  <2>3. QED
    BY <1>2, <1>4, <1>6, <2>2 DEF Took, Sale
<1>7. QED
  BY <1>5, <1>6

\* A settlement takes the whole position at 0, 1/2 or 1 (applySettlement).
LEMMA SettleTakes ==
    ASSUME NEW b \in Portfolio, NEW p \in PosIds, NEW outcome \in Settled
    PROVE  Took(b, ApplySettlement(b, p, outcome), p, b.pos[p].shares)
<1> DEFINE n == b.pos[p].shares
           value == Payout(SideOf(p), outcome)
<1>1. n \in Nat
  BY SharesNat
<1>2. value \in {0, One \div 2, One} /\ value \in Int
  BY PolicyAssumption DEF PolicyAssumption, Payout, Settled
<1>3. ApplySettlement(b, p, outcome) = ApplySell(b, p, n, n * value)
  BY DEF ApplySettlement
<1>4. View(b).shares[p] = n
  BY DEF View
<1> HIDE DEF value
<1>5. CASE n = 0
  <2>1. ApplySell(b, p, n, n * value) = b
    BY <1>5 DEF ApplySell
  <2>2. QED
    BY <1>3, <1>5, <2>1 DEF Took
<1>6. CASE n # 0
  <2>1. n \in 1..b.pos[p].shares /\ n * value \in Int
    BY <1>1, <1>2, <1>6
  <2>2. Reduced(View(b), View(ApplySell(b, p, n, n * value)), p, n, n * value)
    <3> HIDE DEF n
    <3> QED
      BY <2>1, SellView
  <2>3. QED
    BY <1>1, <1>2, <1>3, <1>4, <1>6, <2>2 DEF Took, Sale
<1>7. QED
  BY <1>5, <1>6

\* Resting orders and flags are not part of the account.
LEMMA SameView ==
    ASSUME NEW b \in Portfolio, NEW p \in PosIds
    PROVE  /\ \A l : View([b EXCEPT !.limits[p] = l]) = View(b)
           /\ \A i, l : View([b EXCEPT !.limits[p][i] = l]) = View(b)
           /\ \A h : View([b EXCEPT !.pos[p].satHold = h]) = View(b)
<1>1. ASSUME NEW l PROVE View([b EXCEPT !.limits[p] = l]) = View(b)
  BY DEF View, Portfolio
<1>2. ASSUME NEW i, NEW l PROVE View([b EXCEPT !.limits[p][i] = l]) = View(b)
  BY DEF View, Portfolio
<1>3. ASSUME NEW h PROVE View([b EXCEPT !.pos[p].satHold = h]) = View(b)
  <2> DEFINE x == [b.pos[p] EXCEPT !.satHold = h]
             r == [b EXCEPT !.pos[p].satHold = h]
  <2>1. b.pos \in [PosIds -> Position]
    BY DEF Portfolio
  <2>2. x.shares = b.pos[p].shares /\ Cost(x) = Cost(b.pos[p])
    BY <2>1 DEF Position, Cost
  <2>3. r.pos = [b.pos EXCEPT ![p] = x] /\ r.cash = b.cash /\ r.realized = b.realized
    BY DEF Portfolio
  <2> HIDE DEF x, r
  <2>4. \A q \in PosIds : r.pos[q].shares = b.pos[q].shares /\ Cost(r.pos[q]) = Cost(b.pos[q])
    BY <2>1, <2>2, <2>3
  <2>5. QED
    BY <2>3, <2>4 DEF View, r
<1>4. QED
  BY <1>1, <1>2, <1>3

\* Nor are orders that are cancelled.
LEMMA DropView ==
    ASSUME NEW b \in Portfolio, NEW p \in PosIds PROVE View(DropLimits(b, p)) = View(b)
  BY SameView, SMTT(30) DEF DropLimits

\* An exit takes what it sells; the rest of it rests (executeExit).
LEMMA ExitTakes ==
    ASSUME NEW b, GoodBook(b), NEW p \in PosIds, b.limits[p] = <<>>,
           NEW book \in Book, NEW prob \in Prob, NEW reason \in ExitReason,
           b.pos[p].satHold => reason = "stop_loss"
    PROVE  Took(b, ExecuteExit(b, p, book, prob, reason), p,
                ExitFill(b, p, book, prob, reason))
<1> DEFINE fill == ExitFill(b, p, book, prob, reason)
           sold == SellAt(b, p, fill, book.bid, TakerBps)
<1>1. b \in Portfolio /\ fill \in 0..b.pos[p].shares
  BY ExitGood DEF GoodBook
<1>2. book.bid \in Nat /\ book.bid < One
  BY PolicyAssumption DEF PolicyAssumption, Book
<1> HIDE DEF fill
<1>3. Took(b, sold, p, fill)
  BY <1>1, <1>2, RatesOK, SellTakes
<1>4. sold \in Portfolio
  <2> DEFINE proceeds == fill * book.bid - FeeUsd(fill, book.bid, TakerBps)
  <2>1. fill \in Nat /\ b.pos[p].shares \in Nat /\ TakerBps \in Nat
    BY <1>1, SharesNat, RatesOK
  <2>2. fill * book.bid - FeeUsd(fill, book.bid, TakerBps) \in Int
    BY <1>2, <2>1, ProceedsInt
  <2> HIDE DEF proceeds
  <2>3. sold = ApplySell(b, p, fill, proceeds)
    BY DEF SellAt, proceeds, sold
  <2>4. proceeds \in Int
    BY <2>2 DEF proceeds
  <2>5. QED
    BY <1>1, <2>3, <2>4, SellFacts
<1> HIDE DEF sold
<1>5. View(ExecuteExit(b, p, book, prob, reason)) = View(sold)
  <2>1. \/ ExecuteExit(b, p, book, prob, reason) = sold
        \/ \E l : ExecuteExit(b, p, book, prob, reason)
                    = [sold EXCEPT !.limits[p] = Append(sold.limits[p], l)]
    BY DEF ExecuteExit, sold, fill
  <2>2. QED
    BY <1>4, <2>1, SameView, SMTT(30)
<1>6. QED
  BY <1>3, <1>5 DEF Took, fill

\* So does whatever an evaluation decides.
LEMMA DecideTakes ==
    ASSUME NEW b, GoodBook(b), NEW p \in PosIds,
           NEW eval \in Evaluation, NEW book \in Book
    PROVE  Took(b, Decide(b, p, eval, book).book, p, Decide(b, p, eval, book).sold)
<1> DEFINE decision == FinalDecision(eval, b.pos[p].price, SideOf(p), book)
           exits    == decision.reason # "hold"
           cleared  == IF decision.saturatedHold \/ exits THEN DropLimits(b, p) ELSE b
           noted    == [cleared EXCEPT !.pos[p].satHold = decision.saturatedHold]
           prob     == ProbFor(eval, SideOf(p))
<1>1. /\ decision.reason \in ExitReason \cup {"hold"}
      /\ decision.saturatedHold \in BOOLEAN
      /\ decision.saturatedHold => decision.reason = "hold"
  BY DecisionOK
<1>2. prob \in Prob
  <2>1. SideOf(p) \in Side /\ eval.probYes \in Prob
    BY DEF SideOf, PosIds, Evaluation
  <2>2. QED
    BY <2>1, ProbOK
<1>3. b \in Portfolio
  BY DEF GoodBook
<1> HIDE DEF decision, prob
<1>4. /\ GoodBook(cleared)
      /\ decision.saturatedHold \/ exits => cleared.limits[p] = <<>>
      /\ View(cleared) = View(b)
  <2>1. View(DropLimits(b, p)) = View(b)
    BY <1>3, DropView
  <2>2. QED
    BY <2>1, DropGood
<1> HIDE DEF cleared
<1>5. /\ GoodBook(noted) /\ noted.limits = cleared.limits
      /\ noted.pos[p].satHold = decision.saturatedHold
      /\ noted.pos[p].shares = cleared.pos[p].shares
      /\ View(noted) = View(cleared)
  <2>1. cleared \in Portfolio
    BY <1>4 DEF GoodBook
  <2>2. View(noted) = View(cleared)
    BY <2>1, SameView
  <2>3. QED
    BY <1>1, <1>4, <2>2, FlagGood
<1> HIDE DEF noted
<1>6. View(noted) = View(b) /\ noted.pos[p].shares = b.pos[p].shares
  <2>1. View(noted).shares[p] = noted.pos[p].shares /\ View(b).shares[p] = b.pos[p].shares
    BY DEF View
  <2>2. QED
    BY <1>4, <1>5, <2>1
<1>7. Decide(b, p, eval, book)
        = [book |-> IF exits THEN ExecuteExit(noted, p, book, prob, decision.reason) ELSE noted,
           sold |-> IF exits THEN ExitFill(noted, p, book, prob, decision.reason) ELSE 0]
  BY DEF Decide, noted, cleared, decision, prob
<1>8. CASE exits
  <2>1. decision.reason \in ExitReason /\ ~noted.pos[p].satHold /\ noted.limits[p] = <<>>
    BY <1>1, <1>4, <1>5, <1>8
  <2>2. Took(noted, ExecuteExit(noted, p, book, prob, decision.reason), p,
             ExitFill(noted, p, book, prob, decision.reason))
    BY <1>2, <1>5, <2>1, ExitTakes
  <2>3. QED
    BY <1>6, <1>7, <1>8, <2>2 DEF Took
<1>9. CASE ~exits
  <2>1. b.pos[p].shares \in Nat
    BY <1>3, SharesNat
  <2>2. QED
    BY <1>6, <1>7, <1>9, <2>1 DEF Took
<1>10. QED
  BY <1>8, <1>9

\* Shrinking or dropping a resting exit moves no money.
LEMMA ShrinkView ==
    ASSUME NEW b \in Portfolio, cur \in PosIds, NEW n, NEW expired
    PROVE  View(ShrinkLimit(b, n, expired)) = View(b)
<1> DEFINE dropped == SubSeq(b.limits[cur], 1, cursor - 1)
                        \o SubSeq(b.limits[cur], cursor + 1, Len(b.limits[cur]))
           l == [TheLimit EXCEPT !.shares = TheLimit.shares - n, !.expired = expired]
<1>1. \/ ShrinkLimit(b, n, expired) = b
      \/ ShrinkLimit(b, n, expired) = [b EXCEPT !.limits[cur][cursor] = l]
      \/ ShrinkLimit(b, n, expired) = [b EXCEPT !.limits[cur] = dropped]
  BY Zenon DEF ShrinkLimit
<1> HIDE DEF dropped, l
<1>2. /\ View([b EXCEPT !.limits[cur][cursor] = l]) = View(b)
      /\ View([b EXCEPT !.limits[cur] = dropped]) = View(b)
  BY SameView
<1>3. QED
  BY <1>1, <1>2

\* Two portfolios that look alike hold the same.
LEMMA ViewShares ==
    ASSUME NEW b, NEW p \in PosIds
    PROVE  /\ View(b).shares[p] = b.pos[p].shares /\ View(b).cost[p] = Cost(b.pos[p])
           /\ View(b).cash = b.cash /\ View(b).realized = b.realized
           /\ DOMAIN View(b).shares = PosIds /\ DOMAIN View(b).cost = PosIds
  BY DEF View

-----------------------------------------------------------------------------
(* What the steps of a run do to account and ledger.                         *)

\* What a sale leaves in the positions.
LEMMA TookShares ==
    ASSUME NEW b \in Portfolio, NEW c, NEW p \in PosIds, NEW n, Took(b, c, p, n)
    PROVE  /\ n \in Nat /\ n <= b.pos[p].shares
           /\ c.pos[p].shares = b.pos[p].shares - n
           /\ \A q \in PosIds \ {p} : c.pos[q].shares = b.pos[q].shares
<1>1. b.pos[p].shares \in Nat
  BY SharesNat
<1>2. n \in Nat /\ n <= b.pos[p].shares
  BY <1>1 DEF Took
<1>3. CASE n = 0
  <2>1. View(c) = View(b)
    BY <1>3 DEF Took
  <2>2. \A q \in PosIds : c.pos[q].shares = b.pos[q].shares
    BY <2>1, ViewShares
  <2>3. QED
    BY <1>1, <1>3, <2>2
<1>4. CASE n # 0
  <2>1. View(c).shares = [View(b).shares EXCEPT ![p] = View(b).shares[p] - n]
    BY <1>4 DEF Took, Sale, Reduced
  <2>2. /\ View(c).shares[p] = View(b).shares[p] - n
        /\ \A q \in PosIds \ {p} : View(c).shares[q] = View(b).shares[q]
    BY <2>1, ViewShares
  <2>3. QED
    BY <1>2, <2>2, ViewShares
<1>5. QED
  BY <1>3, <1>4

\* A sale is a step of the account, and its cash stays where it was or grows.
LEMMA TookMoves ==
    ASSUME NEW b \in Portfolio, NEW c, NEW p \in PosIds, NEW n, Took(b, c, p, n)
    PROVE  Move(View(b), View(c)) /\ c.cash >= b.cash
<1>1. b.pos[p].shares \in Nat /\ b.cash \in Int
  BY SharesNat DEF Portfolio
<1>2. n \in 0..b.pos[p].shares
  BY DEF Took
<1>3. CASE n = 0
  <2>1. View(c) = View(b)
    BY <1>3 DEF Took
  <2>2. c.cash = b.cash
    BY <2>1, ViewShares
  <2>3. QED
    BY <1>1, <2>1, <2>2 DEF Move
<1>4. CASE n # 0
  <2>1. Sale(View(b), View(c), p, n)
    BY <1>4 DEF Took
  <2>2. n \in 1..View(b).shares[p]
    BY <1>1, <1>2, <1>4, ViewShares
  <2>3. PICK proceeds \in Nat : View(c).cash = View(b).cash + proceeds
    <3>1. n \in Nat /\ One - 1 \in Nat /\ One \in Nat /\ One \div 2 \in Nat
      BY <1>1, <1>2, PolicyAssumption DEF PolicyAssumption
    <3>2. n * (One - 1) \in Nat /\ n * 0 \in Nat /\ n * One \in Nat /\ n * (One \div 2) \in Nat
      BY <3>1, ProductNat
    <3>3. CASE \E x \in 0..(n * (One - 1)) : Reduced(View(b), View(c), p, n, x)
      BY <3>2, <3>3 DEF Reduced
    <3>4. CASE \E value \in {0, One \div 2, One} : Reduced(View(b), View(c), p, n, n * value)
      BY <3>2, <3>4 DEF Reduced
    <3>5. QED
      BY <2>1, <3>3, <3>4 DEF Sale
  <2>4. c.cash >= b.cash
    <3>1. c.cash = b.cash + proceeds
      BY <2>3, ViewShares
    <3>2. QED
      BY <1>1, <2>3, <3>1
  <2>5. QED
    BY <2>1, <2>2, <2>4 DEF Move
<1>5. QED
  BY <1>3, <1>4

\* The common form of the steps that sell, settle or hold: the ledger counts
\* what the run's copy of the book has lost.
SaleStep == /\ \E p \in PosIds, n \in Nat : Took(mem, mem', p, n) /\ JournalGone(p, n)
            /\ pc \in {"cycle", "evaluate", "limits", "tick"} /\ pc' = "save"
            /\ after' \in {"cycle", "limits", "tick"}
            /\ UNCHANGED <<disk, opened, crashes>>

\* A settlement is such a step (settleFromMarket).
LEMMA SettleSells ==
    ASSUME RunInv, NEW p \in PosIds, CycleSettle(p) \/ TickSettle(p) PROVE SaleStep
<1>1. resolution[MarketOf(p)] \in Settled
  BY DEF CycleSettle, TickSettle, SettleVisited
<1>2. mem \in Portfolio /\ mem.pos[p].shares \in Nat
  BY SharesNat DEF RunInv, TypeOK
<1>3. Took(mem, ApplySettlement(mem, p, resolution[MarketOf(p)]), p, mem.pos[p].shares)
  BY <1>1, <1>2, SettleTakes
<1>4. QED
  BY <1>2, <1>3 DEF SaleStep, CycleSettle, TickSettle, SettleVisited, SaveThen, envVars

\* So is the stop-loss of a cycle.
LEMMA CycleStopLossSells ==
    ASSUME RunInv, NEW p \in PosIds, CycleStopLoss(p) PROVE SaleStep
<1> DEFINE b == DropLimits(mem, p)
<1>1. PICK book \in Shown(p) :
         /\ SaveThen(ExecuteExit(b, p, book, 0, "stop_loss"), "cycle")
         /\ JournalGone(p, ExitFill(b, p, book, 0, "stop_loss"))
  BY DEF CycleStopLoss
<1>2. book \in Book /\ 0 \in Prob /\ "stop_loss" \in ExitReason
  BY ShownOK, PolicyAssumption DEF PolicyAssumption, Prob, ExitReason
<1>3. GoodBook(b) /\ b.limits[p] = <<>> /\ View(b) = View(mem) /\ b.pos = mem.pos
  BY DropGood, DropView DEF RunInv, TypeOK
<1> HIDE DEF b
<1>4. Took(b, ExecuteExit(b, p, book, 0, "stop_loss"), p, ExitFill(b, p, book, 0, "stop_loss"))
  BY <1>2, <1>3, ExitTakes
<1>5. ExitFill(b, p, book, 0, "stop_loss") \in Nat
  BY <1>2, <1>3, StopLossGood
<1>6. Took(mem, ExecuteExit(b, p, book, 0, "stop_loss"), p, ExitFill(b, p, book, 0, "stop_loss"))
  BY <1>3, <1>4 DEF Took
<1>7. QED
  BY <1>1, <1>5, <1>6 DEF SaleStep, CycleStopLoss, SaveThen, envVars

\* So is the one of a tick.
LEMMA TickStopLossSells == ASSUME RunInv, TickStopLoss PROVE SaleStep
<1>1. cur \in PosIds /\ mem.limits[cur] = <<>> /\ GoodBook(mem)
  BY DEF RunInv, Stage, TickStopLoss, TickStops
<1>2. seen \in Book /\ 0 \in Prob /\ "stop_loss" \in ExitReason
  BY NoBookOK, RunsAssumption, PolicyAssumption
     DEF RunsAssumption, PolicyAssumption, RunInv, TypeOK, Prob, ExitReason
<1>3. Took(mem, ExecuteExit(mem, cur, seen, 0, "stop_loss"), cur,
           ExitFill(mem, cur, seen, 0, "stop_loss"))
  BY <1>1, <1>2, ExitTakes
<1>4. ExitFill(mem, cur, seen, 0, "stop_loss") \in Nat
  BY <1>1, <1>2, StopLossGood
<1>5. QED
  BY <1>1, <1>3, <1>4 DEF SaleStep, TickStopLoss, SaveThen, envVars

\* So is what a cycle does with an evaluation, hold or exit.
LEMMA EvaluateSells == ASSUME RunInv, EvaluateDone PROVE SaleStep
<1>1. cur \in PosIds /\ GoodBook(mem)
  BY DEF RunInv, Stage, EvaluateDone
<1>2. PICK eval \in Evaluations, book \in Shown(cur) :
         /\ SaveThen(Decide(mem, cur, eval, book).book, "cycle")
         /\ JournalGone(cur, Decide(mem, cur, eval, book).sold)
  BY DEF EvaluateDone
<1>3. eval \in Evaluation /\ book \in Book
  BY ShownOK, RunsAssumption DEF RunsAssumption
<1>4. /\ Took(mem, Decide(mem, cur, eval, book).book, cur, Decide(mem, cur, eval, book).sold)
      /\ Decide(mem, cur, eval, book).sold \in Nat
  BY <1>1, <1>3, DecideTakes, DecideGood
<1>5. QED
  BY <1>1, <1>2, <1>4 DEF SaleStep, EvaluateDone, SaveThen, envVars

\* A limit is for the shares of its position (one exit per position).
LEMMA LimitSells == ASSUME RunInv, LimitFills \/ LimitFallsBack PROVE SaleStep
<1>1. AtLimit
  BY DEF LimitFills, LimitFallsBack
<1>2. /\ cur \in PosIds /\ TheLimit \in Limit /\ mem.pos[cur].shares \in Nat
      /\ seen \in Book /\ mem \in Portfolio
  BY <1>1, AtLimitFacts DEF RunInv, TypeOK
<1>3. /\ TheLimit.shares \in Nat /\ TheLimit.price \in Nat /\ TheLimit.price < One
      /\ TheLimit.expired \in BOOLEAN
      /\ seen.bid \in Nat /\ seen.bid < One /\ seen.size \in Nat
  BY <1>2, PolicyAssumption DEF PolicyAssumption, Limit, Book
<1>4. PICK n \in 0..mem.pos[cur].shares, price \in Nat, bps \in Nat, expired \in BOOLEAN :
         /\ price < One /\ bps <= 10000
         /\ mem' = ShrinkLimit(SellAt(mem, cur, n, price, bps), n, expired)
         /\ JournalGone(cur, n)
  <2>1. CASE LimitFills
    <3>1. LimitFill \in 0..mem.pos[cur].shares
      BY <1>2, <1>3 DEF LimitFill, Min2
    <3>2. /\ mem' = ShrinkLimit(SellAt(mem, cur, LimitFill, TheLimit.price, MakerBps),
                                LimitFill, TheLimit.expired)
          /\ JournalGone(cur, LimitFill)
      BY <2>1 DEF LimitFills, SaveThen
    <3>3. MakerBps \in Nat /\ MakerBps <= 10000
      BY RatesOK
    <3>4. QED
      BY <1>3, <3>1, <3>2, <3>3
  <2>2. CASE LimitFallsBack
    <3> DEFINE expired == FALSE
    <3>1. FallbackFill \in 0..mem.pos[cur].shares
      BY <1>2, <1>3 DEF FallbackFill, MarketFill, Min2
    <3>2. /\ mem' = ShrinkLimit(SellAt(mem, cur, FallbackFill, seen.bid, TakerBps),
                                FallbackFill, expired)
          /\ JournalGone(cur, FallbackFill)
      BY <2>2 DEF LimitFallsBack, SaveThen
    <3>3. TakerBps \in Nat /\ TakerBps <= 10000 /\ expired \in BOOLEAN
      BY RatesOK
    <3> HIDE DEF expired
    <3>4. QED
      BY <1>3, <3>1, <3>2, <3>3
  <2>3. QED
    BY <2>1, <2>2
<1> DEFINE sold == SellAt(mem, cur, n, price, bps)
<1>5. Took(mem, sold, cur, n)
  BY <1>2, <1>4, SellTakes
<1>6. sold \in Portfolio
  <2> DEFINE proceeds == n * price - FeeUsd(n, price, bps)
  <2>1. n \in Nat
    BY <1>2, <1>4
  <2>2. n * price - FeeUsd(n, price, bps) \in Int
    BY <1>4, <2>1, ProceedsInt
  <2> HIDE DEF proceeds
  <2>3. sold = ApplySell(mem, cur, n, proceeds) /\ proceeds \in Int
    BY <2>2 DEF SellAt, proceeds
  <2> HIDE DEF sold
  <2>4. QED
    BY <1>2, <1>4, <2>3, SellFacts
<1> HIDE DEF sold
<1>7. View(mem') = View(sold)
  BY <1>2, <1>4, <1>6, ShrinkView DEF sold
<1>8. Took(mem, mem', cur, n) /\ n \in Nat
  BY <1>2, <1>4, <1>5, <1>7 DEF Took
<1>9. \E p \in PosIds, m \in Nat : Took(mem, mem', p, m) /\ JournalGone(p, m)
  BY <1>2, <1>4, <1>8
<1>10. QED
  BY <1>9
     DEF SaleStep, LimitFills, LimitFallsBack, SaveThen, AtLimit, envVars

\* The common form of the two steps that buy: what is not held is paid for out
\* of the cash the saved book shows.
EntryStep ==
    \E p \in PosIds, n \in Nat \ {0}, price \in Nat, fee \in Nat :
        /\ ~Held(disk, p)
        /\ disk.cash >= n * (price + fee)
        /\ mem' = ApplyBuy(disk, p, n, price, fee)
        /\ pc' = "save" /\ after' = "bought" /\ cur' = p
        /\ UNCHANGED <<disk, journal, opened, crashes>>
        /\ \/ kind' = "buy"
           \/ pc = "research" /\ MarketOf(p) = MarketOf(cur)
        /\ pc \in {"idle", "research"}

\* A buy that fits the budget fits the cash.
LEMMA BuyIsEntry ==
    ASSUME RunInv, AccountInv, NEW p \in PosIds, ~Held(disk, p), disk.cash >= Budget,
           NEW book, BuyThenSave(disk, p, book),
           UNCHANGED <<disk, journal, opened, crashes>>,
           \/ kind' = "buy"
           \/ pc = "research" /\ MarketOf(p) = MarketOf(cur),
           pc \in {"idle", "research"}
    PROVE  EntryStep
<1>1. PICK n \in Lots, price \in Asks :
         /\ Affordable(n, price)
         /\ SaveThen(ApplyBuy(disk, p, n, price, PerShareFee(price, TakerBps)), "bought")
         /\ cur' = p
  BY DEF BuyThenSave
<1> DEFINE fee == PerShareFee(price, TakerBps)
<1>2. n \in Nat \ {0} /\ price \in Nat /\ price \in Int
  BY RunsAssumption, PolicyAssumption DEF RunsAssumption, PolicyAssumption
<1>3. TakerBps \in Nat
  BY RatesOK
<1>4. fee \in Nat
  <2>1. PerShareFee(price, TakerBps) \in Nat
    BY <1>2, <1>3, FeeNat
  <2>2. QED
    BY <2>1
<1>5. n * (price + fee) <= Budget
  BY <1>1 DEF Affordable
<1> HIDE DEF fee
<1>6. n * (price + fee) \in Nat /\ Budget \in Nat /\ disk.cash \in Int
  <2>1. n \in Nat /\ price + fee \in Nat
    BY <1>2, <1>4
  <2>2. QED
    BY <2>1, ProductNat, RunsAssumption DEF RunsAssumption, RunInv, TypeOK, Portfolio
<1>7. disk.cash >= n * (price + fee)
  BY <1>5, <1>6
<1>8. /\ mem' = ApplyBuy(disk, p, n, price, fee)
      /\ pc' = "save" /\ after' = "bought" /\ cur' = p
  BY <1>1 DEF SaveThen, fee
<1>9. QED
  BY <1>2, <1>4, <1>7, <1>8 DEF EntryStep

\* Both buys are entries: the one of the operator and the one of the scan.
LEMMA SeedEnters ==
    ASSUME RunInv, AccountInv, NEW p \in Seeds, SeedBuy(p) PROVE EntryStep
<1>1. p \in PosIds /\ ~Held(disk, p) /\ disk.cash >= Budget /\ pc = "idle" /\ kind' = "buy"
  BY RunsAssumption DEF RunsAssumption, SeedBuy
<1>2. PICK book \in Shown(p) : BuyThenSave(disk, p, book)
  BY DEF SeedBuy
<1>3. UNCHANGED <<disk, journal, opened, crashes>>
  BY DEF SeedBuy, envVars
<1>4. QED
  BY <1>1, <1>2, <1>3, BuyIsEntry

\* So is the entry the scan has researched.
LEMMA ResearchEntersStep == ASSUME RunInv, AccountInv, ResearchEnters PROVE EntryStep
<1> DEFINE m == MarketOf(cur)
<1>1. PICK eval \in Evaluations, yesBook \in Shown(<<m, 0>>), noBook \in Shown(<<m, 1>>) :
         LET entry == DecideEntry(eval, yesBook, noBook) IN
         BuyThenSave(mem, <<m, entry.side>>, IF entry.side = 0 THEN yesBook ELSE noBook)
  BY DEF ResearchEnters
<1> DEFINE side == DecideEntry(eval, yesBook, noBook).side
           book == IF side = 0 THEN yesBook ELSE noBook
<1>2. side \in Side
  <2>1. eval \in Evaluation /\ yesBook \in Book /\ noBook \in Book
    BY ShownOK, RunsAssumption DEF RunsAssumption
  <2>2. QED
    BY <2>1, EntrySideOK
<1>3. BuyThenSave(mem, <<m, side>>, book)
  BY <1>1
<1> HIDE DEF side, book
<1>4. mem = disk /\ disk.cash >= Budget /\ pc = "research"
  BY DEF AccountInv, ResearchEnters
<1>5. <<m, side>> \in PosIds /\ ~Held(disk, <<m, side>>)
  <2>1. cur \in PosIds /\ ~Held(mem, <<MarketOf(cur), side>>)
    BY <1>2 DEF RunInv, Stage, ResearchEnters
  <2>2. QED
    BY <1>2, <1>4, <2>1 DEF PosIds, MarketOf
<1>6. MarketOf(<<m, side>>) = MarketOf(cur)
  BY DEF MarketOf
<1>7. UNCHANGED <<disk, journal, opened, crashes>>
  BY DEF ResearchEnters, envVars
<1> HIDE DEF m
<1>8. BuyThenSave(disk, <<m, side>>, book)
  BY <1>3, <1>4
<1>9. QED
  BY <1>4, <1>5, <1>6, <1>7, <1>8, BuyIsEntry

\* What a buy leaves in the positions.
LEMMA BoughtShares ==
    ASSUME NEW b \in Portfolio, NEW p \in PosIds, NEW n \in Nat \ {0},
           NEW price \in Nat, NEW fee \in Nat
    PROVE  LET c == ApplyBuy(b, p, n, price, fee) IN
           /\ c.pos[p].shares = n /\ Cost(c.pos[p]) = price + fee
           /\ \A q \in PosIds \ {p} : c.pos[q] = b.pos[q]
           /\ c.cash = b.cash - n * (price + fee)
           /\ c.realized = b.realized
  BY DEF ApplyBuy, Portfolio, Cost

\* It is a step of the account.
LEMMA BoughtMoves ==
    ASSUME NEW b \in Portfolio, NEW p \in PosIds, ~Held(b, p), NEW n \in Nat \ {0},
           NEW price \in Nat, NEW fee \in Nat, b.cash >= n * (price + fee)
    PROVE  Move(View(b), View(ApplyBuy(b, p, n, price, fee)))
<1> DEFINE c == ApplyBuy(b, p, n, price, fee)
           total == n * (price + fee)
<1>1. /\ c.pos[p].shares = n /\ Cost(c.pos[p]) = price + fee
      /\ \A q \in PosIds \ {p} : c.pos[q] = b.pos[q]
      /\ c.cash = b.cash - total /\ c.realized = b.realized
  BY BoughtShares
<1>2. total \in Nat /\ b.cash \in Int
  <2>1. n \in Nat /\ price + fee \in Nat
    OBVIOUS
  <2>2. QED
    BY <2>1, ProductNat DEF Portfolio
<1>3. b.pos[p].shares = 0
  BY SharesNat DEF Held
<1>4. View(c).shares[p] = n /\ View(c).cost[p] = price + fee /\ View(b).shares[p] = 0
  BY <1>1, <1>3, ViewShares
<1> HIDE DEF c
<1>5. /\ View(c).shares = [View(b).shares EXCEPT ![p] = View(c).shares[p]]
      /\ View(c).cost = [View(b).cost EXCEPT ![p] = View(c).cost[p]]
  BY <1>1 DEF View
<1>6. View(c).cash = View(b).cash - total /\ View(c).cash >= 0 /\ View(c).realized = View(b).realized
  <2>1. View(c).cash = c.cash /\ View(b).cash = b.cash /\ View(c).realized = View(b).realized
    BY <1>1 DEF View
  <2>2. c.cash >= 0
    BY <1>1, <1>2
  <2>3. QED
    BY <1>1, <2>1, <2>2
<1>7. Purchase(View(b), View(c), p)
  BY <1>4, <1>5, <1>6 DEF Purchase
<1>8. QED
  BY <1>7 DEF Move, c

-----------------------------------------------------------------------------
(* Every step keeps account, ledger and caps in order.                       *)

BooksInv == AccountInv /\ LedgerInv /\ CapsInv

\* The numbers the ledger is about are numbers.
LEMMA Counts ==
    ASSUME RunInv, NEW p \in PosIds
    PROVE  /\ mem.pos[p].shares \in Nat /\ disk.pos[p].shares \in Nat
           /\ journal.gone[p] \in Nat /\ journal.bought[p] \in Nat
           /\ opened[p] \in Nat /\ crashes \in Nat
  BY SharesNat DEF RunInv, TypeOK

\* Selling, settling and holding.
LEMMA SaleBooks == ASSUME RunInv, RunInv', BooksInv, SaleStep PROVE BooksInv'
<1>1. PICK p \in PosIds, n \in Nat : Took(mem, mem', p, n) /\ JournalGone(p, n)
  BY DEF SaleStep
<1>2. /\ mem = disk /\ disk.cash >= 0 /\ mem.cash >= 0
      /\ pc \notin {"save", "bought", "research", "idle"} /\ pc' = "save" /\ after' # "bought"
      /\ disk' = disk /\ opened' = opened /\ crashes' = crashes
  BY DEF BooksInv, AccountInv, SaleStep
<1>3. mem \in Portfolio /\ mem' \in Portfolio
  BY DEF RunInv, TypeOK
<1>4. /\ mem'.pos[p].shares = mem.pos[p].shares - n /\ n <= mem.pos[p].shares
      /\ \A q \in PosIds \ {p} : mem'.pos[q].shares = mem.pos[q].shares
  BY <1>1, <1>3, TookShares
<1>5. Move(View(mem), View(mem')) /\ mem'.cash >= mem.cash
  BY <1>1, <1>3, TookMoves
<1>6. AccountInv'
  <2>1. mem.cash \in Int /\ mem'.cash \in Int
    BY <1>3 DEF Portfolio
  <2>2. mem'.cash >= 0
    BY <1>2, <1>5, <2>1
  <2>3. QED
    BY <1>2, <1>5, <2>2 DEF AccountInv
<1>7. ASSUME NEW q \in PosIds PROVE Ledgered(q)'
  <2> DEFINE m == IF q = p THEN n ELSE 0
  <2>1. /\ mem.pos[q].shares \in Nat /\ mem'.pos[q].shares \in Nat
        /\ journal.gone[q] \in Nat /\ journal.bought[q] \in Nat
        /\ opened[q] \in Nat /\ m \in Nat
    BY Counts, <1>3, SharesNat
  <2>2. mem'.pos[q].shares = mem.pos[q].shares - m
    BY <1>4, <2>1
  <2>3. journal'.gone[q] = journal.gone[q] + m /\ journal'.bought[q] = journal.bought[q]
    <3>1. journal \in [bought : [PosIds -> Nat], gone : [PosIds -> Nat]]
      BY DEF RunInv, TypeOK
    <3>2. /\ journal'.gone = [journal.gone EXCEPT ![p] = journal.gone[p] + n]
          /\ journal'.bought = journal.bought
      BY <1>1, <3>1 DEF JournalGone
    <3>3. QED
      BY <2>1, <3>1, <3>2
  <2> HIDE DEF m
  <2>4. /\ journal.gone[q] >= opened[q] - mem.pos[q].shares
        /\ journal.bought[q] <= opened[q]
        /\ crashes = 0 => /\ journal.gone[q] = opened[q] - mem.pos[q].shares
                          /\ journal.bought[q] = opened[q]
    BY <1>2, <2>1 DEF BooksInv, LedgerInv, Ledgered, Grown, Ahead
  <2>5. Grown(q)' = 0 /\ Ahead(q)' = mem.pos[q].shares - m
    BY <1>2, <2>1, <2>2 DEF Grown, Ahead, Max2
  <2>6. ~Entering(q)'
    BY <1>2 DEF Entering, Stage
  <2>7. QED
    BY <1>2, <2>1, <2>2, <2>3, <2>4, <2>5, <2>6 DEF Ledgered
<1>8. CapsInv'
  BY <1>2 DEF CapsInv, Stage
<1>9. QED
  BY <1>6, <1>7, <1>8 DEF BooksInv, LedgerInv

\* Positions are finitely many, and so are those that are open.
LEMMA OpenFinite ==
    ASSUME NEW b, NEW e
    PROVE  IsFiniteSet(Open(b)) /\ IsFiniteSet(HeldInEvent(b, e))
<1>1. IsFiniteSet(Side)
  <2>1. Side = {0} \cup {1}
    BY DEF Side
  <2>2. IsFiniteSet({0})
    BY FS_Singleton
  <2>3. QED
    BY <2>1, <2>2, FS_AddElement
<1>2. IsFiniteSet(PosIds)
  BY <1>1, PortfolioAssumption, FS_Product DEF PosIds, PortfolioAssumption
<1>3. Open(b) \subseteq PosIds /\ HeldInEvent(b, e) \subseteq Open(b)
  BY DEF Open, HeldInEvent
<1>4. QED
  BY <1>2, <1>3, FS_Subset

\* One more element is at most one more.
LEMMA OneMore ==
    ASSUME NEW S, NEW x, IsFiniteSet(S)
    PROVE  Cardinality(S \cup {x}) <= Cardinality(S) + 1
<1>1. Cardinality(S) \in Nat
  BY FS_CardinalityType
<1>2. Cardinality(S \cup {x}) = IF x \in S THEN Cardinality(S) ELSE Cardinality(S) + 1
  BY FS_AddElement
<1>3. QED
  BY <1>1, <1>2

\* An entry takes the one place that was left for it.
LEMMA EntryCaps ==
    ASSUME RunInv, BooksInv, pc = "research", NEW p \in PosIds, MarketOf(p) = MarketOf(cur),
           NEW c, c.pos[p].shares > 0, \A q \in PosIds \ {p} : c.pos[q] = disk.pos[q]
    PROVE  Caps(c, p)
<1> DEFINE e == EventOf[MarketOf(p)]
<1>1. /\ mem = disk /\ cur \in PosIds
      /\ Cardinality(Open(disk)) < MaxPositions
      /\ Cardinality(HeldInEvent(disk, e)) < MaxPerEvent
      /\ \A s \in Side : ~Held(disk, <<MarketOf(p), s>>)
  BY DEF BooksInv, AccountInv, CapsInv, RunInv, Stage
<1>2. p = <<MarketOf(p), SideOf(p)>> /\ SideOf(p) \in Side
  BY DEF PosIds, MarketOf, SideOf
<1>3. Open(c) = Open(disk) \cup {p}
  BY DEF Open, Held
<1>4. HeldInEvent(c, e) = HeldInEvent(disk, e) \cup {p}
  BY <1>3 DEF HeldInEvent
<1> HIDE DEF e
<1>5. /\ IsFiniteSet(Open(disk)) /\ Cardinality(Open(disk)) \in Nat
      /\ IsFiniteSet(HeldInEvent(disk, e)) /\ Cardinality(HeldInEvent(disk, e)) \in Nat
  BY OpenFinite, FS_CardinalityType
<1>6. /\ Cardinality(Open(c)) <= Cardinality(Open(disk)) + 1
      /\ Cardinality(HeldInEvent(c, e)) <= Cardinality(HeldInEvent(disk, e)) + 1
  BY <1>3, <1>4, <1>5, OneMore
<1>7. Cardinality(Open(c)) \in Nat /\ Cardinality(HeldInEvent(c, e)) \in Nat
  BY OpenFinite, FS_CardinalityType
<1>8. MaxPositions \in Nat /\ MaxPerEvent \in Nat
  BY RunsAssumption DEF RunsAssumption
<1>9. Cardinality(Open(c)) <= MaxPositions /\ Cardinality(HeldInEvent(c, e)) <= MaxPerEvent
  BY <1>1, <1>5, <1>6, <1>7, <1>8
<1>10. \A s \in Side : Held(c, <<MarketOf(p), s>>) => s = SideOf(p)
  <2> SUFFICES ASSUME NEW s \in Side, s # SideOf(p) PROVE ~Held(c, <<MarketOf(p), s>>)
    OBVIOUS
  <2>1. <<MarketOf(p), s>> \in PosIds \ {p}
    BY <1>2 DEF PosIds, MarketOf, SideOf
  <2>2. QED
    BY <1>1, <2>1 DEF Held
<1>11. QED
  BY <1>9, <1>10 DEF Caps, e

\* Buying.
LEMMA EntryBooks == ASSUME RunInv, RunInv', BooksInv, EntryStep PROVE BooksInv'
<1>1. PICK p \in PosIds, n \in Nat \ {0}, price \in Nat, fee \in Nat :
        /\ ~Held(disk, p)
        /\ disk.cash >= n * (price + fee)
        /\ mem' = ApplyBuy(disk, p, n, price, fee)
        /\ pc' = "save" /\ after' = "bought" /\ cur' = p
        /\ UNCHANGED <<disk, journal, opened, crashes>>
        /\ \/ kind' = "buy"
           \/ pc = "research" /\ MarketOf(p) = MarketOf(cur)
        /\ pc \in {"idle", "research"}
  BY DEF EntryStep
<1>2. disk \in Portfolio /\ mem' \in Portfolio
  BY DEF RunInv, TypeOK
<1>3. /\ mem'.pos[p].shares = n
      /\ \A q \in PosIds \ {p} : mem'.pos[q] = disk.pos[q]
      /\ mem'.cash = disk.cash - n * (price + fee)
  <2> DEFINE c == ApplyBuy(disk, p, n, price, fee)
  <2>1. /\ c.pos[p].shares = n
        /\ \A q \in PosIds \ {p} : c.pos[q] = disk.pos[q]
        /\ c.cash = disk.cash - n * (price + fee)
    BY <1>2, BoughtShares
  <2>2. mem' = c
    BY <1>1
  <2> HIDE DEF c
  <2>3. QED
    BY <2>1, <2>2
<1>4. disk.pos[p].shares = 0
  BY <1>1, Counts DEF Held
<1>5. AccountInv'
  <2>1. Move(View(disk), View(mem'))
    BY <1>1, <1>2, BoughtMoves
  <2>2. mem'.cash >= 0
    <3>1. n * (price + fee) \in Nat /\ disk.cash \in Int
      <4>1. n \in Nat /\ price + fee \in Nat
        OBVIOUS
      <4>2. QED
        BY <1>2, <4>1, ProductNat DEF Portfolio
    <3>2. QED
      BY <1>1, <1>3, <3>1
  <2>3. QED
    BY <1>1, <2>1, <2>2 DEF AccountInv, BooksInv
<1>6. ASSUME NEW q \in PosIds PROVE Ledgered(q)'
  <2>1. /\ disk.pos[q].shares \in Nat /\ mem'.pos[q].shares \in Nat
        /\ journal.gone[q] \in Nat /\ journal.bought[q] \in Nat /\ opened[q] \in Nat
    BY Counts, <1>2, SharesNat
  <2>2. /\ journal.gone[q] >= opened[q] - disk.pos[q].shares
        /\ journal.bought[q] <= opened[q]
        /\ crashes = 0 => /\ journal.gone[q] = opened[q] - disk.pos[q].shares
                          /\ journal.bought[q] = opened[q]
    BY <1>1, <2>1 DEF BooksInv, LedgerInv, Ledgered, Grown, Ahead
  <2>3. Entering(q)' <=> q = p
    BY <1>1 DEF Entering, Stage
  <2>4. CASE q = p
    <3>1. Grown(q)' = n /\ Ahead(q)' = n
      BY <1>1, <1>3, <1>4, <2>1, <2>4 DEF Grown, Ahead, Max2
    <3>2. QED
      BY <1>1, <1>4, <2>1, <2>2, <2>3, <2>4, <3>1 DEF Ledgered
  <2>5. CASE q # p
    <3>1. mem'.pos[q].shares = disk.pos[q].shares
      BY <1>3, <2>5
    <3>2. Grown(q)' = 0 /\ Ahead(q)' = disk.pos[q].shares
      BY <1>1, <2>1, <3>1 DEF Grown, Ahead, Max2
    <3>3. QED
      BY <1>1, <2>1, <2>2, <2>3, <2>5, <3>1, <3>2 DEF Ledgered
  <2>6. QED
    BY <2>4, <2>5
<1>7. CapsInv'
  <2>1. CASE kind' = "buy"
    BY <1>1, <2>1 DEF CapsInv, Stage
  <2>2. CASE pc = "research" /\ MarketOf(p) = MarketOf(cur)
    <3>1. Caps(mem', p)
      BY <1>3, <2>2, EntryCaps
    <3>2. Caps(mem', cur')
      BY <1>1, <3>1
    <3>3. QED
      BY <1>1, <3>2 DEF CapsInv, Stage, Caps, HeldInEvent, Open, Held
  <2>3. QED
    BY <1>1, <2>1, <2>2
<1>8. QED
  BY <1>5, <1>6, <1>7 DEF BooksInv, LedgerInv

\* Saving: what was bought is now in the file, what was sold is not.
LEMMA SaveBooks == ASSUME RunInv, RunInv', BooksInv, Save PROVE BooksInv'
<1>1. /\ pc = "save" /\ disk' = mem /\ pc' = after /\ mem' = mem /\ cur' = cur /\ kind' = kind
      /\ journal' = journal /\ crashes' = crashes
      /\ pc' \in {"cycle", "tick", "limits", "bought"}
      /\ mem.cash >= 0
  BY DEF Save, RunInv, BooksInv, AccountInv, envVars
<1>2. AccountInv'
  BY <1>1 DEF AccountInv
<1>3. ASSUME NEW q \in PosIds PROVE Ledgered(q)'
  <2>1. /\ disk.pos[q].shares \in Nat /\ mem.pos[q].shares \in Nat
        /\ journal.gone[q] \in Nat /\ journal.bought[q] \in Nat /\ opened[q] \in Nat
    BY Counts
  <2>2. opened'[q] = opened[q] + Grown(q)
    BY <1>1 DEF Save, Grown
  <2>3. Ledgered(q) /\ Ahead(q) = mem.pos[q].shares
    BY <1>1 DEF BooksInv, LedgerInv, Ahead
  <2>4. Grown(q)' = 0 /\ Ahead(q)' = mem.pos[q].shares
    BY <1>1 DEF Grown, Ahead
  <2>5. Grown(q) = Max2(0, mem.pos[q].shares - disk.pos[q].shares)
    BY <1>1 DEF Grown
  <2>6. Entering(q) <=> (after = "bought" /\ q = cur)
    BY <1>1 DEF Entering, Stage
  <2>7. Grown(q) \in Nat /\ (~Entering(q) => Grown(q) = 0)
    BY <1>1, <2>1, <2>3, <2>5 DEF Ledgered, Max2
  <2>8. Entering(q) => Grown(q) = mem.pos[q].shares
    BY <1>1, <2>1, <2>3, <2>5 DEF Ledgered, Max2
  <2>9. /\ journal.gone[q] >= opened[q] + Grown(q) - mem.pos[q].shares
        /\ journal.bought[q] <= opened[q]
        /\ crashes = 0 => journal.gone[q] = opened[q] + Grown(q) - mem.pos[q].shares
        /\ crashes = 0 => journal.bought[q] = opened[q]
    BY <1>1, <2>3 DEF Ledgered
  <2> HIDE DEF Grown, Ahead
  <2>10. QED
    BY <1>1, <2>1, <2>2, <2>4, <2>6, <2>7, <2>8, <2>9 DEF Ledgered
<1>4. CapsInv'
  BY <1>1 DEF BooksInv, CapsInv, Stage, Caps, HeldInEvent, Open, Held
<1>5. QED
  BY <1>2, <1>3, <1>4 DEF BooksInv, LedgerInv

\* Ledgering the buy.
LEMMA JournalBooks == ASSUME RunInv, RunInv', BooksInv, JournalBuy PROVE BooksInv'
<1>1. /\ pc = "bought" /\ pc' \in {"scan", "idle"} /\ cur \in PosIds
      /\ disk' = disk /\ mem' = mem /\ opened' = opened /\ crashes' = crashes
      /\ journal' = [journal EXCEPT !.bought[cur] = @ + mem.pos[cur].shares]
  BY DEF JournalBuy, Finish, envVars, RunInv, Stage
<1>2. AccountInv'
  BY <1>1 DEF BooksInv, AccountInv
<1>3. ASSUME NEW q \in PosIds PROVE Ledgered(q)'
  <2> DEFINE m == IF q = cur THEN mem.pos[cur].shares ELSE 0
  <2>1. /\ disk.pos[q].shares \in Nat /\ mem.pos[q].shares \in Nat /\ m \in Nat
        /\ journal.gone[q] \in Nat /\ journal.bought[q] \in Nat /\ opened[q] \in Nat
    BY Counts, <1>1
  <2>2. journal'.bought[q] = journal.bought[q] + m /\ journal'.gone[q] = journal.gone[q]
    <3>1. journal \in [bought : [PosIds -> Nat], gone : [PosIds -> Nat]]
      BY DEF RunInv, TypeOK
    <3>2. /\ journal'.bought = [journal.bought EXCEPT ![cur]
                                  = journal.bought[cur] + mem.pos[cur].shares]
          /\ journal'.gone = journal.gone
      BY <1>1, <3>1
    <3>3. QED
      BY <2>1, <3>1, <3>2
  <2>3. /\ journal.gone[q] >= opened[q] - disk.pos[q].shares
        /\ crashes = 0 => journal.gone[q] = opened[q] - disk.pos[q].shares
        /\ journal.bought[q] + m <= opened[q]
        /\ crashes = 0 => journal.bought[q] + m = opened[q]
    <3>1. Ledgered(q) /\ Grown(q) = 0 /\ Ahead(q) = disk.pos[q].shares
      BY <1>1 DEF BooksInv, LedgerInv, Grown, Ahead
    <3>2. QED
      BY <1>1, <2>1, <3>1 DEF Ledgered
  <2> HIDE DEF m
  <2>4. Grown(q)' = 0 /\ Ahead(q)' = disk.pos[q].shares
    BY <1>1 DEF Grown, Ahead
  <2>5. QED
    BY <1>1, <2>1, <2>2, <2>3, <2>4 DEF Ledgered
<1>4. CapsInv'
  BY <1>1 DEF CapsInv, Stage
<1>5. QED
  BY <1>2, <1>3, <1>4 DEF BooksInv, LedgerInv

\* A step that leaves the shares where they are, outside the save of a buy.
LEMMA LedgerRests ==
    ASSUME RunInv, LedgerInv, pc \notin {"save", "bought"}, pc' \notin {"save", "bought"},
           disk'.pos = disk.pos, UNCHANGED <<journal, opened>>,
           crashes' = crashes \/ crashes' = crashes + 1
    PROVE  LedgerInv'
<1> SUFFICES ASSUME NEW q \in PosIds PROVE Ledgered(q)'
  BY DEF LedgerInv
<1>1. Grown(q) = 0 /\ Ahead(q) = disk.pos[q].shares
  BY DEF Grown, Ahead
<1>2. Grown(q)' = 0 /\ Ahead(q)' = disk.pos[q].shares
  BY DEF Grown, Ahead
<1>3. crashes \in Nat
  BY Counts
<1>4. QED
  BY <1>1, <1>2, <1>3 DEF LedgerInv, Ledgered

\* Steps that move on without touching the book.
LEMMA QuietBooks ==
    ASSUME RunInv, BooksInv,
           \/ \E p \in PosIds : CycleSkip(p) \/ CycleEvaluate(p) \/ TickSkip(p) \/ TickVisit(p)
           \/ EvaluateFails \/ ResearchFails \/ CycleScans \/ ScanDone \/ TickMovesOn \/ TickDone
           \/ LimitRests \/ \E m \in Markets : ScanSkip(m)
    PROVE  BooksInv'
<1>1. /\ pc \notin {"save", "bought", "idle"} /\ pc' \notin {"save", "bought", "research"}
      /\ mem' = mem /\ (disk' = disk \/ disk' = mem)
      /\ UNCHANGED <<journal, opened, crashes>>
  BY DEF CycleSkip, CycleEvaluate, TickSkip, TickVisit, EvaluateFails, ResearchFails,
         CycleScans, ScanDone, TickMovesOn, TickDone, LimitRests, AtLimit, ScanSkip, Finish,
         envVars
<1>2. mem = disk /\ disk' = disk
  BY <1>1 DEF BooksInv, AccountInv
<1>3. AccountInv'
  BY <1>1, <1>2 DEF BooksInv, AccountInv
<1>4. LedgerInv'
  BY <1>1, <1>2, LedgerRests DEF BooksInv
<1>5. CapsInv'
  BY <1>1 DEF CapsInv, Stage
<1>6. QED
  BY <1>3, <1>4, <1>5 DEF BooksInv

\* The scan looks at cash and caps before it researches an entry.
LEMMA ScanBooks ==
    ASSUME RunInv, BooksInv, NEW m \in Markets, ScanEvaluate(m) PROVE BooksInv'
<1>1. /\ pc = "scan" /\ pc' = "research" /\ UNCHANGED <<disk, mem, journal, opened, crashes>>
      /\ mem.cash >= Budget /\ cur' = <<m, 0>>
      /\ Cardinality(Open(mem)) < MaxPositions
      /\ Cardinality(HeldInEvent(mem, EventOf[m])) < MaxPerEvent
  BY DEF ScanEvaluate, envVars
<1>2. AccountInv'
  BY <1>1 DEF BooksInv, AccountInv
<1>3. LedgerInv'
  BY <1>1, LedgerRests DEF BooksInv
<1>4. MarketOf(cur') = m
  BY <1>1 DEF MarketOf
<1>5. CapsInv'
  BY <1>1, <1>4 DEF CapsInv, Stage, HeldInEvent, Open, Held
<1>6. QED
  BY <1>2, <1>3, <1>5 DEF BooksInv

\* Starting, expiring and crashing.
LEMMA EdgeBooks ==
    ASSUME RunInv, RunInv', BooksInv,
           StartCycle \/ StartTick \/ (\E p \in PosIds : Expire(p)) \/ Crash
    PROVE  BooksInv'
<1>1. CASE StartCycle \/ StartTick
  <2>1. /\ pc = "idle" /\ pc' \in {"cycle", "tick"} /\ mem' = disk
        /\ UNCHANGED <<disk, journal, opened, crashes>>
    BY <1>1 DEF StartCycle, StartTick, envVars
  <2>2. AccountInv'
    BY <2>1 DEF BooksInv, AccountInv
  <2>3. LedgerInv'
    BY <2>1, LedgerRests DEF BooksInv
  <2>4. CapsInv'
    BY <2>1 DEF CapsInv, Stage
  <2>5. QED
    BY <2>2, <2>3, <2>4 DEF BooksInv
<1>2. CASE \E p \in PosIds : Expire(p)
  <2>1. /\ pc = "idle" /\ pc' = "idle" /\ mem' = mem
        /\ UNCHANGED <<journal, opened, crashes>>
        /\ disk'.pos = disk.pos /\ disk'.cash = disk.cash
    BY <1>2 DEF Expire, runVars, envVars, RunInv, TypeOK, Portfolio
  <2>2. AccountInv'
    BY <2>1 DEF BooksInv, AccountInv
  <2>3. LedgerInv'
    BY <2>1, LedgerRests DEF BooksInv
  <2>4. CapsInv'
    BY <2>1 DEF CapsInv, Stage
  <2>5. QED
    BY <2>2, <2>3, <2>4 DEF BooksInv
<1>3. CASE Crash
  <2>1. /\ pc' = "idle" /\ mem' = disk /\ disk' = disk /\ crashes' = crashes + 1
        /\ UNCHANGED <<journal, opened>>
    BY <1>3 DEF Crash, Finish
  <2>2. AccountInv'
    BY <2>1 DEF BooksInv, AccountInv
  <2>3. ASSUME NEW q \in PosIds PROVE Ledgered(q)'
    <3>1. /\ disk.pos[q].shares \in Nat /\ mem.pos[q].shares \in Nat
          /\ journal.gone[q] \in Nat /\ journal.bought[q] \in Nat /\ opened[q] \in Nat
          /\ crashes \in Nat
      BY Counts
    <3>2. Grown(q)' = 0 /\ Ahead(q)' = disk.pos[q].shares
      BY <2>1 DEF Grown, Ahead
    <3>3. Grown(q) - Ahead(q) >= 0 - disk.pos[q].shares /\ Grown(q) \in Int /\ Ahead(q) \in Int
      BY <3>1 DEF Grown, Ahead, Max2
    <3>4. Ledgered(q)
      BY DEF BooksInv, LedgerInv
    <3>5. QED
      BY <2>1, <3>1, <3>2, <3>3, <3>4 DEF Ledgered
  <2>4. CapsInv'
    BY <2>1 DEF CapsInv, Stage
  <2>5. QED
    BY <2>2, <2>3, <2>4 DEF BooksInv, LedgerInv
<1>4. QED
  BY <1>1, <1>2, <1>3

\* The venue's own steps, and stuttering.
LEMMA StillBooks ==
    ASSUME BooksInv, UNCHANGED <<disk, mem, runVars, journal, opened, crashes>>
    PROVE  BooksInv'
<1>1. AccountInv'
  BY DEF BooksInv, AccountInv, runVars
<1>2. LedgerInv'
  BY DEF BooksInv, LedgerInv, Ledgered, Grown, Ahead, Entering, Stage, runVars
<1>3. CapsInv'
  BY DEF BooksInv, CapsInv, Caps, HeldInEvent, Open, Held, Stage, runVars
<1>4. QED
  BY <1>1, <1>2, <1>3 DEF BooksInv

\* A fresh book owes nobody anything.
LEMMA BooksInit == Init => BooksInv
<1> SUFFICES ASSUME Init PROVE BooksInv
  OBVIOUS
<1>1. disk = FreshBook /\ mem = FreshBook /\ pc = "idle" /\ kind = "none" /\ crashes = 0
  BY DEF Init
<1>2. AccountInv
  <2>1. FreshBook.cash >= 0
    BY PortfolioAssumption DEF PortfolioAssumption, FreshBook
  <2>2. QED
    BY <1>1, <2>1 DEF AccountInv
<1>3. ASSUME NEW q \in PosIds PROVE Ledgered(q)
  <2>1. disk.pos[q].shares = 0
    BY <1>1 DEF FreshBook, Flat
  <2>2. journal.gone[q] = 0 /\ journal.bought[q] = 0 /\ opened[q] = 0
    BY DEF Init
  <2>3. QED
    BY <1>1, <2>1, <2>2 DEF Ledgered, Grown, Ahead
<1>4. CapsInv
  BY <1>1 DEF CapsInv, Stage
<1>5. QED
  BY <1>2, <1>3, <1>4 DEF BooksInv, LedgerInv

\* Every step keeps account, ledger and caps.
LEMMA BooksStep == RunInv /\ RunInv' /\ BooksInv /\ [Next]_vars => BooksInv'
<1> SUFFICES ASSUME RunInv, RunInv', BooksInv, [Next]_vars PROVE BooksInv'
  OBVIOUS
<1>1. AccountInv
  BY DEF BooksInv
<1>2. CASE Run
  <2>1. CASE Save
    BY <2>1, SaveBooks
  <2>2. CASE JournalBuy
    BY <2>2, JournalBooks
  <2>3. CASE \/ \E p \in PosIds : CycleSkip(p) \/ CycleEvaluate(p) \/ TickSkip(p) \/ TickVisit(p)
             \/ EvaluateFails \/ ResearchFails \/ CycleScans \/ ScanDone
             \/ TickMovesOn \/ TickDone
             \/ LimitRests \/ \E m \in Markets : ScanSkip(m)
    BY <2>3, QuietBooks
  <2>4. CASE \E p \in PosIds : CycleSettle(p) \/ TickSettle(p)
    BY <2>4, SettleSells, SaleBooks
  <2>5. CASE \E p \in PosIds : CycleStopLoss(p)
    BY <2>5, CycleStopLossSells, SaleBooks
  <2>6. CASE EvaluateDone
    BY <2>6, EvaluateSells, SaleBooks
  <2>7. CASE \E m \in Markets : ScanEvaluate(m)
    BY <2>7, ScanBooks
  <2>8. CASE ResearchEnters
    BY <1>1, <2>8, ResearchEntersStep, EntryBooks
  <2>9. CASE LimitFills \/ LimitFallsBack
    BY <2>9, LimitSells, SaleBooks
  <2>10. CASE TickStopLoss
    BY <2>10, TickStopLossSells, SaleBooks
  <2>11. QED
    BY <1>2, <2>1, <2>2, <2>3, <2>4, <2>5, <2>6, <2>7, <2>8, <2>9, <2>10 DEF Run
<1>3. CASE Start
  <2>1. CASE StartCycle \/ StartTick
    BY <2>1, EdgeBooks
  <2>2. CASE \E p \in Seeds : SeedBuy(p)
    BY <1>1, <2>2, SeedEnters, EntryBooks
  <2>3. QED
    BY <1>3, <2>1, <2>2 DEF Start
<1>4. CASE Environment
  <2>1. CASE (\E m \in Markets : Resolve(m)) \/ (\E p \in PosIds : Collapse(p))
    BY <2>1, StillBooks DEF Resolve, Collapse
  <2>2. CASE (\E p \in PosIds : Expire(p)) \/ Crash
    BY <2>2, EdgeBooks
  <2>3. QED
    BY <1>4, <2>1, <2>2 DEF Environment
<1>5. CASE UNCHANGED vars
  BY <1>5, StillBooks DEF vars, envVars
<1>6. QED
  BY <1>2, <1>3, <1>4, <1>5 DEF Next

\* The saved book moves by one step of the account, or not at all.
LEMMA DiskMoves ==
    ASSUME RunInv, BooksInv, [Next]_vars PROVE Move(View(disk), View(disk'))
<1>1. CASE Save
  BY <1>1 DEF Save, BooksInv, AccountInv
<1>2. CASE LimitRests
  <2>1. disk' = disk
    BY <1>2 DEF LimitRests, AtLimit, BooksInv, AccountInv
  <2>2. QED
    BY <2>1 DEF Move
<1>3. CASE \E p \in PosIds : Expire(p)
  <2>1. PICK p \in PosIds : Expire(p)
    BY <1>3
  <2> DEFINE l == [i \in DOMAIN disk.limits[p] |-> [disk.limits[p][i] EXCEPT !.expired = TRUE]]
  <2>2. disk' = [disk EXCEPT !.limits[p] = l]
    BY <2>1 DEF Expire
  <2> HIDE DEF l
  <2>3. View([disk EXCEPT !.limits[p] = l]) = View(disk)
    <3>1. disk \in Portfolio
      BY DEF RunInv, TypeOK
    <3>2. QED
      BY <3>1, SameView
  <2>4. QED
    BY <2>2, <2>3 DEF Move
<1>4. CASE disk' = disk
  BY <1>4 DEF Move
<1>5. Save \/ LimitRests \/ (\E p \in PosIds : Expire(p)) \/ disk' = disk
  <2>1. CASE Run
    BY <2>1 DEF Run, JournalBuy, CycleSkip, CycleSettle, CycleStopLoss, CycleEvaluate,
                EvaluateFails, EvaluateDone, CycleScans, ScanSkip, ScanEvaluate, ResearchFails,
                ResearchEnters, ScanDone, TickSkip, TickSettle, TickVisit, LimitFills,
                LimitFallsBack, TickStopLoss, TickMovesOn, TickDone
  <2>2. CASE Start
    BY <2>2 DEF Start, StartCycle, StartTick, SeedBuy
  <2>3. CASE Environment
    BY <2>3 DEF Environment, Resolve, Collapse, Crash
  <2>4. CASE UNCHANGED vars
    BY <2>4 DEF vars
  <2>5. QED
    BY <2>1, <2>2, <2>3, <2>4 DEF Next
<1>6. QED
  BY <1>1, <1>2, <1>3, <1>4, <1>5

\* Both invariants hold throughout.
LEMMA BooksSafe == Spec => [](RunInv /\ BooksInv)
<1>1. Init => RunInv /\ BooksInv
  BY RunInit, BooksInit
<1>2. RunInv /\ BooksInv /\ [Next]_vars => (RunInv /\ BooksInv)'
  BY RunStep, BooksStep
<1>3. QED
  BY <1>1, <1>2, PTL DEF Spec

\* Cash never goes negative, in the file or in the copy of a run: a buy that the
\* cash check let through is still paid for when the engine has answered, and a
\* sale brings at least its fee.
THEOREM CashStaysPositive == Spec => []CashNeverNegative
<1>1. BooksInv => CashNeverNegative
  BY DEF BooksInv, AccountInv, CashNeverNegative
<1>2. QED
  BY <1>1, BooksSafe, PTL

\* The scan never stacks bets, whatever it researches and in which order.
THEOREM CapsRespected == Spec => []EntryWithinCaps
<1>1. BooksInv => EntryWithinCaps
  BY DEF BooksInv, AccountInv, CapsInv, Caps, Stage, EntryWithinCaps, HeldInEvent, Open, Held
<1>2. QED
  BY <1>1, BooksSafe, PTL

\* The ledger and the saved book explain each other: with crashes a sale may be
\* ledgered twice and a buy not at all, never the other way round; without, both
\* are exact.
THEOREM LedgerAccounts == Spec => []LedgerAccountsForBook
<1>1. RunInv /\ BooksInv => LedgerAccountsForBook
  <2> SUFFICES ASSUME RunInv, BooksInv, NEW p \in PosIds
               PROVE  /\ journal.gone[p] >= opened[p] - disk.pos[p].shares
                      /\ journal.bought[p] <= opened[p]
                      /\ crashes = 0 /\ pc \notin {"save", "bought"} =>
                           /\ journal.gone[p] = opened[p] - disk.pos[p].shares
                           /\ journal.bought[p] = opened[p]
    BY DEF LedgerAccountsForBook
  <2>1. /\ disk.pos[p].shares \in Nat /\ mem.pos[p].shares \in Nat
        /\ journal.gone[p] \in Nat /\ opened[p] \in Nat
    BY Counts
  <2>2. Ledgered(p)
    BY DEF BooksInv, LedgerInv
  <2>3. Grown(p) - Ahead(p) >= 0 - disk.pos[p].shares /\ Grown(p) \in Int /\ Ahead(p) \in Int
    BY <2>1 DEF Grown, Ahead, Max2
  <2>4. pc # "save" => Grown(p) = 0 /\ Ahead(p) = disk.pos[p].shares
    BY DEF Grown, Ahead
  <2>5. QED
    BY <2>1, <2>2, <2>3, <2>4 DEF Ledgered
<1>2. QED
  BY <1>1, BooksSafe, PTL

\* The paper book is the account of PaperAccount: each save is one purchase, one
\* sale or one settlement of one position, or no step of the account at all.
THEOREM ImplementsAccount == Spec => AccountSpec
<1>1. Init => Account!Init
  BY DEF Init, Account!Init, FreshBook, Flat, Cost
<1>2. RunInv /\ BooksInv /\ [Next]_vars => [Account!Next]_(Account!vars)
  <2> SUFFICES ASSUME RunInv, BooksInv, [Next]_vars
               PROVE  Account!Next \/ UNCHANGED Account!vars
    OBVIOUS
  <2>1. Move(View(disk), View(disk'))
    BY DiskMoves
  <2>2. CASE View(disk') = View(disk)
    BY <2>2 DEF View, Account!vars
  <2>3. ASSUME NEW p \in PosIds, Purchase(View(disk), View(disk'), p)
        PROVE  Account!Next
    <3>1. Account!Buy(p)
      BY <2>3 DEF Purchase, View, Account!Buy
    <3>2. QED
      BY <3>1 DEF Account!Next
  <2>4. ASSUME NEW p \in PosIds, NEW n \in 1..View(disk).shares[p],
               Sale(View(disk), View(disk'), p, n)
        PROVE  Account!Next
    <3>1. View(disk).shares[p] = disk.pos[p].shares
      BY ViewShares
    <3>2. CASE \E x \in 0..(n * (One - 1)) : Reduced(View(disk), View(disk'), p, n, x)
      <4>1. PICK x \in 0..(n * (One - 1)) : Reduced(View(disk), View(disk'), p, n, x)
        BY <3>2
      <4>2. disk'.cash - disk.cash = x
        BY <4>1 DEF Reduced, View, RunInv, TypeOK, Portfolio
      <4>3. disk'.cash - disk.cash \in 0..(n * (One - 1))
        BY <4>2
      <4>4. Reduced(View(disk), View(disk'), p, n, disk'.cash - disk.cash)
        BY <4>1, <4>2
      <4>5. Account!Sell(p, n)
        BY <3>1, <4>3, <4>4 DEF Reduced, View, Account!Sell, Account!Reduce
      <4>6. QED
        BY <3>1, <4>5 DEF Account!Next
    <3>3. CASE /\ n = View(disk).shares[p]
               /\ \E value \in {0, One \div 2, One} :
                    Reduced(View(disk), View(disk'), p, n, n * value)
      <4>1. PICK value \in {0, One \div 2, One} :
                   Reduced(View(disk), View(disk'), p, n, n * value)
        BY <3>3
      <4> DEFINE all == [q \in PosIds |-> disk.pos[q].shares][p]
      <4>2. all = n
        BY <3>1, <3>3
      <4>3. all \in 1..all
        BY <4>2, <3>1, Counts
      <4>4. Reduced(View(disk), View(disk'), p, all, all * value)
        <5> HIDE DEF all
        <5> QED
          BY <4>1, <4>2
      <4>5. Account!Reduce(p, all, all * value)
        BY <4>3, <4>4 DEF Reduced, View, Account!Reduce
      <4>6. Account!Settle(p)
        BY <4>1, <4>5 DEF Account!Settle, Account!Reduce
      <4>7. QED
        BY <4>6 DEF Account!Next
    <3>4. QED
      BY <2>4, <3>2, <3>3 DEF Sale
  <2>5. QED
    BY <2>1, <2>2, <2>3, <2>4 DEF Move
<1>3. QED
  BY <1>1, <1>2, BooksSafe, PTL DEF AccountSpec, Account!Spec, Spec

-----------------------------------------------------------------------------
(* The books balance.  The cost of what is held is a sum over all positions; *)
(* a step of the account changes one term of it.                             *)

\* What the open positions cost, in the account's view of a book.
Worth(v) == [p \in PosIds |-> v.shares[p] * v.cost[p]]

Balanced(b) == b.cash + OpenCost(b) = Bankroll + b.realized

\* There are finitely many position ids.
LEMMA IdsFinite == IsFiniteSet(PosIds)
<1>1. IsFiniteSet(Side)
  <2>1. IsFiniteSet(0..1)
    BY FS_Interval, 0 \in Int, 1 \in Int, Zenon
  <2>2. Side = 0..1
    BY DEF Side
  <2>3. QED
    BY <2>1, <2>2
<1>2. QED
  BY <1>1, PortfolioAssumption, FS_Product DEF PosIds, PortfolioAssumption

\* The cost basis is a sum over the account's view, of naturals.
LEMMA WorthOK ==
    ASSUME NEW b \in Portfolio
    PROVE  /\ OpenCost(b) = SumFunctionOnSet(Worth(View(b)), PosIds)
           /\ OpenCost(b) \in Int
           /\ \A p \in PosIds : /\ View(b).shares[p] \in Nat /\ View(b).cost[p] \in Nat
                                /\ Worth(View(b))[p] = View(b).shares[p] * View(b).cost[p]
                                /\ Worth(View(b))[p] \in Nat
<1> DEFINE v == View(b)
<1>1. ASSUME NEW p \in PosIds
      PROVE  v.shares[p] = b.pos[p].shares /\ v.cost[p] = Cost(b.pos[p])
             /\ v.shares[p] \in Nat /\ v.cost[p] \in Nat
  <2>1. b.pos[p] \in Position
    BY DEF Portfolio
  <2>2. b.pos[p].price \in Nat
    BY <2>1, PolicyAssumption DEF Position, Price, PolicyAssumption
  <2>3. b.pos[p].shares \in Nat /\ b.pos[p].fee \in Nat
    BY <2>1 DEF Position
  <2>4. QED
    BY <2>2, <2>3 DEF View, Cost
<1>2. Worth(v) = [p \in PosIds |-> b.pos[p].shares * Cost(b.pos[p])]
  BY <1>1 DEF Worth
<1>3. OpenCost(b) = SumFunctionOnSet(Worth(v), PosIds)
  BY <1>2 DEF OpenCost, SumFunction
<1> HIDE DEF v
<1>4. \A p \in PosIds : Worth(v)[p] = v.shares[p] * v.cost[p] /\ Worth(v)[p] \in Nat
  BY <1>1, ProductNat DEF Worth
<1>5. OpenCost(b) \in Int
  BY <1>3, <1>4, IdsFinite, SumInt
<1>6. QED
  BY <1>1, <1>3, <1>4, <1>5 DEF v

\* A step of the account at one position changes the cost basis by that
\* position's term.
LEMMA WorthChange ==
    ASSUME NEW b \in Portfolio, NEW c \in Portfolio, NEW p \in PosIds,
           \A q \in PosIds \ {p} : /\ View(c).shares[q] = View(b).shares[q]
                                   /\ View(c).cost[q] = View(b).cost[q]
    PROVE  OpenCost(c) = OpenCost(b) - View(b).shares[p] * View(b).cost[p]
                                     + View(c).shares[p] * View(c).cost[p]
<1> DEFINE f == Worth(View(b))
           g == Worth(View(c))
<1>1. \A q \in PosIds : f[q] \in Int /\ g[q] \in Int
  BY WorthOK
<1>2. \A q \in PosIds \ {p} : g[q] = f[q]
  BY WorthOK
<1>3. /\ OpenCost(b) = SumFunctionOnSet(f, PosIds)
      /\ OpenCost(c) = SumFunctionOnSet(g, PosIds)
      /\ f[p] = View(b).shares[p] * View(b).cost[p]
      /\ g[p] = View(c).shares[p] * View(c).cost[p]
  BY WorthOK
<1> HIDE DEF f, g
<1>4. SumFunctionOnSet(g, PosIds) = SumFunctionOnSet(f, PosIds) - f[p] + g[p]
  BY <1>1, <1>2, IdsFinite, SumChange
<1>5. QED
  BY <1>3, <1>4

\* A sale or a settlement turns n shares of the cost basis into cash, and the
\* difference into a realized gain.
LEMMA ReducedBalances ==
    ASSUME NEW b \in Portfolio, NEW c \in Portfolio, Balanced(b),
           NEW p \in PosIds, NEW n \in 1..View(b).shares[p], NEW proceeds \in Int,
           Reduced(View(b), View(c), p, n, proceeds)
    PROVE  Balanced(c)
<1> DEFINE s == View(b).shares[p]
           k == View(b).cost[p]
           l == View(c).cost[p]
<1>1. s \in Nat /\ k \in Nat /\ l \in Nat
  BY WorthOK
<1>2. View(c).shares[p] = s - n /\ l = IF n = s THEN 0 ELSE k
  BY DEF Reduced, View
<1>3. \A q \in PosIds \ {p} : /\ View(c).shares[q] = View(b).shares[q]
                              /\ View(c).cost[q] = View(b).cost[q]
  BY DEF Reduced, View
<1>4. c.cash = b.cash + proceeds /\ c.realized = b.realized + proceeds - n * k
  BY DEF Reduced, View
<1>5. OpenCost(c) = OpenCost(b) - s * k + (s - n) * l
  BY <1>2, <1>3, WorthChange
<1>6. OpenCost(b) \in Int /\ b.cash \in Int /\ b.realized \in Int /\ Bankroll \in Int
  <2>1. OpenCost(b) \in Int
    BY WorthOK
  <2>2. QED
    BY <2>1, PortfolioAssumption DEF Portfolio, PortfolioAssumption
<1>7. n \in Nat /\ n <= s
  BY <1>1
<1> HIDE DEF s, k, l
<1>8. (s - n) * l = s * k - n * k
  <2>1. CASE n = s
    BY <1>1, <1>2, <1>7, <2>1
  <2>2. CASE n # s
    BY <1>1, <1>2, <1>7, <2>2
  <2>3. QED
    BY <2>1, <2>2
<1> DEFINE nk == n * k
           sk == s * k
<1>9. nk \in Int /\ sk \in Int
  BY <1>1, <1>7
<1>10. c.cash + OpenCost(c) = b.cash + proceeds + (OpenCost(b) - sk + (sk - nk))
  BY <1>4, <1>5, <1>8
<1> HIDE DEF nk, sk
<1>11. c.cash + OpenCost(c) = b.cash + OpenCost(b) + proceeds - nk
  BY <1>6, <1>9, <1>10
<1>12. c.realized = b.realized + proceeds - nk
  BY <1>4 DEF nk
<1>13. QED
  BY <1>6, <1>9, <1>11, <1>12 DEF Balanced

\* A purchase turns cash into as much cost basis.
LEMMA PurchaseBalances ==
    ASSUME NEW b \in Portfolio, NEW c \in Portfolio, Balanced(b),
           NEW p \in PosIds, Purchase(View(b), View(c), p)
    PROVE  Balanced(c)
<1> DEFINE paid == View(c).shares[p] * View(c).cost[p]
           kept == View(b).shares[p] * View(b).cost[p]
<1>1. \A q \in PosIds \ {p} : /\ View(c).shares[q] = View(b).shares[q]
                              /\ View(c).cost[q] = View(b).cost[q]
  BY DEF Purchase, View
<1>2. OpenCost(c) = OpenCost(b) - kept + paid
  BY <1>1, WorthChange
<1>3. kept = 0 /\ paid \in Int
  BY WorthOK DEF Purchase
<1>4. c.cash = b.cash - paid /\ c.realized = b.realized
  BY DEF Purchase, View
<1>5. OpenCost(b) \in Int /\ b.cash \in Int /\ b.realized \in Int
  BY WorthOK DEF Portfolio
<1> HIDE DEF paid, kept
<1>6. QED
  BY <1>2, <1>3, <1>4, <1>5 DEF Balanced

\* Every step of the account keeps the books balanced.
LEMMA MoveBalances ==
    ASSUME NEW b \in Portfolio, NEW c \in Portfolio, Balanced(b), Move(View(b), View(c))
    PROVE  Balanced(c)
<1>1. CASE View(c) = View(b)
  <2>1. OpenCost(c) = OpenCost(b)
    BY <1>1, WorthOK
  <2>2. c.cash = b.cash /\ c.realized = b.realized
    BY <1>1 DEF View
  <2>3. QED
    BY <2>1, <2>2 DEF Balanced
<1>2. ASSUME NEW p \in PosIds, NEW n \in 1..View(b).shares[p], Sale(View(b), View(c), p, n)
      PROVE  Balanced(c)
  <2>1. View(b).shares[p] \in Nat
    BY WorthOK
  <2>2. CASE \E proceeds \in 0..(n * (One - 1)) : Reduced(View(b), View(c), p, n, proceeds)
    BY <2>2, ReducedBalances
  <2>3. CASE \E value \in {0, One \div 2, One} : Reduced(View(b), View(c), p, n, n * value)
    <3>1. PICK value \in {0, One \div 2, One} : Reduced(View(b), View(c), p, n, n * value)
      BY <2>3
    <3>2. n * value \in Int
      BY <2>1, PolicyAssumption DEF PolicyAssumption
    <3>3. QED
      BY <3>1, <3>2, ReducedBalances
  <2>4. QED
    BY <1>2, <2>2, <2>3 DEF Sale
<1>3. QED
  BY <1>1, <1>2, PurchaseBalances DEF Move

\* A book without positions balances.
LEMMA FreshBalanced == Balanced(FreshBook)
<1>1. FreshBook \in Portfolio
  BY FreshGood DEF GoodBook
<1>2. Worth(View(FreshBook)) = [p \in PosIds |-> 0]
  BY DEF Worth, View, FreshBook, Flat, Cost
<1>3. SumFunctionOnSet(Worth(View(FreshBook)), PosIds) = SumFunctionOnSet(Worth(View(FreshBook)), {})
  BY <1>2, IdsFinite, SumSupport
<1>4. OpenCost(FreshBook) = 0
  BY <1>1, <1>3, WorthOK, SumEmpty
<1>5. QED
  BY <1>4, PortfolioAssumption DEF Balanced, FreshBook, PortfolioAssumption

\* A run that ends, or never starts, leaves behind the copy it had or the file.
LEMMA IdleCopy ==
    ASSUME [Next]_vars, pc' = "idle"
    PROVE  mem' \in {mem, disk}
<1>1. CASE Run
  BY <1>1 DEF Run, Save, JournalBuy, CycleSkip, CycleSettle, CycleStopLoss, CycleEvaluate,
              EvaluateFails, EvaluateDone, CycleScans, ScanSkip, ScanEvaluate, ResearchFails,
              ResearchEnters, ScanDone, TickSkip, TickSettle, TickVisit, LimitFills, LimitRests,
              LimitFallsBack, TickStopLoss, TickMovesOn, TickDone, SaveThen, SettleVisited,
              BuyThenSave
<1>2. CASE Start
  BY <1>2 DEF Start, StartCycle, StartTick, SeedBuy, BuyThenSave, SaveThen
<1>3. CASE Environment
  BY <1>3 DEF Environment, Resolve, Collapse, Crash, Expire
<1>4. CASE UNCHANGED vars
  BY <1>4 DEF vars
<1>5. QED
  BY <1>1, <1>2, <1>3, <1>4 DEF Next

\* The saved book balances, and so does the copy that the last run left behind.
BalanceInv == Balanced(disk) /\ (pc = "idle" => Balanced(mem))

\* The copy of a run in progress is the saved book or one step of the account
\* ahead of it.
LEMMA CopyBalanced == ASSUME RunInv, BooksInv, BalanceInv PROVE Balanced(mem)
<1>1. disk \in Portfolio /\ mem \in Portfolio /\ Balanced(disk) /\ AccountInv
  BY DEF RunInv, TypeOK, BooksInv, BalanceInv
<1>2. CASE pc = "save"
  <2>1. Move(View(disk), View(mem))
    BY <1>1, <1>2 DEF AccountInv
  <2>2. QED
    BY <1>1, <2>1, MoveBalances
<1>3. CASE pc = "idle"
  BY <1>3 DEF BalanceInv
<1>4. CASE pc \notin {"idle", "save"}
  BY <1>1, <1>4 DEF AccountInv
<1>5. QED
  BY <1>2, <1>3, <1>4

\* Every step keeps both books balanced.
LEMMA BalanceStep ==
    ASSUME RunInv, RunInv', BooksInv, BalanceInv, [Next]_vars PROVE BalanceInv'
<1>1. disk \in Portfolio /\ disk' \in Portfolio /\ Balanced(disk)
  BY DEF RunInv, TypeOK, BalanceInv
<1>2. Balanced(disk')
  BY <1>1, DiskMoves, MoveBalances
<1>3. ASSUME pc' = "idle" PROVE Balanced(mem')
  <2>1. mem' = mem \/ mem' = disk
    BY <1>3, IdleCopy
  <2>2. QED
    BY <1>1, <2>1, CopyBalanced
<1>4. QED
  BY <1>2, <1>3 DEF BalanceInv, Balanced

\* The books balance in the file and in the copy of a run, whatever is bought,
\* sold, settled, cancelled or lost: cash plus the cost of what is held is the
\* bankroll plus the realized gains.
THEOREM BooksBalance == Spec => []AccountingReconciles
<1>1. Init => BalanceInv
  BY FreshBalanced DEF Init, BalanceInv
<1>2. RunInv /\ RunInv' /\ BooksInv /\ BalanceInv /\ [Next]_vars => BalanceInv'
  BY BalanceStep
<1>3. RunInv /\ BooksInv /\ BalanceInv => AccountingReconciles
  <2> SUFFICES ASSUME RunInv, BooksInv, BalanceInv PROVE AccountingReconciles
    OBVIOUS
  <2>1. Balanced(disk) /\ Balanced(mem)
    BY CopyBalanced DEF BalanceInv
  <2>2. QED
    BY <2>1 DEF Balanced, AccountingReconciles
<1>4. QED
  BY <1>1, <1>2, <1>3, BooksSafe, PTL DEF Spec
=============================================================================
