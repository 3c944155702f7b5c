---------------------------- MODULE Fixtures_proofs ----------------------------
(***************************************************************************)
(* Proofs about the fixture generator, for every random source: each row   *)
(* it writes is read back by the service as what was meant, and no fee it  *)
(* writes is reported as an anomaly.                                       *)
(***************************************************************************)
EXTENDS Fixtures, Schedule_proofs, Fees_proofs, FiniteSetTheorems

-----------------------------------------------------------------------------
(***************************************************************************)
(* Amounts.                                                                *)
(***************************************************************************)
\* "%.2f" writes whole satang the way the service formats them, so that they
\* read back.
LEMMA DecimalsReadBack ==
    ASSUME NEW m \in Nat, m < HalfRange
    PROVE  /\ TwoDecimals(m) = FormatMinorUnits(m)
           /\ Converts(TwoDecimals(m)) /\ ParseMinorUnits(TwoDecimals(m)) = m
           /\ JSONNumber(TwoDecimals(m))
<1>1. m % 100 = m - 100 * (m \div 100)
  BY DivMod
<1>2. TwoDecimals(m) = FormatMinorUnits(m)
  BY <1>1, FormatNonNegative DEF TwoDecimals
<1>3. Converts(TwoDecimals(m)) /\ ParseMinorUnits(TwoDecimals(m)) = m
  BY <1>2, AmountsReadBack
<1>4. TwoDecimals(m) # Malformed
  BY <1>3 DEF Converts
<1>5. m \div 100 \in Nat
  BY Hundredths
<1>6. /\ TwoDecimals(m).sign # Plus /\ TwoDecimals(m).whole # NoDigits
      /\ TwoDecimals(m).fracSign = NoSign /\ TwoDecimals(m).fracDigits > 0
  BY <1>5 DEF TwoDecimals, NoSign, Plus, NoDigits
<1>q. QED BY <1>2, <1>3, <1>4, <1>6 DEF JSONNumber

\* The nearest satang is the detector's fee, or the one beside it when two are
\* equally near.
LEMMA RoundedAlike ==
    ASSUME NEW g \in Nat, Fits(g, 250), NEW bp \in {150, 180, 200, 220, 250},
           NEW n \in Rounded(g, bp)
    PROVE  /\ n \in Nat /\ pctMinor(g, bp) \in Nat
           /\ n - pctMinor(g, bp) \in {-1, 0, 1}
           /\ 10000 * n <= 250 * g + 5000
<1>w. PICK w : w = g * bp
  OBVIOUS
<1>1. w \in Nat /\ w <= 250 * g
  <2>1. bp = 150 \/ bp = 180 \/ bp = 200 \/ bp = 220 \/ bp = 250
    BY SMT
  <2>q. QED BY <1>w, <2>1, SMT
<1>2. n \in (w \div 10000) .. (w \div 10000) + 1 /\ Abs(10000 * n - w) <= 5000
  BY <1>w, SMT DEF Rounded
<1>3. w \div 10000 \in Nat
  BY <1>1, SMT
<1>4. n \in Nat
  BY <1>2, <1>3, SMT
<1>5. 10000 * n - w <= 5000 /\ w - 10000 * n <= 5000
  BY <1>1, <1>2, <1>4, SMT DEF Abs
<1>6. IsRounded(pctMinor(g, bp), w)
  BY <1>w, LowerRates, SMT
<1>q. QED BY <1>1, <1>4, <1>5, <1>6, SMT DEF IsRounded

-----------------------------------------------------------------------------
(***************************************************************************)
(* The rows.                                                               *)
(***************************************************************************)
\* What is drawn is within the detector's range.
LEMMA AmountSpec ==
    ASSUME NEW g \in SampleAmounts
    PROVE  g \in Nat /\ g > 9999 /\ g < HalfRange /\ Fits(g, 250)
<1>l. minBaht = 100 /\ maxBaht = 50000
  BY SMT DEF minBaht, maxBaht
<1>1. PICK baht \in minBaht .. maxBaht : g = 100 * baht
  BY DEF SampleAmounts
<1>2. baht \in Nat /\ baht > 99 /\ baht <= 50000
  BY <1>l, <1>1, SMT
<1>3. g \in Nat /\ g > 9999 /\ g <= 5000000
  BY <1>1, <1>2, SMT
<1>q. QED BY <1>3, RangeAssumption, HalfRangeAssumption, SMT DEF Fits

LEMMA SampleSpec ==
    ASSUME NEW t \in SampleTxn
    PROVE  /\ t.Amount \in Nat /\ t.Amount > 9999 /\ t.Amount < HalfRange
           /\ Fits(t.Amount, 250)
           /\ t.Acquirer \in Acquirers /\ t.TxnDate \in Int /\ t.ID # Blank
<1>1. /\ t.ID \in SampleIDs /\ t.Amount \in SampleAmounts
      /\ t.Acquirer \in Acquirers /\ t.TxnDate \in Int
  BY DEF SampleTxn
<1>2. PICK g : g = t.Amount
  OBVIOUS
<1>3. g \in Nat /\ g > 9999 /\ g < HalfRange /\ Fits(g, 250)
  BY <1>1, <1>2, AmountSpec, SMT
<1>4. t.ID # Blank
  BY <1>1, TxnIDAssumption DEF SampleIDs
<1>q. QED BY <1>1, <1>2, <1>3, <1>4, SMT

\* A fee of the generator is the fee the detector expects, give or take one
\* satang, and less than the payment.
LEMMA SampleFees ==
    ASSUME NEW t \in SampleTxn, NEW fee \in FeesOf(t)
    PROVE  /\ fee \in 0 .. t.Amount
           /\ fee - ExpectedFee(t.Acquirer, t.Amount) \in {-1, 0, 1}
<1>g. PICK g : g = t.Amount
  OBVIOUS
<1>1. g \in Nat /\ g > 9999 /\ Fits(g, 250) /\ t.Acquirer \in Acquirers
  BY <1>g, SampleSpec, SMT
<1>2. PICK n \in Rounded(g, RateOf(t)) : fee = FixedFee(t) + n
  BY <1>g DEF FeesOf
<1>3. RateOf(t) \in {150, 180, 200, 220, 250}
  BY DEF RateOf
<1>4. /\ n \in Nat /\ pctMinor(g, RateOf(t)) \in Nat
      /\ n - pctMinor(g, RateOf(t)) \in {-1, 0, 1}
      /\ 10000 * n <= 250 * g + 5000
  BY <1>1, <1>2, <1>3, RoundedAlike, SMT
<1>5. ExpectedFee(t.Acquirer, g) = FixedFee(t) + pctMinor(g, RateOf(t))
  <2>1. CASE t.Acquirer = Thai
    <3>1. RateOf(t) = 250 /\ FixedFee(t) = 0
      BY <2>1, AcquirersDiffer DEF RateOf, FixedFee
    <3>2. ExpectedFee(Thai, g) = pctMinor(g, 250)
      BY <1>1, FeeByRate
    <3>q. QED BY <1>4, <2>1, <3>1, <3>2
  <2>2. CASE t.Acquirer = Global
    <3>1. RateOf(t) = 200 /\ FixedFee(t) = 1000
      BY <2>2, AcquirersDiffer DEF RateOf, FixedFee
    <3>2. Fits(g, 200) /\ HalfRange > 2000
      BY <1>1, RangeAssumption, HalfRangeAssumption, SMT DEF Fits
    <3>3. ExpectedFee(Global, g) = 1000 + pctMinor(g, 200)
      BY <1>1, <3>2, GlobalFee
    <3>q. QED BY <2>2, <3>1, <3>3
  <2>3. CASE t.Acquirer = Prompt
    <3>1. RateOf(t) = PromptRate(g) /\ FixedFee(t) = 0
      BY <1>g, <2>3, AcquirersDiffer DEF RateOf, FixedFee, PromptRate
    <3>2. ExpectedFee(Prompt, g) = pctMinor(g, PromptRate(g))
      BY <1>1, FeeByRate
    <3>q. QED BY <1>4, <2>3, <3>1, <3>2
  <2>q. QED BY <1>1, <2>1, <2>2, <2>3 DEF Acquirers
<1>6. FixedFee(t) \in {0, 1000}
  BY DEF FixedFee
<1>q. QED BY <1>g, <1>1, <1>2, <1>4, <1>5, <1>6, SMT

\* The subtraction in float64 is exact enough for the rounding to undo its error.
LEMMA NetsAreExact ==
    ASSUME NEW t \in SampleTxn, NEW fee \in Int
    PROVE  NetsOf(t, fee) = {t.Amount - fee}
<1>x. PICK exact \in Int : exact = t.Amount - fee
  <2>1. t.Amount \in Int
    BY SampleSpec, SMT
  <2>q. QED BY <2>1
<1> DEFINE Near(net, error) == 2 * Abs(Parts * (net - exact) - error) <= Parts
<1>1. ASSUME NEW net \in exact-1 .. exact+1, NEW error \in -1 .. 1, Near(net, error)
      PROVE  net = exact
  BY <1>1, SMT DEF Abs, Parts
<1>2. Near(exact, 0)
  BY SMT DEF Abs, Parts
<1>3. exact \in exact-1 .. exact+1 /\ 0 \in -1 .. 1
  OBVIOUS
<1>4. \A net : net \in NetsOf(t, fee) <=>
              /\ net \in exact-1 .. exact+1
              /\ \E error \in -1 .. 1 : Near(net, error)
  BY <1>x DEF NetsOf, floatError
<1> HIDE DEF Near
<1>5. \A net \in NetsOf(t, fee) : net = exact
  BY <1>1, <1>4
<1>6. exact \in NetsOf(t, fee)
  BY <1>2, <1>3, <1>4
<1>q. QED BY <1>5, <1>6, <1>x

\* A row of a settlement file, read back by the acquirer's parser.
LEMMA SettlementReadsBack ==
    ASSUME NEW t \in SampleTxn, NEW r \in SettlementRows(t)
    PROVE  /\ ParsesSettlements(t.Acquirer, FileWith(r))
           /\ SettlementRecordOf(t.Acquirer, r).TransactionID = t.ID
           /\ SettlementRecordOf(t.Acquirer, r).GrossMinor = t.Amount
           /\ SettlementRecordOf(t.Acquirer, r).FeeMinor \in FeesOf(t)
           /\ SettlementRecordOf(t.Acquirer, r).Acquirer = t.Acquirer
           /\ BangkokMidnight(SettlementRecordOf(t.Acquirer, r).SettlementDate)
                = ExpectedSettlementDate(t.Acquirer, t.TxnDate)
<1>d. PICK day : day = ExpectedSettlementDate(t.Acquirer, t.TxnDate)
  OBVIOUS
<1>1. /\ t.Amount \in Nat /\ t.Amount < HalfRange /\ t.ID # Blank
      /\ t.Acquirer \in Acquirers /\ t.TxnDate \in Int
  BY SampleSpec, SMT
<1>2. PICK fee \in FeesOf(t) :
        /\ r.ref = t.ID /\ r.gross = TwoDecimals(t.Amount)
        /\ r.fee = TwoDecimals(fee) /\ r.net = TwoDecimals(t.Amount - fee)
        /\ r.paid = DateColumn(t.Acquirer, day)
  <2>1. PICK fn \in UNION {{<<fee, net>> : net \in NetsOf(t, fee)} : fee \in FeesOf(t)} :
          r = [ref   |-> t.ID,
               gross |-> TwoDecimals(t.Amount),
               fee   |-> TwoDecimals(fn[1]),
               net   |-> TwoDecimals(fn[2]),
               paid  |-> DateColumn(t.Acquirer, day)]
    BY <1>d DEF SettlementRows
  <2>2. PICK fee \in FeesOf(t) : fn = <<fee, t.Amount - fee>>
    <3>1. PICK fee \in FeesOf(t) : fn \in {<<fee, net>> : net \in NetsOf(t, fee)}
      BY <2>1
    <3>2. fee \in Int
      BY SampleFees, <1>1
    <3>3. NetsOf(t, fee) = {t.Amount - fee}
      BY <3>2, NetsAreExact
    <3>q. QED BY <3>1, <3>3
  <2>q. QED BY <2>1, <2>2
<1>3. fee \in 0 .. t.Amount
  BY SampleFees
<1>n. PICK net : net = t.Amount - fee
  OBVIOUS
<1>4. fee \in Nat /\ fee < HalfRange /\ net \in Nat /\ net < HalfRange
  BY <1>1, <1>3, <1>n, HalfRangeAssumption, SMT
<1>5. /\ Converts(r.gross) /\ JSONNumber(r.gross) /\ ParseMinorUnits(r.gross) = t.Amount
      /\ Converts(r.fee) /\ JSONNumber(r.fee) /\ ParseMinorUnits(r.fee) = fee
      /\ Converts(r.net) /\ JSONNumber(r.net) /\ ParseMinorUnits(r.net) = net
  BY <1>1, <1>2, <1>4, <1>n, DecimalsReadBack, Zenon
<1>6. day \in Int
  <2>1. day \in t.TxnDate+1 .. t.TxnDate+5
    BY <1>1, <1>d, PayoutDaySpec
  <2>q. QED BY <1>1, <2>1
<1>7. r.paid \in Int /\ r.paid # Malformed
  <2>1. BangkokInstant(day) \in Int
    BY <1>6 DEF BangkokInstant
  <2>2. r.paid \in Int
    BY <1>2, <1>6, <2>1 DEF DateColumn
  <2>q. QED BY <2>2, MalformedAssumption
<1>8. AmountsAgree(r)
  <2>1. net \in Int64
    BY <1>4, HalfRangeAssumption DEF Int64
  <2>q. QED BY <1>5, <1>n, <2>1, WrapExact DEF AmountsAgree
<1>9. ParsesSettlements(t.Acquirer, FileWith(r))
  <2>1. /\ FileWith(r).framed = TRUE
        /\ \A i \in DOMAIN FileWith(r).rows : FileWith(r).rows[i] = r
    BY DEF FileWith
  <2>2. \A d \in {r.gross, r.fee, r.net} : AcceptsAmount(t.Acquirer, d)
    BY <1>5 DEF AcceptsAmount
  <2>q. QED BY <1>1, <1>2, <1>7, <1>8, <2>1, <2>2 DEF ParsesSettlements
<1>10. BangkokMidnight(SettlementInstant(t.Acquirer, r)) = day
  <2>1. SettlementInstant(t.Acquirer, r) = BangkokInstant(day)
    BY <1>2 DEF SettlementInstant, DateColumn
  <2>q. QED BY <1>6, <2>1, BangkokDayRoundTrip DEF BangkokInstant
<1>11. /\ SettlementRecordOf(t.Acquirer, r).TransactionID = r.ref
       /\ SettlementRecordOf(t.Acquirer, r).GrossMinor = ParseMinorUnits(r.gross)
       /\ SettlementRecordOf(t.Acquirer, r).FeeMinor = ParseMinorUnits(r.fee)
       /\ SettlementRecordOf(t.Acquirer, r).Acquirer = t.Acquirer
       /\ SettlementRecordOf(t.Acquirer, r).SettlementDate = SettlementInstant(t.Acquirer, r)
  BY DEF SettlementRecordOf
<1>q. QED BY <1>d, <1>2, <1>5, <1>9, <1>10, <1>11

\* A row of the transaction file, read back by the loader.
LEMMA TransactionReadsBack ==
    ASSUME NEW t \in SampleTxn
    PROVE  /\ LoadsTransactions(FileWith(TransactionRow(t)))
           /\ TransactionOf(TransactionRow(t)).AmountMinor = t.Amount
           /\ TransactionOf(TransactionRow(t)).TransactionDate = t.TxnDate
<1>r. PICK r : r = TransactionRow(t)
  OBVIOUS
<1>1. r.amount = TwoDecimals(t.Amount) /\ r.TransactionDate = t.TxnDate
  BY <1>r DEF TransactionRow
<1>2. t.Amount \in Nat /\ t.Amount < HalfRange /\ t.TxnDate \in Int
  BY SampleSpec, SMT
<1>3. Converts(r.amount) /\ ParseMinorUnits(r.amount) = t.Amount
  BY <1>1, <1>2, DecimalsReadBack
<1>4. r.TransactionDate # Malformed
  BY <1>1, <1>2, MalformedAssumption
<1>5. /\ FileWith(r).framed = TRUE
      /\ \A i \in DOMAIN FileWith(r).rows : FileWith(r).rows[i] = r
  BY DEF FileWith
<1>6. LoadsTransactions(FileWith(r))
  BY <1>3, <1>4, <1>5 DEF LoadsTransactions
<1>7. /\ TransactionOf(r).AmountMinor = ParseMinorUnits(r.amount)
      /\ TransactionOf(r).TransactionDate = r.TransactionDate
  BY DEF TransactionOf
<1>q. QED BY <1>r, <1>1, <1>3, <1>6, <1>7

\* The detector lets a row of the sample pass.
LEMMA SampleFeePasses ==
    ASSUME NEW t \in SampleTxn, NEW r \in SettlementRows(t)
    PROVE  ~IsAnomaly(SettlementRecordOf(t.Acquirer, r))
<1>s. PICK s : s = SettlementRecordOf(t.Acquirer, r)
  OBVIOUS
<1>1. s.GrossMinor = t.Amount /\ s.FeeMinor \in FeesOf(t) /\ s.Acquirer = t.Acquirer
  BY <1>s, SettlementReadsBack
<1>2. ExpectedFeeOf(s) = ExpectedFee(t.Acquirer, t.Amount)
  BY <1>1 DEF ExpectedFeeOf
<1>3. s.FeeMinor - ExpectedFeeOf(s) \in {-1, 0, 1}
  BY <1>1, <1>2, SampleFees
<1>d. PICK d : d = s.FeeMinor - ExpectedFeeOf(s)
  OBVIOUS
<1>4. d \in Int64 /\ Abs(d) \in Int64 /\ Abs(d) \in {0, 1}
  BY <1>3, <1>d, RangeAssumption, HalfRangeAssumption, SMT DEF Int64, Abs
<1>5. Deviation(s) = Abs(d)
  BY <1>4, <1>d, WrapExact DEF Deviation
<1>6. ~(Deviation(s) > 1)
  BY <1>4, <1>5, SMT
<1>q. QED BY <1>s, <1>6 DEF IsAnomaly

-----------------------------------------------------------------------------
(***************************************************************************)
(* The generator.                                                          *)
(***************************************************************************)
LEMMA DrawnAmount ==
    ASSUME NEW draw \in Drawn
    PROVE  100 * (draw + minBaht) \in SampleAmounts
<1>l. minBaht \in Nat /\ maxBaht \in Nat
  BY SMT DEF minBaht, maxBaht
<1>1. draw + minBaht \in minBaht .. maxBaht
  BY <1>l, SMT DEF Drawn
<1>q. QED BY <1>1 DEF SampleAmounts

\* The acquirers take turns.
LEMMA Turns ==
    /\ RoundRobin(0) = Thai /\ RoundRobin(1) = Global /\ RoundRobin(2) = Prompt
    /\ \A i \in Nat : i % 3 \in 0 .. 2 /\ RoundRobin(i) = RoundRobin(i % 3)
    /\ \A i \in Nat : RoundRobin(i) \in Acquirers
<1>1. RoundRobin(0) = Thai /\ RoundRobin(1) = Global /\ RoundRobin(2) = Prompt
  BY DEF RoundRobin
<1>2. ASSUME NEW i \in Nat
      PROVE  i % 3 \in 0 .. 2 /\ RoundRobin(i) = RoundRobin(i % 3)
  <2>1. i % 3 \in 0 .. 2
    OBVIOUS
  <2>2. (i % 3) % 3 = i % 3
    BY <2>1
  <2>q. QED BY <2>1, <2>2 DEF RoundRobin
<1>3. ASSUME NEW i \in Nat PROVE RoundRobin(i) \in Acquirers
  <2>1. i % 3 = 0 \/ i % 3 = 1 \/ i % 3 = 2
    BY <1>2
  <2>q. QED BY <1>1, <1>2, <2>1 DEF Acquirers
<1>q. QED BY <1>1, <1>2, <1>3

LEMMA GeneratedIsSample ==
    ASSUME FixtureInv, Len(all) < totalTxns
    PROVE  /\ Generated(Len(all)) \in SampleTxn
           /\ LET n == Len(all) + 1
                  pos == (n - 1) \div 3
              IN  /\ Generated(n - 1).ID = TxnID(n - 1)
                  /\ Generated(n - 1).Acquirer = RoundRobin(n - 1)
                  /\ Generated(n - 1).TxnDate = today - DaysAgo(pos)
                  /\ Generated(n - 1).Settled = IsSettled(pos)
<1>i. PICK i : i = Len(all)
  OBVIOUS
<1>n. i \in Nat /\ i < totalTxns
  <2>1. all \in Seq(SampleTxn)
    BY DEF FixtureInv
  <2>q. QED BY <1>i, <2>1
<1>1. i \in 0 .. totalTxns-1
  BY <1>n, SMT DEF totalTxns, txnsPerAcquirer
<1>2. RoundRobin(i) \in Acquirers
  BY <1>n, Turns
<1>3. Draws[seed][i] \in Drawn
  BY <1>1, DrawsAssumption DEF FixtureInv
<1>p. PICK pos : pos = perAcqPos[RoundRobin(i)]
  OBVIOUS
<1>4. pos \in Nat /\ pos = i \div 3
  <2>j. PICK j : j = i % 3
    OBVIOUS
  <2>1. j \in 0 .. 2 /\ RoundRobin(i) = RoundRobin(j)
    BY <1>n, <2>j, Turns
  <2>2. perAcqPos[RoundRobin(j)] = (i + 2 - j) \div 3
    BY <1>i, <2>1 DEF FixtureInv, RoundsInv
  <2>3. (i + 2 - j) \div 3 = i \div 3
    BY <1>n, <2>j
  <2>q. QED BY <1>n, <1>p, <2>1, <2>2, <2>3
<1>5. today - DaysAgo(pos) \in Int
  BY <1>4 DEF today, DaysAgo, pendingPerAcquirer, overduePerAcquirer
<1>6. 100 * (Draws[seed][i] + minBaht) \in SampleAmounts
  BY <1>3, DrawnAmount
<1>7. IsSettled(pos) \in BOOLEAN
  BY DEF IsSettled
<1>8. TxnID(i) \in SampleIDs
  BY <1>1 DEF SampleIDs
<1>9. Generated(i) = [ID |-> TxnID(i), Acquirer |-> RoundRobin(i),
                      Amount |-> 100 * (Draws[seed][i] + minBaht),
                      TxnDate |-> today - DaysAgo(pos), Settled |-> IsSettled(pos)]
  BY <1>p DEF Generated
<1>10. Generated(i) \in SampleTxn
  BY <1>2, <1>5, <1>6, <1>7, <1>8, <1>9 DEF SampleTxn
<1>11. /\ Generated(i).ID = TxnID(i) /\ Generated(i).Acquirer = RoundRobin(i)
       /\ Generated(i).TxnDate = today - DaysAgo(i \div 3)
       /\ Generated(i).Settled = IsSettled(i \div 3)
  <2>a. PICK amount : amount = 100 * (Draws[seed][i] + minBaht)
    OBVIOUS
  <2>1. Generated(i) = [ID |-> TxnID(i), Acquirer |-> RoundRobin(i), Amount |-> amount,
                        TxnDate |-> today - DaysAgo(pos), Settled |-> IsSettled(pos)]
    BY <1>9, <2>a
  <2>q. QED BY <1>4, <2>1
<1>12. (Len(all) + 1) - 1 = i
  BY <1>i, <1>n
<1>q. QED BY <1>i, <1>10, <1>11, <1>12

LEMMA RoundsKeep ==
    ASSUME FixtureInv, GenerateTxn
    PROVE  RoundsInv'
<1>1. /\ Len(all) < totalTxns
      /\ all' = Append(all, Generated(Len(all)))
      /\ perAcqPos' = [perAcqPos EXCEPT ![RoundRobin(Len(all))] = @ + 1]
  BY DEF GenerateTxn
<1>2. all \in Seq(SampleTxn) /\ perAcqPos \in [Acquirers -> Nat] /\ RoundsInv
  BY DEF FixtureInv
<1>i. PICK i : i = Len(all)
  OBVIOUS
<1>j. PICK j : j = i % 3
  OBVIOUS
<1>3. i \in Nat /\ Len(all') = i + 1
  BY <1>1, <1>2, <1>i
<1>4. j \in 0 .. 2 /\ RoundRobin(i) = RoundRobin(j)
  BY <1>3, <1>j, Turns
<1>5. ASSUME NEW k \in 0 .. 2
      PROVE  perAcqPos'[RoundRobin(k)] = (Len(all') + 2 - k) \div 3
  <2>1. perAcqPos[RoundRobin(k)] = (i + 2 - k) \div 3 /\ RoundRobin(k) \in Acquirers
    <3>1. \A l \in 0 .. 2 : perAcqPos[RoundRobin(l)] = (i + 2 - l) \div 3
      BY <1>2, <1>i DEF RoundsInv
    <3>2. k \in Nat
      OBVIOUS
    <3>q. QED BY <3>1, <3>2, Turns
  <2>2. CASE k = j
    <3>1. perAcqPos'[RoundRobin(k)] = (i + 2 - k) \div 3 + 1
      BY <1>1, <1>2, <1>i, <1>4, <2>1, <2>2
    <3>2. (i + 2 - k) \div 3 + 1 = (i + 1 + 2 - k) \div 3
      BY <1>3, <1>j, <2>2
    <3>q. QED BY <1>3, <3>1, <3>2
  <2>3. CASE k # j
    <3>1. RoundRobin(k) # RoundRobin(j)
      <4>1. (j = 0 \/ j = 1 \/ j = 2) /\ (k = 0 \/ k = 1 \/ k = 2)
        BY <1>4
      <4>q. QED BY <2>3, <4>1, Turns, AcquirersDiffer
    <3>2. perAcqPos'[RoundRobin(k)] = (i + 2 - k) \div 3
      BY <1>1, <1>2, <1>i, <1>4, <2>1, <3>1
    <3>3. (i + 2 - k) \div 3 = (i + 1 + 2 - k) \div 3
      BY <1>3, <1>j, <1>4, <2>3
    <3>q. QED BY <1>3, <3>2, <3>3
  <2>q. QED BY <2>2, <2>3
<1>6. ASSUME NEW n \in DOMAIN all', NEW pos, pos = (n - 1) \div 3
      PROVE  /\ all'[n].ID = TxnID(n - 1)
             /\ all'[n].Acquirer = RoundRobin(n - 1)
             /\ all'[n].TxnDate = today - DaysAgo(pos)
             /\ all'[n].Settled = IsSettled(pos)
  <2>1. n \in 1 .. i + 1
    BY <1>1, <1>2, <1>i
  <2>2. CASE n \in 1 .. i
    <3>1. n \in DOMAIN all /\ all'[n] = all[n]
      BY <1>1, <1>2, <1>i, <2>2
    <3>q. QED BY <1>2, <1>6, <3>1 DEF RoundsInv
  <2>3. CASE n = i + 1
    <3>1. all'[n] = Generated(i) /\ n - 1 = i
      BY <1>1, <1>2, <1>3, <1>i, <2>3
    <3>q. QED BY <1>1, <1>6, <1>i, <2>3, <3>1, GeneratedIsSample
  <2>q. QED BY <1>3, <2>1, <2>2, <2>3
<1>q. QED BY <1>5, <1>6 DEF RoundsInv

LEMMA FixtureKeeps ==
    ASSUME FixtureInv, [FixtureNext]_fixtureVars
    PROVE  FixtureInv'
<1>1. CASE GenerateTxn
  <2>1. /\ Len(all) < totalTxns /\ file = "none" /\ file' = file /\ seed' = seed
        /\ all' = Append(all, Generated(Len(all)))
        /\ perAcqPos' = [perAcqPos EXCEPT ![RoundRobin(Len(all))] = @ + 1]
    BY <1>1 DEF GenerateTxn
  <2>2. all' \in Seq(SampleTxn) /\ Len(all') <= totalTxns
    <3>1. all \in Seq(SampleTxn) /\ Generated(Len(all)) \in SampleTxn
      BY <2>1, GeneratedIsSample DEF FixtureInv
    <3>2. totalTxns \in Nat
      BY SMT DEF totalTxns, txnsPerAcquirer
    <3>q. QED BY <2>1, <3>1, <3>2
  <2>3. perAcqPos' \in [Acquirers -> Nat]
    <3>1. perAcqPos \in [Acquirers -> Nat]
      BY DEF FixtureInv
    <3>a. PICK a : a = RoundRobin(Len(all))
      OBVIOUS
    <3>2. perAcqPos' = [perAcqPos EXCEPT ![a] = @ + 1]
      BY <2>1, <3>a
    <3>3. \A x \in Acquirers : perAcqPos'[x] \in Nat
      BY <3>1, <3>2
    <3>q. QED BY <3>1, <3>2, <3>3
  <2>4. ~Writing'
    BY <2>1 DEF Writing, Acquirers, Thai, Global, Prompt
  <2>5. RoundsInv'
    BY <1>1, RoundsKeep
  <2>q. QED BY <2>1, <2>2, <2>3, <2>4, <2>5 DEF FixtureInv
<1>2. CASE OpenNextFile
  <2>1. /\ UNCHANGED <<seed, perAcqPos, all>> /\ written' = 0
        /\ file \notin {"none", "failed"} \/ Len(all) = totalTxns
    BY <1>2 DEF OpenNextFile, Writing, Acquirers,
                Thai, Global, Prompt
  <2>2. RoundsInv'
    BY <2>1 DEF FixtureInv, RoundsInv
  <2>3. Len(all') = totalTxns
    BY <2>1 DEF FixtureInv
  <2>q. QED BY <2>1, <2>2, <2>3 DEF FixtureInv
<1>3. CASE WriteRow
  <2>n. PICK n \in Unwritten :
          /\ written' = n
          /\ \/ file = "transactions" /\ row' = TransactionRow(all[n])
             \/ file # "transactions" /\ row' \in SettlementRows(all[n])
    BY <1>3 DEF WriteRow
  <2>1. UNCHANGED <<seed, perAcqPos, all, file>>
    BY <1>3 DEF WriteRow
  <2>2. n \in Content /\ Content' = Content
    BY <2>1 DEF Unwritten, Content, settledByAcquirer
  <2>3. row' \in RowsFor(file', all'[written'])
    BY <2>n, <2>1 DEF RowsFor
  <2>4. RoundsInv'
    BY <2>1 DEF FixtureInv, RoundsInv
  <2>q. QED BY <2>n, <2>1, <2>2, <2>3, <2>4 DEF FixtureInv
<1>4. CASE WriteFails
  <2>1. file' = "failed" /\ UNCHANGED <<seed, perAcqPos, all>>
    BY <1>4 DEF WriteFails
  <2>2. ~Writing'
    BY <2>1 DEF Writing, Acquirers, Thai, Global, Prompt
  <2>3. RoundsInv'
    BY <2>1 DEF FixtureInv, RoundsInv
  <2>q. QED BY <2>1, <2>2, <2>3 DEF FixtureInv
<1>5. CASE UNCHANGED fixtureVars
  <2>1. UNCHANGED <<seed, perAcqPos, all, file, written, row>>
    BY <1>5 DEF fixtureVars
  <2>2. Writing' = Writing /\ Content' = Content /\ RoundsInv' = RoundsInv
    BY <2>1 DEF Writing, Content, settledByAcquirer, RoundsInv
  <2>q. QED BY <2>1, <2>2 DEF FixtureInv
<1>q. QED BY <1>1, <1>2, <1>3, <1>4, <1>5 DEF FixtureNext

\* The row written last is one of the transaction whose turn it was, for any
\* seed and any numbers drawn (gen-testdata/main.go, generateTxns and write*).
THEOREM FixtureInvariant == FixtureSpec => []FixtureInv
<1>1. ASSUME FixtureInit PROVE FixtureInv
  <2>1. /\ seed \in Seeds /\ file = "none" /\ all = <<>>
        /\ perAcqPos = [a \in Acquirers |-> 0]
    BY <1>1 DEF FixtureInit
  <2>2. ~Writing
    BY <2>1 DEF Writing, Acquirers, Thai, Global, Prompt
  <2>3. RoundsInv
    <3>1. ASSUME NEW j \in 0 .. 2
          PROVE  perAcqPos[RoundRobin(j)] = (Len(all) + 2 - j) \div 3
      <4>1. RoundRobin(j) \in Acquirers
        BY Turns
      <4>2. (0 + 2 - j) \div 3 = 0
        OBVIOUS
      <4>q. QED BY <2>1, <4>1, <4>2
    <3>q. QED BY <2>1, <3>1 DEF RoundsInv
  <2>4. Len(all) <= totalTxns /\ all \in Seq(SampleTxn)
    BY <2>1, SMT DEF totalTxns, txnsPerAcquirer
  <2>q. QED BY <2>1, <2>2, <2>3, <2>4 DEF FixtureInv
<1>q. QED BY <1>1, FixtureKeeps, PTL DEF FixtureSpec

\* The transaction whose row was written last.
LEMMA WrittenTxn ==
    ASSUME FixtureInv, Writing, written > 0
    PROVE  /\ all[written] \in SampleTxn /\ row \in RowsFor(file, all[written])
           /\ file \in Acquirers => file # "transactions" /\ all[written].Acquirer = file
<1>1. written \in Content /\ row \in RowsFor(file, all[written]) /\ all \in Seq(SampleTxn)
  BY DEF FixtureInv
<1>2. all[written] \in SampleTxn
  BY <1>1 DEF Content, settledByAcquirer
<1>3. ASSUME file \in Acquirers
      PROVE  file # "transactions" /\ all[written].Acquirer = file
  <2>1. file # "transactions"
    BY <1>3 DEF Acquirers, Thai, Global, Prompt
  <2>q. QED BY <1>1, <2>1 DEF Content, settledByAcquirer
<1>q. QED BY <1>1, <1>2, <1>3

\* Whatever the random source returns, the service reads every row as what was
\* meant (gen-testdata/main.go; loader.go, the parsers).
THEOREM RowsAlwaysReadBack == FixtureSpec => []RowsReadBack
<1>1. ASSUME FixtureInv PROVE RowsReadBack
  <2> SUFFICES ASSUME Writing, written > 0, NEW t, t = all[written]
               PROVE  \/ /\ file = "transactions"
                         /\ LoadsTransactions(FileWith(row))
                         /\ TransactionOf(row).AmountMinor = t.Amount
                         /\ TransactionOf(row).TransactionDate = t.TxnDate
                      \/ /\ file # "transactions"
                         /\ ParsesSettlements(file, FileWith(row))
                         /\ SettlementRecordOf(file, row).GrossMinor = t.Amount
                         /\ BangkokMidnight(SettlementRecordOf(file, row).SettlementDate)
                              = ExpectedSettlementDate(t.Acquirer, t.TxnDate)
    BY DEF RowsReadBack
  <2>1. /\ t \in SampleTxn /\ row \in RowsFor(file, t)
        /\ file \in Acquirers => file # "transactions" /\ t.Acquirer = file
    BY <1>1, WrittenTxn
  <2>2. CASE file = "transactions"
    <3>1. row = TransactionRow(t)
      BY <2>1, <2>2 DEF RowsFor
    <3>q. QED BY <2>1, <2>2, <3>1, TransactionReadsBack
  <2>3. CASE file # "transactions"
    <3>1. t.Acquirer = file /\ row \in SettlementRows(t)
      BY <2>1, <2>3 DEF RowsFor, Writing
    <3>q. QED BY <2>1, <2>3, <3>1, SettlementReadsBack
  <2>q. QED BY <2>2, <2>3
<1>q. QED BY <1>1, FixtureInvariant, PTL

\* Whatever the random source returns, the detector reports no fee of the
\* sample (gen-testdata/main.go, the fee formulas; detect.go, Detect).
THEOREM NoSampleFeeEverStandsOut == FixtureSpec => []NoSampleFeeStandsOut
<1>1. ASSUME FixtureInv PROVE NoSampleFeeStandsOut
  <2> SUFFICES ASSUME file \in Acquirers, written > 0
               PROVE  ~IsAnomaly(SettlementRecordOf(file, row))
    BY DEF NoSampleFeeStandsOut
  <2>t. PICK t : t = all[written]
    OBVIOUS
  <2>1. /\ t \in SampleTxn /\ row \in RowsFor(file, t)
        /\ file # "transactions" /\ t.Acquirer = file
    BY <1>1, <2>t, WrittenTxn DEF Writing
  <2>2. row \in SettlementRows(t)
    BY <2>1 DEF RowsFor
  <2>q. QED BY <2>1, <2>2, SampleFeePasses
<1>q. QED BY <1>1, FixtureInvariant, PTL

-----------------------------------------------------------------------------
(***************************************************************************)
(* The sample as a whole.                                                  *)
(***************************************************************************)
\* Some whole number of satang is nearest to a fee.
LEMMA SomeRow ==
    ASSUME NEW t \in SampleTxn
    PROVE  RowOf(t) \in SettlementRows(t)
<1>w. PICK w : w = t.Amount * RateOf(t)
  OBVIOUS
<1>1. w \in Nat
  <2>1. t.Amount \in Nat
    BY SampleSpec, SMT
  <2>2. RateOf(t) \in Nat
    BY SMT DEF RateOf
  <2>q. QED BY <1>w, <2>1, <2>2
<1>q1. PICK q : q = w \div 10000
  OBVIOUS
<1>2. q \in Nat /\ 10000 * q <= w /\ w < 10000 * q + 10000
  BY <1>1, <1>q1, SMT
<1>3. \E n \in q .. q + 1 : Abs(10000 * n - w) <= 5000
  <2>1. CASE w - 10000 * q <= 5000
    <3>1. Abs(10000 * q - w) <= 5000
      BY <1>1, <1>2, <2>1, SMT DEF Abs
    <3>q. QED BY <1>2, <3>1, SMT
  <2>2. CASE ~(w - 10000 * q <= 5000)
    <3>1. Abs(10000 * (q + 1) - w) <= 5000
      BY <1>1, <1>2, <2>2, SMT DEF Abs
    <3>q. QED BY <1>2, <3>1, SMT
  <2>q. QED BY <2>1, <2>2
<1>4. \E n \in Rounded(t.Amount, RateOf(t)) : TRUE
  BY <1>w, <1>q1, <1>3, SMT DEF Rounded
<1>5. PICK fee \in FeesOf(t) : TRUE
  BY <1>4 DEF FeesOf
<1>f. PICK pairs : pairs = UNION {{<<other, net>> : net \in NetsOf(t, other)} : other \in FeesOf(t)}
  OBVIOUS
<1>6. <<fee, t.Amount - fee>> \in pairs
  <2>1. fee \in Int
    BY SampleFees, SampleSpec, SMT
  <2>2. NetsOf(t, fee) = {t.Amount - fee}
    BY <2>1, NetsAreExact
  <2>q. QED BY <1>5, <1>f, <2>2
<1>7. SettlementRows(t) # {}
  BY <1>f, <1>6 DEF SettlementRows
<1>q. QED BY <1>7 DEF RowOf

\* What the n-th transaction and its row are to the service.
LEMMA SampleLoaded ==
    ASSUME FixtureInv, JustGenerated,
           NEW n \in 1 .. totalTxns, NEW pos, pos = (n - 1) \div 3
    PROVE  /\ Reconcilable(all[n]).ID = TxnID(n - 1)
           /\ Reconcilable(all[n]).Acquirer = RoundRobin(n - 1)
           /\ Reconcilable(all[n]).AmountMinor = all[n].Amount
           /\ Reconcilable(all[n]).TransactionDate = today - DaysAgo(pos)
           /\ Reconcilable(all[n]).ExpectedSettleDate
                = ExpectedSettlementDate(RoundRobin(n - 1), today - DaysAgo(pos))
           /\ n \in DOMAIN LoadedRows <=> IsSettled(pos)
           /\ n \in DOMAIN LoadedRows =>
                 /\ LoadedRows[n].TransactionID = TxnID(n - 1)
                 /\ LoadedRows[n].Acquirer = RoundRobin(n - 1)
                 /\ LoadedRows[n].GrossMinor = all[n].Amount
<1>1. n \in DOMAIN all /\ all[n] \in SampleTxn
  BY DEF FixtureInv, JustGenerated
<1>t. PICK t : t = all[n]
  OBVIOUS
<1>2. /\ t.ID = TxnID(n - 1) /\ t.Acquirer = RoundRobin(n - 1)
      /\ t.TxnDate = today - DaysAgo(pos) /\ t.Settled = IsSettled(pos)
  BY <1>1, <1>t DEF FixtureInv, RoundsInv
<1>3. TrimSpace[t.ID] = t.ID
  <2>1. n - 1 \in 0 .. totalTxns-1
    BY SMT DEF totalTxns, txnsPerAcquirer
  <2>q. QED BY <1>2, <2>1, TxnIDAssumption
<1>4. /\ TransactionOf(TransactionRow(t)).ID = t.ID
      /\ TransactionOf(TransactionRow(t)).Acquirer = t.Acquirer
      /\ TransactionOf(TransactionRow(t)).AmountMinor = t.Amount
      /\ TransactionOf(TransactionRow(t)).TransactionDate = t.TxnDate
  <2>1. TransactionRow(t).ID = t.ID /\ TransactionRow(t).Acquirer = t.Acquirer
    BY DEF TransactionRow
  <2>2. /\ TransactionOf(TransactionRow(t)).ID = TrimSpace[TransactionRow(t).ID]
        /\ TransactionOf(TransactionRow(t)).Acquirer = TransactionRow(t).Acquirer
    BY DEF TransactionOf
  <2>q. QED BY <1>1, <1>t, <1>3, <2>1, <2>2, TransactionReadsBack
<1>5. /\ Reconcilable(t).ID = t.ID /\ Reconcilable(t).Acquirer = t.Acquirer
      /\ Reconcilable(t).AmountMinor = t.Amount
      /\ Reconcilable(t).TransactionDate = t.TxnDate
      /\ Reconcilable(t).ExpectedSettleDate = ExpectedSettlementDate(t.Acquirer, t.TxnDate)
  BY <1>4 DEF Reconcilable
<1>6. n \in DOMAIN LoadedRows <=> t.Settled
  BY <1>1, <1>t DEF LoadedRows
<1>7. ASSUME n \in DOMAIN LoadedRows
      PROVE  /\ LoadedRows[n].TransactionID = t.ID
             /\ LoadedRows[n].Acquirer = t.Acquirer
             /\ LoadedRows[n].GrossMinor = t.Amount
  <2>1. LoadedRows[n] = SettlementRecordOf(t.Acquirer, RowOf(t))
    BY <1>1, <1>t, <1>7 DEF LoadedRows
  <2>2. RowOf(t) \in SettlementRows(t)
    BY <1>1, <1>t, SomeRow
  <2>q. QED BY <1>1, <1>t, <2>1, <2>2, SettlementReadsBack
<1>q. QED BY <1>t, <1>2, <1>5, <1>6, <1>7

LEMMA SamplePositions ==
    ASSUME FixtureInv, JustGenerated
    PROVE  /\ DOMAIN all = 1 .. totalTxns
           /\ DOMAIN LoadedRows \subseteq 1 .. totalTxns
           /\ \A n, m \in 1 .. totalTxns : TxnID(n - 1) = TxnID(m - 1) => n = m
<1>1. DOMAIN all = 1 .. totalTxns
  BY DEF FixtureInv, JustGenerated
<1>2. DOMAIN LoadedRows \subseteq DOMAIN all
  BY DEF LoadedRows
<1>3. ASSUME NEW n \in 1 .. totalTxns, NEW m \in 1 .. totalTxns, TxnID(n - 1) = TxnID(m - 1)
      PROVE  n = m
  <2>1. n - 1 \in 0 .. totalTxns-1 /\ m - 1 \in 0 .. totalTxns-1
    BY SMT DEF totalTxns, txnsPerAcquirer
  <2>2. n - 1 = m - 1
    BY <1>3, <2>1, TxnIDAssumption
  <2>q. QED BY <2>2, SMT DEF totalTxns, txnsPerAcquirer
<1>q. QED BY <1>1, <1>2, <1>3

\* Each transaction that has a row is matched with it, and no other is.
LEMMA SampleMatches ==
    ASSUME FixtureInv, JustGenerated, NEW n \in 1 .. totalTxns
    PROVE  /\ \A i \in DOMAIN LoadedRows : SameTxn(Reconcilable(all[n]), LoadedRows[i]) => i = n
           /\ UsedRow(Reconcilable(all[n]), LoadedRows)
                = IF n \in DOMAIN LoadedRows THEN n ELSE NoRow
<1>t. PICK t : t = Reconcilable(all[n])
  OBVIOUS
<1>r. PICK rows : rows = LoadedRows
  OBVIOUS
<1>1. ASSUME NEW i \in DOMAIN rows, SameTxn(t, rows[i]) PROVE i = n
  <2>1. i \in 1 .. totalTxns
    BY <1>r, SamplePositions
  <2>2. rows[i].TransactionID = TxnID(i - 1) /\ t.ID = TxnID(n - 1)
    BY <1>t, <1>r, <2>1, SampleLoaded
  <2>q. QED BY <1>1, <2>1, <2>2, SamplePositions DEF SameTxn
<1>2. ASSUME n \in DOMAIN rows PROVE Matches(t, rows[n])
  BY <1>t, <1>r, <1>2, SampleLoaded DEF Matches, SameTxn
<1>m. PICK matching : matching = {i \in DOMAIN rows : Matches(t, rows[i])}
  OBVIOUS
<1>3. matching = IF n \in DOMAIN rows THEN {n} ELSE {}
  BY <1>1, <1>2, <1>m DEF Matches
<1>4. UsedRow(t, rows) = IF matching = {} THEN NoRow
                         ELSE CHOOSE i \in matching : \A j \in matching : i <= j
  BY <1>m DEF UsedRow
<1>5. UsedRow(t, rows) = IF n \in DOMAIN rows THEN n ELSE NoRow
  <2>1. CASE n \in DOMAIN rows
    <3>1. matching = {n} /\ n <= n
      BY <1>3, <2>1
    <3>q. QED BY <1>4, <2>1, <3>1
  <2>2. CASE n \notin DOMAIN rows
    BY <1>3, <1>4, <2>2
  <2>q. QED BY <2>1, <2>2
<1>q. QED BY <1>t, <1>r, <1>1, <1>5

\* Nothing in the sample is a discrepancy.
LEMMA SampleIsClean ==
    ASSUME FixtureInv, JustGenerated
    PROVE  Discrepancies(LoadedTxns, LoadedRows) = {}
<1>r. PICK rows : rows = LoadedRows
  OBVIOUS
<1>1. \A i \in DOMAIN rows : i \in 1 .. totalTxns /\ rows[i].TransactionID = TxnID(i - 1)
  BY <1>r, SamplePositions, SampleLoaded
<1>2. Duplicates(rows) = {}
  <2>1. \A j, k \in DOMAIN rows : rows[k].TransactionID = rows[j].TransactionID => k = j
    BY <1>1, SamplePositions
  <2>q. QED BY <2>1 DEF Duplicates
<1>3. \A t \in LoadedTxns : \E n \in 1 .. totalTxns : t = Reconcilable(all[n])
  BY SamplePositions DEF LoadedTxns
<1>4. AmountMismatches(LoadedTxns, rows) = {}
  <2>1. ASSUME NEW t \in LoadedTxns, UsedRow(t, rows) # NoRow
        PROVE  rows[UsedRow(t, rows)].GrossMinor = t.AmountMinor
    <3>1. PICK n \in 1 .. totalTxns : t = Reconcilable(all[n])
      BY <1>3
    <3>2. UsedRow(t, rows) = n /\ n \in DOMAIN rows
      BY <1>r, <2>1, <3>1, SampleMatches
    <3>q. QED BY <1>r, <3>1, <3>2, SampleLoaded
  <2>q. QED BY <2>1 DEF AmountMismatches
<1>5. AcquirerMismatches(LoadedTxns, rows) = {}
  <2>1. ASSUME NEW t \in LoadedTxns, UsedRow(t, rows) = NoRow,
               NEW j \in DOMAIN rows, SameTxn(t, rows[j])
        PROVE  FALSE
    <3>1. PICK n \in 1 .. totalTxns : t = Reconcilable(all[n])
      BY <1>3
    <3>2. j = n
      BY <1>r, <2>1, <3>1, SampleMatches
    <3>3. n # NoRow
      BY SMT DEF NoRow, totalTxns, txnsPerAcquirer
    <3>q. QED BY <1>r, <2>1, <3>1, <3>2, <3>3, SampleMatches
  <2>q. QED BY <2>1 DEF AcquirerMismatches
<1>6. Unknown(LoadedTxns, rows) = {}
  <2>1. ASSUME NEW j \in DOMAIN rows
        PROVE  \E t \in LoadedTxns : SameTxn(t, rows[j])
    <3>1. j \in 1 .. totalTxns /\ rows[j].TransactionID = TxnID(j - 1)
      BY <1>1
    <3>2. Reconcilable(all[j]).ID = TxnID(j - 1)
      BY <3>1, SampleLoaded
    <3>3. Reconcilable(all[j]) \in LoadedTxns
      BY <3>1, SamplePositions DEF LoadedTxns
    <3>q. QED BY <3>1, <3>2, <3>3 DEF SameTxn
  <2>q. QED BY <2>1 DEF Unknown
<1>q. QED BY <1>r, <1>2, <1>4, <1>5, <1>6 DEF Discrepancies

\* The entry of the n-th transaction.
At(n) == [Transaction |-> Reconcilable(all[n]),
          Status      |-> Status(Reconcilable(all[n]), LoadedRows, today),
          Settlement  |-> UsedRow(Reconcilable(all[n]), LoadedRows)]

\* The pos-th transaction of the acquirer whose turn is f.
Nth(f, pos) == 3 * pos + f + 1

LEMMA NthSpec ==
    ASSUME NEW f \in 0 .. 2
    PROVE  /\ \A pos \in 0 .. 99 : /\ Nth(f, pos) \in 1 .. totalTxns
                                   /\ RoundRobin(Nth(f, pos) - 1) = RoundRobin(f)
                                   /\ (Nth(f, pos) - 1) \div 3 = pos
           /\ \A n \in 1 .. totalTxns : RoundRobin(n - 1) = RoundRobin(f) =>
                 \E pos \in 0 .. 99 : n = Nth(f, pos)
<1>t. totalTxns = 300
  BY SMT DEF totalTxns, txnsPerAcquirer
<1>1. ASSUME NEW pos \in 0 .. 99
      PROVE  /\ Nth(f, pos) \in 1 .. totalTxns
             /\ RoundRobin(Nth(f, pos) - 1) = RoundRobin(f)
             /\ (Nth(f, pos) - 1) \div 3 = pos
  <2>i. PICK i : i = Nth(f, pos) - 1
    OBVIOUS
  <2>1. i \in Nat /\ i \div 3 = pos /\ i % 3 = f /\ f % 3 = f
    BY <2>i, SMT DEF Nth
  <2>2. RoundRobin(i) = RoundRobin(f)
    BY <2>1, Turns
  <2>3. Nth(f, pos) \in 1 .. totalTxns
    BY <1>t, SMT DEF Nth
  <2>q. QED BY <2>i, <2>1, <2>2, <2>3
<1>2. ASSUME NEW n \in 1 .. totalTxns, RoundRobin(n - 1) = RoundRobin(f)
      PROVE  \E pos \in 0 .. 99 : n = Nth(f, pos)
  <2>i. PICK i : i = n - 1
    OBVIOUS
  <2>j. PICK j : j = i % 3
    OBVIOUS
  <2>1. i \in Nat /\ i < 300
    BY <1>t, <2>i, SMT
  <2>2. j \in 0 .. 2 /\ RoundRobin(j) = RoundRobin(f)
    BY <1>2, <2>i, <2>j, <2>1, Turns
  <2>3. j = f
    <3>1. (j = 0 \/ j = 1 \/ j = 2) /\ (f = 0 \/ f = 1 \/ f = 2)
      BY <2>2
    <3>q. QED BY <2>2, <3>1, Turns, AcquirersDiffer
  <2>p. PICK pos : pos = i \div 3
    OBVIOUS
  <2>4. pos \in 0 .. 99 /\ i = 3 * pos + f
    BY <2>j, <2>1, <2>3, <2>p, SMT
  <2>5. n = Nth(f, pos)
    BY <1>t, <2>i, <2>4, SMT DEF Nth
  <2>q. QED BY <2>4, <2>5
<1>q. QED BY <1>1, <1>2

LEMMA EntriesOfSample ==
    ASSUME FixtureInv, JustGenerated
    PROVE  Sample = {At(n) : n \in 1 .. totalTxns}
<1>1. LoadedTxns = {Reconcilable(all[n]) : n \in 1 .. totalTxns}
  BY SamplePositions DEF LoadedTxns
<1>q. QED BY <1>1 DEF Sample, Reconciled, At

\* What is said of the pos-th transaction of an acquirer.
LEMMA SampleAt ==
    ASSUME FixtureInv, JustGenerated, NEW f \in 0 .. 2, NEW pos \in 0 .. 99
    PROVE  /\ At(Nth(f, pos)).Transaction.ID = TxnID(Nth(f, pos) - 1)
           /\ At(Nth(f, pos)).Transaction.Acquirer = RoundRobin(f)
           /\ At(Nth(f, pos)).Status = "settled" <=> pos >= 30
           /\ pos < 20 => ~(At(Nth(f, pos)).Transaction.TransactionDate <= today - 11)
           /\ pos >= 20 /\ pos < 30 =>
                 /\ At(Nth(f, pos)).Transaction.TransactionDate <= today - 11
                 /\ At(Nth(f, pos)).Status = "overdue"
<1>n. PICK n : n = Nth(f, pos)
  OBVIOUS
<1>1. n \in 1 .. totalTxns /\ RoundRobin(n - 1) = RoundRobin(f) /\ pos = (n - 1) \div 3
  BY <1>n, NthSpec
<1>t. PICK t : t = Reconcilable(all[n])
  OBVIOUS
<1>2. /\ t.ID = TxnID(n - 1) /\ t.Acquirer = RoundRobin(f)
      /\ t.TransactionDate = today - DaysAgo(pos)
      /\ t.ExpectedSettleDate = ExpectedSettlementDate(RoundRobin(f), today - DaysAgo(pos))
      /\ n \in DOMAIN LoadedRows <=> IsSettled(pos)
  BY <1>1, <1>t, SampleLoaded
<1>3. UsedRow(t, LoadedRows) # NoRow <=> IsSettled(pos)
  <2>1. n # NoRow
    BY <1>1, SMT DEF NoRow
  <2>q. QED BY <1>1, <1>2, <1>t, <2>1, SampleMatches
<1>4. IsSettled(pos) <=> pos >= 30
  BY SMT DEF IsSettled, pendingPerAcquirer, overduePerAcquirer
<1>5. At(n).Transaction = t /\ At(n).Status = Status(t, LoadedRows, today)
  BY <1>t DEF At
<1>6. At(n).Status = "settled" <=> pos >= 30
  BY <1>3, <1>4, <1>5 DEF Status
<1>d. PICK d : d = today - DaysAgo(pos)
  OBVIOUS
<1>7. d \in Int /\ (pos < 20 => d >= 70) /\ (pos >= 20 /\ pos < 30 => d <= 63)
  BY <1>d, SMT DEF today, DaysAgo, pendingPerAcquirer, overduePerAcquirer
<1>8. pos < 20 => ~(d <= today - 11)
  BY <1>7, SMT DEF today
<1>9. ASSUME pos >= 20, pos < 30
      PROVE  d <= today - 11 /\ Status(t, LoadedRows, today) = "overdue"
  <2>e. PICK e : e = ExpectedSettlementDate(RoundRobin(f), d)
    OBVIOUS
  <2>1. e \in d+1 .. d+5
    <3>1. RoundRobin(f) \in Acquirers
      BY Turns
    <3>q. QED BY <1>7, <2>e, <3>1, PayoutDaySpec
  <2>2. d <= today - 11 /\ e < today
    BY <1>7, <1>9, <2>1, SMT DEF today
  <2>3. ~(pos >= 30)
    BY <1>9
  <2>4. UsedRow(t, LoadedRows) = NoRow
    BY <1>3, <1>4, <2>3
  <2>5. t.ExpectedSettleDate = e
    BY <1>2, <1>d, <2>e
  <2>q. QED BY <2>2, <2>4, <2>5 DEF Status
<1>q. QED BY <1>n, <1>2, <1>5, <1>6, <1>8, <1>9, <1>d

LEMMA CountOfSample ==
    ASSUME FixtureInv, JustGenerated, NEW f \in 0 .. 2,
           NEW lo \in 0 .. 99, NEW hi \in lo .. 99
    PROVE  Cardinality({At(Nth(f, pos)) : pos \in lo .. hi}) = hi - lo + 1
<1>s. PICK S : S = {At(Nth(f, pos)) : pos \in lo .. hi}
  OBVIOUS
<1>g. PICK g : g = [pos \in lo .. hi |-> At(Nth(f, pos))]
  OBVIOUS
<1>1. g \in [lo .. hi -> S] /\ \A e \in S : \E pos \in lo .. hi : g[pos] = e
  BY <1>s, <1>g
<1>2. ASSUME NEW p \in lo .. hi, NEW q \in lo .. hi, g[p] = g[q]
      PROVE  p = q
  <2>1. p \in 0 .. 99 /\ q \in 0 .. 99
    BY SMT
  <2>2. At(Nth(f, p)) = At(Nth(f, q))
    BY <1>2, <1>g
  <2>3. TxnID(Nth(f, p) - 1) = TxnID(Nth(f, q) - 1)
    BY <2>1, <2>2, SampleAt
  <2>4. Nth(f, p) = Nth(f, q)
    BY <2>1, <2>3, SamplePositions, NthSpec
  <2>q. QED BY <2>1, <2>4, NthSpec
<1>3. ExistsBijection(lo .. hi, S)
  <2>1. g \in Injection(lo .. hi, S)
    BY <1>1, <1>2 DEF Injection, IsInjective
  <2>2. g \in Surjection(lo .. hi, S)
    BY <1>1 DEF Surjection
  <2>q. QED BY <2>1, <2>2 DEF ExistsBijection, Bijection
<1>4. IsFiniteSet(lo .. hi) /\ Cardinality(lo .. hi) = hi - lo + 1
  BY FS_Interval
<1>q. QED BY <1>s, <1>3, <1>4, FS_Bijection

\* Whatever the random source returns, the sample tells the story it was made
\* for (gen-testdata/main.go, generateTxns; reconcile.go, Reconcile).
THEOREM SampleAlwaysTellsItsStory == FixtureSpec => []SampleTellsItsStory
<1>1. ASSUME FixtureInv, JustGenerated, NEW a \in Acquirers
      PROVE  /\ Cardinality(Of(a, "settled")) = settledPerAcquirer
             /\ Cardinality({e \in Of(a, "overdue") : e.Transaction.TransactionDate <= today - 11})
                  = overduePerAcquirer
  <2>f. PICK f \in 0 .. 2 : a = RoundRobin(f)
    <3>1. 0 \in 0 .. 2 /\ 1 \in 0 .. 2 /\ 2 \in 0 .. 2
      OBVIOUS
    <3>q. QED BY <1>1, <3>1, Turns DEF Acquirers
  <2>1. \A e \in Sample : e.Transaction.Acquirer = a => \E pos \in 0 .. 99 : e = At(Nth(f, pos))
    <3>1. ASSUME NEW n \in 1 .. totalTxns, At(n).Transaction.Acquirer = a
          PROVE  \E pos \in 0 .. 99 : n = Nth(f, pos)
      <4>1. At(n).Transaction.Acquirer = RoundRobin(n - 1)
        BY <1>1, SampleLoaded DEF At
      <4>2. RoundRobin(n - 1) = RoundRobin(f)
        BY <2>f, <3>1, <4>1
      <4>q. QED BY <4>2, NthSpec
    <3>q. QED BY <1>1, <3>1, EntriesOfSample
  <2>2. \A pos \in 0 .. 99 : At(Nth(f, pos)) \in Sample /\ At(Nth(f, pos)).Transaction.Acquirer = a
    BY <1>1, <2>f, EntriesOfSample, NthSpec, SampleAt
  <2>3. Of(a, "settled") = {At(Nth(f, pos)) : pos \in 30 .. 99}
    <3>1. \A pos \in 0 .. 99 : At(Nth(f, pos)).Status = "settled" <=> pos \in 30 .. 99
      <4>1. ASSUME NEW pos \in 0 .. 99
            PROVE  At(Nth(f, pos)).Status = "settled" <=> pos \in 30 .. 99
        <5>1. At(Nth(f, pos)).Status = "settled" <=> pos >= 30
          BY <1>1, SampleAt
        <5>q. QED BY <5>1
      <4>q. QED BY <4>1
    <3>2. 30 .. 99 \subseteq 0 .. 99
      OBVIOUS
    <3>3. ASSUME NEW e \in Of(a, "settled")
          PROVE  e \in {At(Nth(f, pos)) : pos \in 30 .. 99}
      <4>1. e \in Sample /\ e.Transaction.Acquirer = a /\ e.Status = "settled"
        BY <3>3 DEF Of
      <4>2. PICK pos \in 0 .. 99 : e = At(Nth(f, pos))
        BY <4>1, <2>1
      <4>3. pos \in 30 .. 99
        BY <4>1, <4>2, <3>1
      <4>q. QED BY <4>2, <4>3
    <3>4. ASSUME NEW pos \in 30 .. 99
          PROVE  At(Nth(f, pos)) \in Of(a, "settled")
      <4>1. pos \in 0 .. 99
        BY <3>2
      <4>q. QED BY <4>1, <2>2, <3>1 DEF Of
    <3>q. QED BY <3>3, <3>4, Zenon
  <2>4. {e \in Of(a, "overdue") : e.Transaction.TransactionDate <= today - 11}
          = {At(Nth(f, pos)) : pos \in 20 .. 29}
    <3>1. \A pos \in 0 .. 99 :
            (/\ At(Nth(f, pos)).Status = "overdue"
             /\ At(Nth(f, pos)).Transaction.TransactionDate <= today - 11) <=> pos \in 20 .. 29
      <4>1. ASSUME NEW pos \in 0 .. 99
            PROVE  (/\ At(Nth(f, pos)).Status = "overdue"
                    /\ At(Nth(f, pos)).Transaction.TransactionDate <= today - 11)
                   <=> pos \in 20 .. 29
        <5>1. /\ At(Nth(f, pos)).Status = "settled" <=> pos >= 30
              /\ pos < 20 => ~(At(Nth(f, pos)).Transaction.TransactionDate <= today - 11)
              /\ pos >= 20 /\ pos < 30 =>
                    /\ At(Nth(f, pos)).Transaction.TransactionDate <= today - 11
                    /\ At(Nth(f, pos)).Status = "overdue"
          BY <1>1, SampleAt
        <5>2. pos < 20 \/ (pos >= 20 /\ pos < 30) \/ pos >= 30
          OBVIOUS
        <5>3. pos \in 20 .. 29 <=> pos >= 20 /\ pos < 30
          OBVIOUS
        <5>4. pos < 20 => ~(pos >= 20)
          OBVIOUS
        <5>5. pos >= 30 => ~(pos < 30)
          OBVIOUS
        <5>6. "settled" # "overdue"
          OBVIOUS
        <5>q. QED BY <5>1, <5>2, <5>3, <5>4, <5>5, <5>6
      <4>q. QED BY <4>1
    <3>2. 20 .. 29 \subseteq 0 .. 99
      OBVIOUS
    <3>3. ASSUME NEW e \in {x \in Of(a, "overdue") : x.Transaction.TransactionDate <= today - 11}
          PROVE  e \in {At(Nth(f, pos)) : pos \in 20 .. 29}
      <4>1. e \in Sample /\ e.Transaction.Acquirer = a /\ e.Status = "overdue"
            /\ e.Transaction.TransactionDate <= today - 11
        BY <3>3 DEF Of
      <4>2. PICK pos \in 0 .. 99 : e = At(Nth(f, pos))
        BY <4>1, <2>1
      <4>3. pos \in 20 .. 29
        BY <4>1, <4>2, <3>1
      <4>q. QED BY <4>2, <4>3
    <3>4. ASSUME NEW pos \in 20 .. 29
          PROVE  At(Nth(f, pos)) \in {x \in Of(a, "overdue") : x.Transaction.TransactionDate <= today - 11}
      <4>1. pos \in 0 .. 99
        BY <3>2
      <4>q. QED BY <4>1, <2>2, <3>1 DEF Of
    <3>q. QED BY <3>3, <3>4, Zenon
  <2>5. Cardinality({At(Nth(f, pos)) : pos \in 30 .. 99}) = 70
    <3>1. 30 \in 0 .. 99 /\ 99 \in 30 .. 99
      OBVIOUS
    <3>2. Cardinality({At(Nth(f, pos)) : pos \in 30 .. 99}) = 99 - 30 + 1
      BY <1>1, <3>1, CountOfSample
    <3>q. QED BY <3>2
  <2>6. Cardinality({At(Nth(f, pos)) : pos \in 20 .. 29}) = 10
    <3>1. 20 \in 0 .. 99 /\ 29 \in 20 .. 99
      OBVIOUS
    <3>2. Cardinality({At(Nth(f, pos)) : pos \in 20 .. 29}) = 29 - 20 + 1
      BY <1>1, <3>1, CountOfSample
    <3>q. QED BY <3>2
  <2>q. QED BY <2>3, <2>4, <2>5, <2>6 DEF settledPerAcquirer, overduePerAcquirer
<1>2. FixtureInv => SampleTellsItsStory
  BY <1>1, SampleIsClean DEF SampleTellsItsStory
<1>q. QED BY <1>2, FixtureInvariant, PTL
=============================================================================
