--------------------------- MODULE Schedule_proofs ---------------------------
(***************************************************************************)
(* What the settlement schedules promise, for every day: the proofs of the *)
(* facts the ledger's own theorems rest on.                                *)
(***************************************************************************)
EXTENDS Schedule, TLAPS

\* NextBusinessDay returns a working day one to three days ahead, and every
\* day it skips is at the weekend (domain/time.go, NextBusinessDay).
LEMMA NextBusinessDaySpec ==
    ASSUME NEW d \in Int
    PROVE  /\ NextBusinessDay(d) \in d+1 .. d+3
           /\ ~IsWeekend(NextBusinessDay(d))
           /\ \A f \in d+1 .. NextBusinessDay(d)-1 : IsWeekend(f)
<1> DEFINE Found(e) == /\ ~IsWeekend(e)
                       /\ \A f \in d+1 .. e-1 : IsWeekend(f)
<1>1. CASE ~IsWeekend(d+1)
  BY <1>1 DEF NextBusinessDay
<1>2. CASE IsWeekend(d+1) /\ ~IsWeekend(d+2)
  <2>1. d+2 \in d+1 .. d+3 /\ Found(d+2)
    BY <1>2
  <2> QED BY <2>1 DEF NextBusinessDay
<1>3. CASE IsWeekend(d+1) /\ IsWeekend(d+2)
  <2>1. ~IsWeekend(d+3)
    BY <1>3 DEF IsWeekend, Weekday, Saturday, Sunday
  <2>2. d+3 \in d+1 .. d+3 /\ Found(d+3)
    BY <1>3, <2>1
  <2> QED BY <2>2 DEF NextBusinessDay
<1> QED BY <1>1, <1>2, <1>3

\* The days to the next business day, by the weekday one starts from.
Gap(weekday) == IF weekday = Friday THEN 3 ELSE IF weekday = Saturday THEN 2 ELSE 1

\* NextBusinessDay adds the gap of the weekday it starts from.
LEMMA BusinessDayGap ==
    ASSUME NEW d \in Int
    PROVE  NextBusinessDay(d) = d + Gap(d % 7)
<1> DEFINE n == NextBusinessDay(d)
<1>1. /\ n \in d+1 .. d+3
      /\ ~IsWeekend(n)
      /\ \A f \in d+1 .. n-1 : IsWeekend(f)
  BY NextBusinessDaySpec
<1>2. /\ IsWeekend(d+1) <=> d % 7 \in {Friday, Saturday}
      /\ IsWeekend(d+2) <=> d % 7 \in {4, Friday}
  BY DEF IsWeekend, Weekday, Saturday, Sunday, Friday
<1> HIDE DEF n
<1>3. n = d+1 \/ n = d+2 \/ n = d+3
  BY <1>1
<1>4. n = d+1 => ~IsWeekend(d+1)
  BY <1>1
<1>5. n = d+2 => IsWeekend(d+1) /\ ~IsWeekend(d+2)
  BY <1>1
<1>6. n = d+3 => IsWeekend(d+1) /\ IsWeekend(d+2)
  BY <1>1
<1>7. n = d + Gap(d % 7)
  BY <1>2, <1>3, <1>4, <1>5, <1>6 DEF Gap, Friday, Saturday
<1> QED BY <1>7 DEF n

\* nextGlobalPayWindow returns a Tuesday or Friday one to four days ahead and
\* skips no window on the way (schedule.go, nextGlobalPayWindow).
LEMMA GlobalPayWindowSpec ==
    ASSUME NEW d \in Int
    PROVE  /\ nextGlobalPayWindow(d) \in d+1 .. d+4
           /\ Weekday(nextGlobalPayWindow(d)) \in PayWindows
           /\ \A f \in d+1 .. nextGlobalPayWindow(d)-1 : Weekday(f) \notin PayWindows
<1> DEFINE Window(e) == Weekday(e) \in PayWindows
           Found(e)  == Window(e) /\ \A f \in d+1 .. e-1 : ~Window(f)
<1>1. Window(d+1) \/ Window(d+2) \/ Window(d+3) \/ Window(d+4)
  BY DEF Weekday, PayWindows, Tuesday, Friday
<1>2. PICK e \in d+1 .. d+4 : Found(e)
  <2>1. CASE Window(d+1)
    <3>1. Found(d+1) BY <2>1
    <3> QED BY <3>1
  <2>2. CASE ~Window(d+1) /\ Window(d+2)
    <3>1. Found(d+2) BY <2>2
    <3> QED BY <3>1
  <2>3. CASE ~Window(d+1) /\ ~Window(d+2) /\ Window(d+3)
    <3>1. Found(d+3) BY <2>3
    <3> QED BY <3>1
  <2>4. CASE ~Window(d+1) /\ ~Window(d+2) /\ ~Window(d+3)
    <3>1. Found(d+4) BY <1>1, <2>4
    <3> QED BY <3>1
  <2> QED BY <2>1, <2>2, <2>3, <2>4
<1> DEFINE w == nextGlobalPayWindow(d)
<1>3. w \in d+1 .. d+7 /\ Found(w)
  BY <1>2 DEF nextGlobalPayWindow
<1>4. w <= e
  BY <1>2, <1>3
<1> HIDE DEF w
<1>5. w \in d+1 .. d+4
  BY <1>2, <1>3, <1>4
<1> QED BY <1>3, <1>5 DEF w

\* Three turns of the loop of AddBusinessDays, written out.
LEMMA ThreeBusinessDays ==
    ASSUME NEW d \in Int
    PROVE  AddBusinessDays(d, 3)
             = NextBusinessDay(NextBusinessDay(NextBusinessDay(d)))
<1> DEFINE n1 == NextBusinessDay(d)
           n2 == NextBusinessDay(n1)
           n3 == NextBusinessDay(n2)
           Step(f) == f = [i \in 0 .. 3 |-> IF i = 0 THEN d ELSE NextBusinessDay(f[i - 1])]
           g == [i \in 0 .. 3 |-> IF i = 0 THEN d ELSE IF i = 1 THEN n1
                                  ELSE IF i = 2 THEN n2 ELSE n3]
<1>1. Step(g)
  <2>1. ASSUME NEW i \in 0 .. 3
        PROVE  g[i] = IF i = 0 THEN d ELSE NextBusinessDay(g[i - 1])
    <3>1. i = 0 \/ i = 1 \/ i = 2 \/ i = 3
      OBVIOUS
    <3>2. g[0] = d /\ g[1] = n1 /\ g[2] = n2 /\ g[3] = n3
      OBVIOUS
    <3> HIDE DEF g, n1
    <3> QED BY <3>1, <3>2 DEF n1
  <2> HIDE DEF n3
  <2>2. g = [i \in 0 .. 3 |-> g[i]]
    OBVIOUS
  <2> HIDE DEF g
  <2> QED BY <2>1, <2>2
<1> DEFINE h == CHOOSE f : Step(f)
<1>2. Step(h)
  <2> HIDE DEF Step, g
  <2> QED BY <1>1
<1>3. AddBusinessDays(d, 3) = h[3]
  BY DEF AddBusinessDays
<1> HIDE DEF h
<1>4. h[0] = d
  BY <1>2
<1>5. h[1] = n1
  BY <1>2, <1>4
<1>6. h[2] = n2
  <2> HIDE DEF n1
  <2> QED BY <1>2, <1>5
<1>7. h[3] = n3
  <2> HIDE DEF n2
  <2> QED BY <1>2, <1>6
<1> QED BY <1>3, <1>7

\* Every known acquirer pays on a working day, strictly after the day of the
\* transaction and at most five days later; GlobalPay pays in its windows only
\* (schedule.go, ExpectedSettlementDate).
THEOREM PayoutDaySpec ==
    ASSUME NEW a \in Acquirers, NEW d \in Int
    PROVE  /\ ExpectedSettlementDate(a, d) \in d+1 .. d+5
           /\ ~IsWeekend(ExpectedSettlementDate(a, d))
           /\ a = Global => Weekday(ExpectedSettlementDate(a, d)) \in PayWindows
<1>1. CASE a = Thai
  <2>1. ExpectedSettlementDate(a, d) = NextBusinessDay(d)
    BY <1>1 DEF ExpectedSettlementDate
  <2> QED BY <1>1, <2>1, NextBusinessDaySpec DEF Thai, Global
<1>2. CASE a = Global
  <2>1. ExpectedSettlementDate(a, d) = nextGlobalPayWindow(d)
    BY <1>2 DEF ExpectedSettlementDate, Thai, Global
  <2>2. /\ nextGlobalPayWindow(d) \in d+1 .. d+4
        /\ Weekday(nextGlobalPayWindow(d)) \in PayWindows
    BY GlobalPayWindowSpec
  <2>3. ~IsWeekend(nextGlobalPayWindow(d))
    BY <2>2 DEF IsWeekend, PayWindows, Tuesday, Friday, Saturday, Sunday
  <2> QED BY <2>1, <2>2, <2>3
<1>3. CASE a = Prompt
  <2> DEFINE n1 == NextBusinessDay(d)
             n2 == NextBusinessDay(n1)
             n3 == NextBusinessDay(n2)
  <2>1. ExpectedSettlementDate(a, d) = n3
    BY <1>3, ThreeBusinessDays DEF ExpectedSettlementDate, Thai, Global, Prompt
  <2>2. n1 \in Int /\ n2 \in Int /\ n3 \in Int
    BY NextBusinessDaySpec
  <2>3. /\ n1 \in d+1 .. d+3 /\ ~IsWeekend(n1) /\ \A f \in d+1 .. n1-1 : IsWeekend(f)
        /\ n2 \in n1+1 .. n1+3 /\ ~IsWeekend(n2) /\ \A f \in n1+1 .. n2-1 : IsWeekend(f)
        /\ n3 \in n2+1 .. n2+3 /\ ~IsWeekend(n3) /\ \A f \in n2+1 .. n3-1 : IsWeekend(f)
    BY <2>2, NextBusinessDaySpec
  <2> HIDE DEF n1, n2, n3
  <2>4. n3 <= d + 5
    <3>1. /\ n1 = d + Gap(d % 7)   /\ n1 % 7 = (d + Gap(d % 7)) % 7
          /\ n2 = n1 + Gap(n1 % 7) /\ n2 % 7 = (n1 + Gap(n1 % 7)) % 7
          /\ n3 = n2 + Gap(n2 % 7)
      BY <2>2, BusinessDayGap DEF n1, n2, n3
    <3>2. d % 7 \in 0 .. 6
      OBVIOUS
    <3> QED BY <2>2, <3>1, <3>2 DEF Gap, Friday, Saturday
  <2> QED BY <1>3, <2>1, <2>2, <2>3, <2>4 DEF Prompt, Global
<1> QED BY <1>1, <1>2, <1>3 DEF Acquirers

\* A Bangkok day written into a CSV file is the day every query reads back,
\* whatever UTC makes of it (domain/time.go, BangkokMidnight).
THEOREM BangkokDayRoundTrip ==
    ASSUME NEW d \in Int
    PROVE  BangkokMidnight(24 * d - 7) = d
BY DEF BangkokMidnight
=============================================================================
