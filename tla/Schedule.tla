------------------------------ MODULE Schedule ------------------------------
(***************************************************************************)
(* The Bangkok calendar (internal/domain/time.go) and the settlement       *)
(* schedules of the three acquirers (internal/schedule/schedule.go).       *)
(*                                                                         *)
(* Bangkok has no daylight saving, so a Bangkok calendar day is an integer *)
(* and AddDate(0, 0, k) adds k to it.  Day 0 is a Sunday: the weekday of   *)
(* day d is then d % 7 in Go's numbering (time.Sunday = 0).  An instant is *)
(* a whole number of hours since 00:00 UTC of day 0.                       *)
(***************************************************************************)
EXTENDS Integers

\* domain.AcquirerThai, AcquirerGlobal, AcquirerPrompt
Thai   == "ThaiAcquirer"
Global == "GlobalPay"
Prompt == "PromptPayProcessor"
Acquirers == {Thai, Global, Prompt}

Sunday   == 0
Tuesday  == 2
Friday   == 5
Saturday == 6

Weekday(d) == d % 7

\* The Bangkok day an instant falls on: t.In(UTC+7), truncated to midnight.
BangkokMidnight(instant) == (instant + 7) \div 24

\* 00:00 Bangkok time of a day, as an instant: what a date without a time is
\* read as.
BangkokInstant(day) == 24 * day - 7

IsWeekend(d) == Weekday(d) \in {Saturday, Sunday}

\* The loop starts on the day after d and leaves at the first day that is
\* not at the weekend.
NextBusinessDay(d) ==
    CHOOSE e \in d+1 .. d+3 : /\ ~IsWeekend(e)
                              /\ \A f \in d+1 .. e-1 : IsWeekend(f)

\* n turns of the loop d = NextBusinessDay(d).
AddBusinessDays(d, n) ==
    LET after[i \in 0 .. n] ==
            IF i = 0 THEN d ELSE NextBusinessDay(after[i - 1])
    IN  after[n]

PayWindows == {Tuesday, Friday}

\* Faulty variant of nextGlobalPayWindow: a window day pays its own payments.
sameDayGlobalPayWindow(d) ==
    CHOOSE e \in d .. d+6 : /\ Weekday(e) \in PayWindows
                            /\ \A f \in d .. e-1 : Weekday(f) \notin PayWindows

\* The first Tuesday or Friday after d; a payment made on a window day waits
\* for the next window.
nextGlobalPayWindow(d) ==
    CHOOSE e \in d+1 .. d+7 : /\ Weekday(e) \in PayWindows
                              /\ \A f \in d+1 .. e-1 : Weekday(f) \notin PayWindows

\* Whether ExpectedSettlementDate returns a date or its error.
HasSchedule(acquirer) == acquirer \in Acquirers

ExpectedSettlementDate(acquirer, d) ==
    IF acquirer = Thai THEN NextBusinessDay(d)
    ELSE IF acquirer = Global THEN nextGlobalPayWindow(d)
    ELSE AddBusinessDays(d, 3)
=============================================================================
