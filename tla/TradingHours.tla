----------------------------- MODULE TradingHours -----------------------------
(***************************************************************************)
(* The calendar of the Tehran exchange (packages/market_rules/             *)
(* trading_hours.py): which instants belong to an ordinary session, when   *)
(* the next one opens and how many seconds that is away.                   *)
(*                                                                         *)
(* An instant is a natural number of units since midnight of day 0, all in *)
(* Tehran's time.  A second is several units, because the code cuts the    *)
(* fraction of a second off.                                               *)
(***************************************************************************)
EXTENDS Integers

CONSTANTS
    Second,           \* units
    DayLength,        \* units
    PreStart, OpenAt, CloseAt,   \* 08:45, 09:00 and 12:30, in units of a day
    FirstWeekday,     \* weekday of day 0; Monday is 0
    Holidays,         \* IRAN_MARKET_HOLIDAYS, as days
    Horizon           \* days that next_tse_market_open looks ahead (369)

ASSUME HoursAssumption ==
    /\ Second \in Nat \ {0} /\ DayLength \in Nat /\ Horizon \in Nat \ {0}
    /\ PreStart \in Nat /\ OpenAt \in Nat /\ CloseAt \in Nat
    /\ PreStart < OpenAt /\ OpenAt < CloseAt /\ CloseAt < DayLength
    /\ FirstWeekday \in 0..6 /\ Holidays \subseteq Nat

Day(t)  == t \div DayLength
Time(t) == t % DayLength

\* Saturday to Wednesday
TradingWeekdays == {5, 6, 0, 1, 2}
Weekday(d)      == (FirstWeekday + d) % 7
TradingDay(d)   == Weekday(d) \in TradingWeekdays /\ d \notin Holidays

(* The weekend is two days; no run of closures fills the horizon, or the     *)
(* search for the next opening raises.                                       *)
ASSUME CalendarAssumption ==
    /\ Horizon >= 4
    /\ \A h \in Holidays : \E e \in h + 1..h + Horizon - 3 : TradingDay(e)

IsOpen(t)      == TradingDay(Day(t)) /\ OpenAt <= Time(t) /\ Time(t) < CloseAt
IsPremarket(t) == TradingDay(Day(t)) /\ PreStart <= Time(t) /\ Time(t) < OpenAt

Opening(d) == d * DayLength + OpenAt

(* The first trading day after d; the code raises if there is none ahead.   *)
NextTradingDay(d) ==
    CHOOSE e \in d + 1..d + Horizon :
        TradingDay(e) /\ \A f \in d + 1..e - 1 : ~TradingDay(f)

NextOpen(t) ==
    IF IsOpen(t) THEN t
    ELSE IF TradingDay(Day(t)) /\ Time(t) < OpenAt THEN Opening(Day(t))
    ELSE Opening(NextTradingDay(Day(t)))

AtLeastOne(n) == IF n > 1 THEN n ELSE 1

(* Mutant: the market is polled. *)
SecondsUntil_Poll(t) == IF IsOpen(t) THEN 0 ELSE 9
(* Whole seconds, and never none while the market is closed.                *)
SecondsUntil(t) ==
    IF IsOpen(t) THEN 0 ELSE AtLeastOne((NextOpen(t) - t) \div Second)

StatusCode(t) ==
    CASE IsOpen(t)                                              -> "OPEN"
      [] ~IsOpen(t) /\ Day(t) \in Holidays                      -> "HOLIDAY"
      [] IsPremarket(t)                                         -> "PRE_MARKET"
      [] TradingDay(Day(t)) /\ Time(t) < PreStart               -> "PRE_SESSION"
      [] TradingDay(Day(t)) /\ Time(t) >= CloseAt               -> "POST_MARKET"
      [] ~TradingDay(Day(t)) /\ Day(t) \notin Holidays          -> "WEEKEND"
=============================================================================
