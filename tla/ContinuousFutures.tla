------------------------- MODULE ContinuousFutures -------------------------
(***************************************************************************)
(* The continuous series of a future (internal/market/futures.go): on each *)
(* day the settlement of the contract that expires next, the settlements   *)
(* before a roll moved by the gap between the two contracts so that the    *)
(* series does not jump from one to the other.                             *)
(*                                                                         *)
(* A quote is a contract and a day; what it settled at is Settlement, so   *)
(* that a set of quotes says which of them are stored.  Days are sessions. *)
(***************************************************************************)
EXTENDS Integers, FiniteSetsExt

CONSTANTS Contracts,    \* the contracts of one root
          Expiration,   \* [Contracts -> Int], the last day of each
          Settlement    \* [Contracts -> [days -> Int]], what each settled at on a day

ASSUME FuturesAssumption ==
  /\ Expiration \in [Contracts -> Int]
  /\ \A c, d \in Contracts : Expiration[c] = Expiration[d] => c = d
  /\ DOMAIN Settlement = Contracts
  /\ \A c \in Contracts : \A day \in DOMAIN Settlement[c] : Settlement[c][day] \in Int

\* The contracts quoted on a day, and the one of them that expires next.
QuotedOn(quotes, day) == {c \in Contracts : [contract |-> c, day |-> day] \in quotes}
Candidates(quotes, day) == {c \in QuotedOn(quotes, day) : Expiration[c] >= day}
FrontContract(quotes, day) ==
  CHOOSE c \in Candidates(quotes, day) :
     \A d \in Candidates(quotes, day) : Expiration[c] <= Expiration[d]

\* The days that have a bar: those on which some contract is still alive.
UsedDays(quotes) == {day \in {q.day : q \in quotes} : Candidates(quotes, day) # {}}

DaysBefore(quotes, day) == {d \in UsedDays(quotes) : d < day}
Previous(quotes, day) == Max(DaysBefore(quotes, day))

IsRoll(quotes, day) ==
  /\ DaysBefore(quotes, day) # {}
  /\ FrontContract(quotes, Previous(quotes, day)) # FrontContract(quotes, day)

\* The days before a roll on which both contracts settled.
CommonDays(quotes, day) ==
  {d \in DaysBefore(quotes, day) :
     {FrontContract(quotes, Previous(quotes, day)), FrontContract(quotes, day)}
        \subseteq QuotedOn(quotes, d)}

\* A mutant's: the gap of the first such day.
RollGapFirstDay(quotes, day) ==
  IF CommonDays(quotes, day) = {} THEN 0
  ELSE LET at == Min(CommonDays(quotes, day))
       IN  Settlement[FrontContract(quotes, day)][at]
             - Settlement[FrontContract(quotes, Previous(quotes, day))][at]

\* How far the new contract stood above the old one on the last of those days.
RollGap(quotes, day) ==
  IF CommonDays(quotes, day) = {} THEN 0
  ELSE LET at == Max(CommonDays(quotes, day))
       IN  Settlement[FrontContract(quotes, day)][at]
             - Settlement[FrontContract(quotes, Previous(quotes, day))][at]

\* backAdjust walks from the last day to the first: a day is moved by what the
\* day after it is moved, and by the gap of that day if it is a roll.
DaysAfter(quotes, day) == {d \in UsedDays(quotes) : d > day}
Adjustments(quotes) ==
  LET offset[day \in UsedDays(quotes)] ==
        IF DaysAfter(quotes, day) = {} THEN 0
        ELSE LET next == Min(DaysAfter(quotes, day))
             IN  offset[next] + IF IsRoll(quotes, next) THEN RollGap(quotes, next) ELSE 0
  IN  offset

InWindow(quotes, from, to) == {q \in quotes : from <= q.day /\ q.day <= to}

\* The series of a window: its days, each with its adjusted settlement.
LoadContinuous(quotes, from, to) ==
  LET held == InWindow(quotes, from, to)
      offset == Adjustments(held)
  IN  [day \in UsedDays(held) |-> Settlement[FrontContract(held, day)][day] + offset[day]]

\* The page of a future before a cursor, and what an indicator is fed before it:
\* the series of the two years that end on the first day of the page.
PageContinuous(quotes, from, to, before, limit) ==
  LET series == LoadContinuous(quotes, from, to)
      days == {d \in DOMAIN series : d < before}
      kept == {d \in days : Cardinality({e \in days : e > d}) < limit}
  IN  [days |-> kept, series |-> series, hasMore |-> kept # days]

PrimeContinuous(quotes, reach, before, n) ==
  LET series == LoadContinuous(quotes, before - reach, before)
      days == {d \in DOMAIN series : d < before}
      kept == {d \in days : Cardinality({e \in days : e > d}) < n}
  IN  [d \in kept |-> series[d]]
=============================================================================
