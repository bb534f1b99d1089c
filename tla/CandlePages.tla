---------------------------- MODULE CandlePages ----------------------------
(***************************************************************************)
(* How stored bars become the pages of a chart (internal/market): 5m bars  *)
(* are folded into buckets that start at the opening of the session        *)
(* (resample.go), read newest first up to a cap of rows, and cut so that   *)
(* no page shows half a bucket (page.go); an indicator is fed the buckets  *)
(* before the page (prime.go).                                             *)
(*                                                                         *)
(* Time is counted in slots of 5m of trading, SessionLength to a session.  *)
(* A stored bar is the slot it opens at; a bar of a page is its opening    *)
(* and the stored bars folded into it.  What a bar says of prices is the   *)
(* fold of those, which is not modelled.                                   *)
(***************************************************************************)
EXTENDS Integers, FiniteSetsExt

CONSTANTS SessionLength,   \* slots of a session
          MaxPageLimit,    \* most bars a page has
          MaxPrimeBars     \* most bars an indicator is fed before a page

ASSUME PagesAssumption ==
  /\ SessionLength \in Nat \ {0}
  /\ MaxPageLimit \in Nat \ {0}
  /\ MaxPrimeBars \in Nat \ {0}

NoCursor == -1

\* The k newest of a set of stamps (ORDER BY ts DESC LIMIT k).
Newest(S, k) == {s \in S : Cardinality({t \in S : t > s}) < k}

\* The opening of the bucket a slot falls in: buckets are counted from the
\* opening of the session, so the last one of a session may be shorter.
BucketOpen(width, slot) ==
  LET open == (slot \div SessionLength) * SessionLength
      offset == slot - open
  IN  open + (offset \div width) * width

\* The window of a request for whole days.
DayBounds(from, to) == [start |-> from * SessionLength,
                        end |-> (to + 1) * SessionLength]

\* Stored bars of a window, newest first and at most cap of them.
ListCandlesDesc(stock, lo, hi, cap) ==
  Newest({s \in stock : lo <= s /\ s < hi}, cap)

\* A mutant's: as many rows, and none to tell that there are more.
BaseRowCapExact(width, limit) == IF width = 1 THEN limit + 1 ELSE limit * width

\* Rows that make limit whole buckets, and one that shows there are more.
BaseRowCap(width, limit) == IF width = 1 THEN limit + 1 ELSE limit * width + 1

Resample(rows, width) ==
  {[ts |-> open, rows |-> {r \in rows : BucketOpen(width, r) = open}] :
     open \in {BucketOpen(width, r) : r \in rows}}

Oldest(candles) == Min({c.ts : c \in candles})
NewestBars(candles, k) == {c \in candles : c.ts \in Newest({b.ts : b \in candles}, k)}

\* A read that was cut short may have cut a bucket: the oldest bar is dropped.
TrimPage(candles, limit, truncated) ==
  LET whole == IF truncated /\ candles # {}
               THEN {c \in candles : c.ts # Oldest(candles)}
               ELSE candles
      kept == NewestBars(whole, limit)
      hasMore == kept # candles
  IN  [candles |-> kept, hasMore |-> hasMore,
       cursor |-> IF hasMore /\ kept # {} THEN Oldest(kept) ELSE NoCursor]

ClampPageLimit(limit) == IF limit > MaxPageLimit THEN MaxPageLimit ELSE limit

\* The end of what a page covers: the end of the day asked for, or the cursor.
PageEnd(from, to, before) ==
  LET end == DayBounds(from, to).end
  IN  IF before # NoCursor /\ before < end THEN before ELSE end

\* One page: the bars of a width before a cursor.
Page(stock, width, from, to, before, limit) ==
  LET start == DayBounds(from, to).start
      end == PageEnd(from, to, before)
      clamped == ClampPageLimit(limit)
      cap == BaseRowCap(width, clamped)
      rows == ListCandlesDesc(stock, start, end, cap)
      page == TrimPage(Resample(rows, width), clamped, Cardinality(rows) = cap)
  IN  IF page.hasMore /\ page.cursor = NoCursor /\ rows # {}
      THEN [page EXCEPT !.cursor = Min(rows)]
      ELSE page

\* The bars an indicator is fed before a page: they ignore the lower bound.
Prime(stock, width, before, n) ==
  LET bars == IF n > MaxPrimeBars THEN MaxPrimeBars ELSE n
      cap == BaseRowCap(width, bars)
      rows == ListCandlesDesc(stock, 0, before, cap)
  IN  TrimPage(Resample(rows, width), bars, Cardinality(rows) = cap).candles
=============================================================================
