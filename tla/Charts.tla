------------------------------- MODULE Charts -------------------------------
(***************************************************************************)
(* The chart of the page and what feeds it: the jobs that store bars and   *)
(* settlements, the handler of /candles (internal/api/candles.go), the     *)
(* cache of the browser, and the component that walks the pages backwards  *)
(* (frontend/src/lib/Chart.svelte).                                        *)
(*                                                                         *)
(* A view is what the chart is asked to show: bars of some width of the    *)
(* stock, or days of the future.  stock holds the slots whose 5m bar is    *)
(* stored, known the contracts that have a row, quotes their settlements.  *)
(* bars is the sequence on screen, cursor where the next older page ends,  *)
(* generation the counter that tells the answers of an earlier view apart, *)
(* requests the fetches under way, cache what the browser may answer by    *)
(* itself.  stock0 and quotes0 are what was stored from the beginning: no  *)
(* code uses them.                                                         *)
(***************************************************************************)
EXTENDS CandlePages, ContinuousFutures, SequencesExt

CONSTANTS Widths,        \* slots in a bucket, one view of the stock each
          Future,        \* the view of the future
          PageLimit,     \* bars the chart asks for
          Elapsed,       \* slots of today that are over
          LastDay,       \* the clock stops here
          FirstDays,     \* where it may start
          FirstStored,   \* what may be stored at the beginning
          MaxArrivals,   \* bars and settlements stored later, at most
          MaxSelections, \* changes of view and of indicators, at most
          Reach          \* days the priming of a future reaches back

ASSUME ChartsAssumption ==
  /\ Widths \subseteq Nat \ {0} /\ Future \notin Nat
  /\ PageLimit \in Nat \ {0} /\ Elapsed \in 0..SessionLength
  /\ LastDay \in Nat /\ FirstDays \subseteq 0..LastDay
  /\ \A c \in Contracts : 0..LastDay \subseteq DOMAIN Settlement[c]
  /\ \A initial \in FirstStored :
        /\ initial.stock \subseteq Nat
        /\ initial.quotes \subseteq [contract : Contracts, day : Nat]

VARIABLES stock, known, quotes, today, stock0, quotes0, arrivals,
          view, bars, cursor, generation, loading, requests, cache

stored == <<stock, known, quotes, today, arrivals>>
first == <<stock0, quotes0>>
screen == <<view, bars, cursor, generation, loading>>
vars == <<stored, first, screen, requests, cache>>

Views == Widths \cup {Future}
NoView == 0

Now == today * SessionLength + Elapsed

-----------------------------------------------------------------------------
(* What is stored, and when. *)

Init ==
  /\ today \in FirstDays
  /\ \E stored0 \in FirstStored :
        /\ stock = {s \in stored0.stock : s < Now}
        /\ quotes = {q \in stored0.quotes : q.day <= today}
  /\ known = {q.contract : q \in quotes}
  /\ stock0 = stock /\ quotes0 = quotes /\ arrivals = 0
  /\ view = NoView /\ bars = <<>> /\ cursor = NoCursor /\ generation = 0
  /\ loading = FALSE /\ requests = {} /\ cache = {}

\* A bar of a slot that is over is stored: the evening's, or of an old hole.
CandlesStored ==
  /\ arrivals < MaxArrivals /\ arrivals' = arrivals + 1
  /\ \E slot \in 0..(Now - 1) : slot \notin stock /\ stock' = stock \cup {slot}
  /\ UNCHANGED <<known, quotes, today, first, screen, requests, cache>>

\* sync-futures: the row of a contract, then its history in one transaction;
\* the history may fail, and then the row stays without it.
IngestContract ==
  /\ arrivals < MaxArrivals /\ arrivals' = arrivals + 1
  /\ \E c \in Contracts :
        /\ known' = known \cup {c}
        /\ \/ UNCHANGED quotes
           \/ \E from \in 0..today :
                 quotes' = quotes \cup [contract : {c}, day : from..Min({today, Expiration[c]})]
  /\ UNCHANGED <<stock, today, first, screen, requests, cache>>

\* The tail of the evening: a live contract and its settlement of today, if it
\* has one, once sync-futures has shown that the root is wanted.
StoreTermContract ==
  /\ known # {} /\ arrivals < MaxArrivals /\ arrivals' = arrivals + 1
  /\ \E c \in Contracts :
        /\ Expiration[c] >= today
        /\ known' = known \cup {c}
        /\ quotes' \in {quotes, quotes \cup {[contract |-> c, day |-> today]}}
  /\ UNCHANGED <<stock, today, first, screen, requests, cache>>

\* Midnight: what the browser kept today it may still use tomorrow, no longer.
NewDay ==
  /\ today < LastDay /\ today' = today + 1
  /\ cache' = {e \in cache : e.day = today}
  /\ UNCHANGED <<stock, known, quotes, arrivals, first, screen, requests>>

-----------------------------------------------------------------------------
(* The handler. *)

\* The bars of a page in the order of their stamps, which newCandlesBody gives
\* them and the chart keeps.
InOrder(candles) ==
  [i \in 1..Cardinality(candles) |->
     CHOOSE c \in candles : Cardinality({d \in candles : d.ts < c.ts}) = i - 1]

\* candlePage and newCandlesBody: the page by the kind of the symbol, its bars
\* oldest first.  A future counts a day as the opening of its session.
CandlesBody(v, before, limit) ==
  IF v # Future
  THEN LET page == Page(stock, v, 0, today, before, limit)
       IN  [bars |-> InOrder(page.candles),
            cursor |-> page.cursor,
            closed |-> PageEnd(0, today, before) <= Now]
  ELSE LET upTo == IF before = NoCursor THEN today + 1 ELSE before \div SessionLength
           page == PageContinuous(quotes, 0, today, upTo, limit)
           day(d) == [ts |-> d * SessionLength, rows |-> {d * SessionLength}]
       IN  [bars |-> InOrder({day(d) : d \in page.days}),
            cursor |-> IF page.hasMore THEN Min(page.days) * SessionLength ELSE NoCursor,
            closed |-> TRUE]   \* its end is the midnight that began today

-----------------------------------------------------------------------------
(* The chart. *)

Ask(kind, v, before, limit) ==
  requests' = requests \cup
    {[generation |-> generation', kind |-> kind,
      url |-> [view |-> v, before |-> before, limit |-> limit]]}

\* reload: another view, from nothing.
Reload(v) ==
  /\ generation' = generation + 1 /\ view' = v
  /\ bars' = <<>> /\ cursor' = NoCursor /\ loading' = TRUE
  /\ Ask("page", v, NoCursor, PageLimit)

Select(v) ==
  /\ generation < MaxSelections /\ v # view /\ Reload(v)
  /\ UNCHANGED <<stored, first, cache>>

\* refresh: other indicators, over as many bars as are shown.
Refresh ==
  /\ generation < MaxSelections /\ view # NoView
  /\ IF bars = <<>> THEN Reload(view)
     ELSE /\ generation' = generation + 1 /\ loading' = TRUE
          /\ Ask("page", view, NoCursor, Min({Len(bars), MaxPageLimit}))
          /\ UNCHANGED <<view, bars, cursor>>
  /\ UNCHANGED <<stored, first, cache>>

\* loadOlder: the user has scrolled to the left.
LoadOlder ==
  /\ ~ loading /\ cursor # NoCursor /\ loading' = TRUE
  /\ UNCHANGED generation /\ Ask("older", view, cursor, PageLimit)
  /\ UNCHANGED <<stored, first, cache, view, bars, cursor>>

Replace(body) == bars' = body.bars /\ cursor' = body.cursor

\* The older bars that are not shown yet are put before those that are.
Prepend(body) ==
  LET shown == {bar.ts : bar \in ToSet(bars)}
      older == {bar \in ToSet(body.bars) : bar.ts \notin shown}
  IN  /\ bars' = InOrder(older) \o bars
      /\ cursor' = body.cursor

\* A mutant's: no generation is compared.
DeliverAnyway(request, body) ==
  /\ IF request.kind = "page" THEN Replace(body) ELSE Prepend(body)
  /\ loading' = FALSE /\ UNCHANGED <<view, generation>>

\* A body reaches the chart; one that was asked before the last reload or
\* refresh (it was aborted, but may have arrived already) is dropped.
Deliver(request, body) ==
  IF request.generation = generation
  THEN /\ IF request.kind = "page" THEN Replace(body) ELSE Prepend(body)
       /\ loading' = FALSE /\ UNCHANGED <<view, generation>>
  ELSE UNCHANGED screen

\* The answer comes from the handler, which lets the browser keep a closed one,
\* or from the cache.
Answer ==
  \E request \in requests :
     /\ requests' = requests \ {request}
     /\ \/ \E body \in {CandlesBody(request.url.view, request.url.before, request.url.limit)} :
              /\ Deliver(request, body)
              /\ cache' = {e \in cache : e.url # request.url}
                            \cup {e \in {[url |-> request.url, body |-> body, day |-> today]} : body.closed}
        \/ \E entry \in cache :
              /\ entry.url = request.url /\ Deliver(request, entry.body)
              /\ UNCHANGED cache
     /\ UNCHANGED <<stored, first>>

\* The fetch fails or is aborted.
Fail ==
  \E request \in requests :
     /\ requests' = requests \ {request}
     /\ loading' = (loading /\ request.generation # generation)
     /\ UNCHANGED <<stored, first, view, bars, cursor, generation, cache>>

Next ==
  \/ CandlesStored \/ IngestContract \/ StoreTermContract \/ NewDay
  \/ \E v \in Views : Select(v)
  \/ Refresh \/ LoadOlder \/ Answer \/ Fail

Spec == Init /\ [][Next]_vars

-----------------------------------------------------------------------------
(* Properties. *)

\* TypeOK: types of the variables.
TypeOK ==
  /\ stock \subseteq 0..(Now - 1) /\ known \subseteq Contracts
  /\ quotes \subseteq [contract : known, day : 0..today]
  /\ stock0 \subseteq stock /\ quotes0 \subseteq quotes /\ arrivals \in 0..MaxArrivals
  /\ view \in Views \cup {NoView} /\ cursor \in Nat \cup {NoCursor}
  /\ generation \in 0..MaxSelections /\ loading \in BOOLEAN
  /\ \A request \in requests : request.generation \in 1..generation

\* Before the chart asks for anything.
Fresh == generation = 0 /\ arrivals = 0

\* PagesJoin: whatever part of the bars is stored, a page holds the newest
\* buckets before its cursor, none of them cut in half, it says there is more
\* exactly when there is, and its cursor starts the next page where it ends; an
\* indicator is fed the buckets right before the page (page.go, prime.go).
PagesJoin ==
  Fresh =>
    \A held \in SUBSET stock, width \in Widths, from \in 0..today, limit \in 1..MaxPageLimit :
      LET all == Resample(held, width) IN
      \A before \in {NoCursor} \cup {b.ts : b \in all} :
        LET page == Page(held, width, from, today, before, limit)
            end == PageEnd(from, today, before)
            whole == {b \in all : from * SessionLength <= b.ts /\ b.ts < end}
        IN  /\ page.candles = NewestBars(whole, limit)
            /\ page.cursor = IF page.candles = whole THEN NoCursor ELSE Oldest(page.candles)
            /\ page.candles # {} =>
                 \A n \in 1..MaxPrimeBars :
                    Prime(held, width, Oldest(page.candles), n)
                      = NewestBars({b \in all : b.ts < Oldest(page.candles)}, n)

\* The stamps the chart has to show of what was stored from the beginning.
StampsOf(v) == IF v = Future THEN {day * SessionLength : day \in UsedDays(quotes0)}
               ELSE {BucketOpen(v, s) : s \in stock0}

\* OneSeriesOnScreen: however selections, refreshes, older pages, late answers,
\* cached ones and the ingest interleave, the bars on screen are those of the
\* view that is selected, each once and in order, with no hole and no half
\* bucket in what was stored all along; and the chart stops asking for older
\* ones only at the oldest (Chart.svelte, candles.go).
OneSeriesOnScreen ==
  bars # <<>> =>
    /\ \A i \in 1..(Len(bars) - 1) : bars[i].ts < bars[i + 1].ts
    /\ \A i \in DOMAIN bars :
         /\ view = Future => bars[i].ts \div SessionLength \in UsedDays(quotes)
         /\ view # Future =>
              LET bucket(S) == {s \in S : BucketOpen(view, s) = bars[i].ts}
              IN  bars[i].rows \subseteq bucket(stock) /\ bucket(stock0) \subseteq bars[i].rows
    /\ {ts \in StampsOf(view) : ts >= bars[1].ts /\ ts <= Last(bars).ts}
         \subseteq {bar.ts : bar \in ToSet(bars)}
    /\ ~ loading /\ cursor = NoCursor => \A ts \in StampsOf(view) : ts >= bars[1].ts

\* AdjustedMovesAreTheHeldContracts: the series of a window ends at what the
\* front contract really settled at, and from one day to the next it moves by
\* what the contract held on the later day moved, whenever that contract
\* settled on the earlier one too, rolls and missing settlements included
\* (rollGap and backAdjust in futures.go).
AdjustedMovesAreTheHeldContracts ==
  Fresh =>
    \A part \in SUBSET quotes, from, to \in 0..today :
      LET held == InWindow(part, from, to)
          series == LoadContinuous(part, from, to)
      IN  \A day \in DOMAIN series :
            LET front == FrontContract(held, day) IN
            /\ day = Max(DOMAIN series) => series[day] = Settlement[front][day]
            /\ DaysBefore(held, day) # {} =>
                 LET previous == Previous(held, day) IN
                 front \in QuotedOn(held, previous) =>
                   series[day] - series[previous]
                     = Settlement[front][day] - Settlement[front][previous]

\* PrimedAtTheLevelOfThePage: "A page is primed, not restarted": the days an
\* indicator is fed before a page of a future are the days of the series the
\* page is cut from (primeFor in candles.go, BUILD_PLAN.md).
PrimedAtTheLevelOfThePage ==
  \A limit \in 1..MaxPageLimit, before \in 1..(today + 1) :
    LET page == PageContinuous(quotes, 0, today, before, limit) IN
    page.days # {} =>
      LET fed == PrimeContinuous(quotes, Reach, Min(page.days), MaxPrimeBars)
      IN  \A day \in DOMAIN fed : day \in DOMAIN page.series => fed[day] = page.series[day]

=============================================================================
