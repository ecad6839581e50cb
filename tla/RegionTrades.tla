----------------------------- MODULE RegionTrades -----------------------------
(***************************************************************************)
(* services/region_trade.py and db/repositories/region_trade_repository.py *)
(* behind GET /properties/trades: the trades of a district, page by page.  *)
(* A page is three statements on one connection - the name of the          *)
(* district, the number of its trades, the rows of the page - with nothing *)
(* to hold them together: each sees what is committed when it runs, and    *)
(* every page is a request of its own. Trades are loaded, and cancelled    *)
(* ones taken out of the view, by a program outside the repository at any  *)
(* time.                                                                   *)
(***************************************************************************)
EXTENDS Integers, SequencesExt

CONSTANTS Trades,       \* the trades there may ever be
          Stocks,       \* those a district may have when its list is opened
          PageSizes

TradeSort == {"AREA_ASC", "AREA_DESC", "PRICE_ASC", "PRICE_DESC"}
RegionTrade == [id : Nat, area : Nat, price : Nat]

ASSUME TradeAssumption ==
    /\ Trades \subseteq RegionTrade
    /\ \A stock \in Stocks : stock \subseteq Trades /\ IsFiniteSet(stock)
    /\ PageSizes \subseteq 1..50
    /\ \A t, u \in Trades : t.id = u.id => t = u

VARIABLES valid,        \* v_valid_trades of the district
          list,         \* sort and page size of the list that is open
          tradePhase, page, total,
          shown,        \* the rows of the pages read so far
          start,        \* history: the trades when the list was opened
          changed,      \* history: what happened to them since
          torn          \* history: whether it happened between count and rows

tradeVars == <<valid, list, tradePhase, page, total, shown, start, changed, torn>>

-------------------------------------------------------------------------------
\* Fault: what is equal in the sorted column comes in any order.
PrecedesByColumn(t, u, sort) ==
    \/ sort = "AREA_ASC" /\ t.area < u.area
    \/ sort = "AREA_DESC" /\ t.area > u.area
    \/ sort = "PRICE_ASC" /\ t.price < u.price
    \/ sort = "PRICE_DESC" /\ t.price > u.price

\* _ORDER_BY: the column, then the id, which no two rows share.
Precedes(t, u, sort) ==
    LET column(x) == IF sort \in {"AREA_ASC", "AREA_DESC"} THEN x.area ELSE x.price
        upwards == sort \in {"AREA_ASC", "PRICE_ASC"} IN
    IF column(t) = column(u) THEN t.id < u.id
    ELSE (column(t) < column(u)) = upwards

\* The orders in which the database may deliver rows.
Orders(trades, sort) ==
    {s \in SetToSeqs(trades) :
        \A i, j \in 1..Len(s) : i < j => ~Precedes(s[j], s[i], sort)}

\* LIMIT and OFFSET
PageRows(order, number, size) ==
    SubSeq(order, (number - 1) * size + 1, Min({number * size, Len(order)}))

\* total_pages: a district without trades has one page, an empty one.
TotalPages(count, size) == Max({1, (count + size - 1) \div size})

-------------------------------------------------------------------------------
TradesInit ==
    /\ valid = {} /\ start = {} /\ list = <<>> /\ shown = <<>>
    /\ tradePhase = "closed" /\ page = 0 /\ total = 0
    /\ changed = "no" /\ torn = FALSE

\* read_region_trades: the first page of a list.
OpenList(stock, sort, size) ==
    /\ tradePhase = "closed"
    /\ valid' = stock /\ start' = stock
    /\ list' = [sort |-> sort, size |-> size]
    /\ page' = 1 /\ tradePhase' = "asked"
    /\ UNCHANGED <<total, shown, changed, torn>>

\* fetch_region_name: a code without a district is answered with 404.
ReadRegion(known) ==
    /\ tradePhase = "asked"
    /\ page > 1 => known
    /\ tradePhase' = IF known THEN "named" ELSE "notFound"
    /\ UNCHANGED <<valid, list, page, total, shown, start, changed, torn>>

\* fetch_region_trade_count
CountTrades ==
    /\ tradePhase = "named"
    /\ total' = Cardinality(valid)
    /\ torn' = FALSE /\ tradePhase' = "counted"
    /\ UNCHANGED <<valid, list, page, shown, start, changed>>

\* fetch_region_trade_rows and build_region_trade_page
ReadRows ==
    /\ tradePhase = "counted"
    /\ \E order \in Orders(valid, list.sort) :
        shown' = Append(shown, PageRows(order, page, list.size))
    /\ tradePhase' = "shown"
    /\ UNCHANGED <<valid, list, page, total, start, changed, torn>>

\* Any statement may fail: 503, and the user may ask for the page again.
TradesUnavailable ==
    /\ tradePhase \in {"asked", "named", "counted"}
    /\ tradePhase' = "unavailable"
    /\ UNCHANGED <<valid, list, page, total, shown, start, changed, torn>>

AskAgain ==
    /\ tradePhase = "unavailable"
    /\ tradePhase' = "asked"
    /\ UNCHANGED <<valid, list, page, total, shown, start, changed, torn>>

\* The user turns to the next page, as long as the last answer said there is one.
TurnPage ==
    /\ tradePhase = "shown" /\ page < TotalPages(total, list.size)
    /\ page' = page + 1 /\ tradePhase' = "asked"
    /\ UNCHANGED <<valid, list, total, shown, start, changed, torn>>

\* The loader outside the repository: it adds trades, and a trade that is
\* cancelled is no longer valid. Bound: nothing changes after a cancellation.
Changed(trades, how) ==
    /\ tradePhase \notin {"closed", "notFound"} /\ changed # "cancelled"
    /\ valid' = trades /\ changed' = how
    /\ torn' = (torn \/ tradePhase = "counted")
    /\ UNCHANGED <<list, tradePhase, page, total, shown, start>>

LoadTrade(t) ==
    /\ t \notin valid
    /\ \A u \in valid : u.id < t.id
    /\ Changed(valid \cup {t}, "loaded")

CancelTrade(t) == t \in valid /\ Changed(valid \ {t}, "cancelled")

TradesNext ==
    \/ \E s \in Stocks, o \in TradeSort, n \in PageSizes : OpenList(s, o, n)
    \/ \E known \in BOOLEAN : ReadRegion(known)
    \/ CountTrades \/ ReadRows \/ TradesUnavailable \/ AskAgain \/ TurnPage
    \/ \E t \in Trades : LoadTrade(t) \/ CancelTrade(t)

TradesSpec == TradesInit /\ [][TradesNext]_tradeVars

-------------------------------------------------------------------------------
TradesTypeOK ==
    /\ valid \subseteq Trades /\ start \subseteq Trades
    /\ list \in [sort : TradeSort, size : PageSizes] \cup {<<>>}
    /\ tradePhase \in {"closed", "asked", "named", "counted", "shown", "notFound",
                      "unavailable"}
    /\ page \in Nat /\ total \in Nat
    /\ \A n \in DOMAIN shown : ToSet(shown[n]) \subseteq Trades
    /\ changed \in {"no", "loaded", "cancelled"} /\ torn \in BOOLEAN

ReadToTheEnd == tradePhase = "shown" /\ page = TotalPages(total, list.size)

\* Whoever reads a list to its last page has seen each trade, and each only once,
\* unless the trades change meanwhile (the comment on _ORDER_BY: ties must not move
\* between pages). Trades that are loaded meanwhile push others to a later page,
\* where they may be seen again, but none is lost - except when they come between
\* the count and the rows of the last page, which then was not the last one.
NoTradeIsLost ==
    ReadToTheEnd =>
        LET seen == FlattenSeq(shown) IN
        /\ changed = "no" => ToSet(seen) = valid /\ IsInjective(seen)
        /\ changed = "loaded" /\ ~torn => start \subseteq ToSet(seen)
===============================================================================
