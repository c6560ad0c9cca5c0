----------------------------- MODULE FillLedger -----------------------------
(***************************************************************************)
(* trader_fills and trader_realized_pnl for one asset.                     *)
(*                                                                         *)
(* The engine reports of every order its cumulative filled quantity and    *)
(* the time of its last change.  Two kinds of reader copy that into the    *)
(* ledger, each after an await: the reconciler, for the orders the bot     *)
(* tracks, and the archivers (close-out sweep, gate, dashboard), for all   *)
(* orders of a reply.  So snapshots arrive late, twice and out of order.   *)
(* The realized rows are rebuilt from all fills, oldest buy first.         *)
(***************************************************************************)
EXTENDS Integers, FiniteSets, SequencesExt

CONSTANTS
  Order,        \* the orders of the asset
  Buys,         \* those that buy
  Quantity,     \* ordered quantity
  Parent,       \* entry placed with a bracket leg; the order itself if it is no leg
  NoBrokerId,   \* orders the engine reports without a broker id
  Reconciler,   \* the one reader of tracked orders
  Archivers,    \* readers of whole replies
  Complete,     \* archivers that read every page of the history
  MaxStamp      \* bound on the engine's clock

Readers == {Reconciler} \cup Archivers

ASSUME LedgerAssumption ==
  /\ IsFiniteSet(Order)
  /\ Buys \subseteq Order
  /\ NoBrokerId \subseteq Order
  /\ Complete \subseteq Archivers
  /\ Reconciler \notin Archivers
  /\ Quantity \in [Order -> Nat]
  /\ Parent \in [Order -> Order]
  /\ MaxStamp \in Nat

VARIABLES
  clock,      \* the engine's clock; two changes never share a millisecond
  engine,     \* what GET /orders says of an order: qty and at (updated_at)
  reply,      \* orders in the reply a reader holds; {} when it holds none
  snap,       \* what the reply says of them
  rowQty,     \* trader_decisions.filled_qty; 0 before the first fill
  kept,       \* trader_fills, row "order:<broker id>": qty 0 when there is none
  loose,      \* trader_fills, rows without broker id: set of [order, qty, at]
  realized    \* trader_realized_pnl: sequence of [buy, sell, qty]

readerVars == <<reply, snap>>
ledgerVars == <<clock, engine, reply, snap, rowQty, kept, loose, realized>>

Seen == [qty : Nat, at : Nat]
Nothing == [qty |-> 0, at |-> 0]

LedgerTypeOK ==
  /\ clock \in Nat
  /\ engine \in [Order -> Seen]
  /\ reply \in [Readers -> SUBSET Order]
  /\ snap \in [Readers -> [Order -> Seen]]
  /\ rowQty \in [Order -> Nat]
  /\ kept \in [Order -> Seen]
  /\ loose \subseteq [order : Order, qty : Nat, at : Nat]
  /\ realized \in Seq([buy : Order, sell : Order, qty : Nat])

LedgerInit ==
  /\ clock = 0
  /\ engine = [o \in Order |-> Nothing]
  /\ reply = [r \in Readers |-> {}]
  /\ snap = [r \in Readers |-> [o \in Order |-> Nothing]]
  /\ rowQty = [o \in Order |-> 0]
  /\ kept = [o \in Order |-> Nothing]
  /\ loose = {}
  /\ realized = <<>>

-----------------------------------------------------------------------------
(* The engine and its broker.                                              *)

Executed(S) == FoldFunctionOnSet(LAMBDA s, sum : s.qty + sum, 0, engine, S)

\* The account is long only: it sells what it holds.
Fill(o, q) ==
  /\ clock < MaxStamp
  /\ engine[o].qty + q <= Quantity[o]
  /\ o \notin Buys => q <= Executed(Buys) - Executed(Order \ Buys)
  /\ clock' = clock + 1
  /\ engine' = [engine EXCEPT ![o] = [qty |-> @.qty + q, at |-> clock + 1]]
  /\ UNCHANGED <<readerVars, rowQty, kept, loose, realized>>

\* updated_at also moves without a fill: the rest of an order is canceled.
Touch(o) ==
  /\ clock < MaxStamp
  /\ engine[o].qty > 0
  /\ clock' = clock + 1
  /\ engine' = [engine EXCEPT ![o].at = clock + 1]
  /\ UNCHANGED <<readerVars, rowQty, kept, loose, realized>>

-----------------------------------------------------------------------------
(* A reader asks for orders and gets a page, which may leave orders out.   *)

FetchOrders(r, page) ==
  /\ reply[r] = {}
  /\ page # {}
  /\ r \in Complete => page = Order
  /\ reply' = [reply EXCEPT ![r] = page]
  /\ snap' = [snap EXCEPT ![r] = engine]
  /\ UNCHANGED <<clock, engine, rowQty, kept, loose, realized>>

\* upsertCumulativeOrderFill returns before it writes
Stale(old, new) ==
  \/ old.qty > new.qty
  \/ old.qty = new.qty /\ old.at >= new.at

\* mutant: no comparison with the stored snapshot
UpsertLatest(old, new) == new

\* the row of an order after a snapshot was offered
Upsert(old, new) == IF Stale(old, new) THEN old ELSE new

\* the rows of the orders S after the snapshots of reader r
Upserted(r, S) ==
  [o \in Order |-> IF o \in S \ NoBrokerId THEN Upsert(kept[o], snap[r][o]) ELSE kept[o]]

HasFill(r, o) == snap[r][o].qty > 0

\* the reader is done with its reply
Forget(r) ==
  /\ reply' = [reply EXCEPT ![r] = {}]
  /\ snap' = [snap EXCEPT ![r] = [o \in Order |-> Nothing]]

\* The reconciler skips an entry whose quantity fell back, and legs, which
\* have no decision row.  A row without broker id is keyed by its quantity.
Tracked == {o \in reply[Reconciler] : Parent[o] = o /\ HasFill(Reconciler, o)}
FellBack(o) == o \in Buys /\ snap[Reconciler][o].qty < rowQty[o]
LooseRow(o) == [order |-> o, qty |-> snap[Reconciler][o].qty, at |-> snap[Reconciler][o].at]
IsStored(o, q) == \E f \in loose : f.order = o /\ f.qty = q

ReconcileFills ==
  LET taken == {o \in Tracked : ~FellBack(o)}
      fresh == {o \in taken \cap NoBrokerId : ~IsStored(o, snap[Reconciler][o].qty)}
  IN  /\ reply[Reconciler] # {}
      /\ rowQty' = [o \in Order |-> IF o \in taken THEN snap[Reconciler][o].qty ELSE rowQty[o]]
      /\ kept' = Upserted(Reconciler, taken)
      /\ loose' = loose \cup {LooseRow(o) : o \in fresh}
      /\ Forget(Reconciler)
      /\ UNCHANGED <<clock, engine, realized>>

\* mutant: a leg is archived under its own decision id, which no row has
KnownDecisionOwn(r, o) == Parent[o] = o

\* A leg is archived under its parent's decision, found in the same reply.
KnownDecision(r, o) == Parent[o] \in reply[r]

Archive(r) ==
  /\ reply[r] # {}
  /\ kept' = Upserted(r, {o \in reply[r] : HasFill(r, o) /\ KnownDecision(r, o)})
  /\ Forget(r)
  /\ UNCHANGED <<clock, engine, rowQty, loose, realized>>

-----------------------------------------------------------------------------
(* The realized rows: listFillsForAsset, matchLotsFifo.                    *)

Fills ==
  loose \cup {[order |-> o, qty |-> kept[o].qty, at |-> kept[o].at] :
                o \in {p \in Order : kept[p].qty > 0}}

\* ORDER BY fill_ts_ms: the last of some fills
LatestFill(D) == CHOOSE f \in D : \A g \in D : g.at <= f.at

Least(m, n) == IF m < n THEN m ELSE n

\* one round of the sale's loop: what is left of it goes to the oldest lot
TakeLot(sale, sell) ==
  LET lot == Head(sale.open)
      q == Least(sale.left, lot.qty)
      rest == Tail(sale.open)
  IN  IF sale.left = 0 \/ sale.open = <<>> THEN sale
      ELSE [open |-> IF q = lot.qty THEN rest ELSE <<[lot EXCEPT !.qty = @ - q]>> \o rest,
            closed |-> Append(sale.closed, [buy |-> lot.order, sell |-> sell, qty |-> q]),
            left |-> sale.left - q]

\* A round ends the sale or takes a whole lot.
SellFifo(book, f) ==
  LET sale[i \in 0..Len(book.open)] ==
        IF i = 0 THEN [open |-> book.open, closed |-> book.closed, left |-> f.qty]
        ELSE TakeLot(sale[i - 1], f.order)
      over == sale[Len(book.open)]
  IN  [open |-> over.open, closed |-> over.closed]

\* mutant: a later buy goes to the front of the queue
MatchLotLifo(book, f) ==
  IF f.order \in Buys THEN [book EXCEPT !.open = <<f>> \o @] ELSE SellFifo(book, f)

MatchLot(book, f) ==
  IF f.order \in Buys THEN [book EXCEPT !.open = Append(@, f)] ELSE SellFifo(book, f)

\* the book after each set of fills, the oldest first
MatchLotsFifo(fills) ==
  LET book[D \in SUBSET fills] ==
        IF D = {} THEN [open |-> <<>>, closed |-> <<>>]
        ELSE MatchLot(book[D \ {LatestFill(D)}], LatestFill(D))
  IN  book[fills].closed

Recompute ==
  /\ Fills # {}
  /\ realized' = MatchLotsFifo(Fills)
  /\ UNCHANGED <<clock, engine, readerVars, rowQty, kept, loose>>

-----------------------------------------------------------------------------
LedgerNext ==
  \/ \E o \in Order : (\E q \in 1..Quantity[o] : Fill(o, q)) \/ Touch(o)
  \/ \E r \in Readers, page \in SUBSET Order : FetchOrders(r, page)
  \/ ReconcileFills
  \/ \E r \in Archivers : Archive(r)
  \/ Recompute

LedgerSpec == LedgerInit /\ [][LedgerNext]_ledgerVars

\* The gate and the dashboard read the complete history again and again.
LedgerFair ==
  \A r \in Complete :
    WF_ledgerVars((\E page \in SUBSET Order : FetchOrders(r, page)) \/ Archive(r))

-----------------------------------------------------------------------------
(* Properties *)

EngineQty == [o \in Order |-> engine[o].qty]
KeptQty == [o \in Order |-> kept[o].qty]

Record == INSTANCE FillRecord WITH executed <- EngineQty, recorded <- KeptQty

\* However late, often or out of order the snapshots of two readers arrive,
\* the quantity stored for an order is one the engine reported and never
\* falls: upsertCumulativeOrderFill under the reconciler and the archivers.
LedgerPromise == Record!Spec

\* The first n bought units not sold yet, one by one: what FIFO means.
Units(f) == [i \in 1..f.qty |-> f.order]
SellUnits(book, f) ==
  IF f.order \in Buys THEN [book EXCEPT !.queue = @ \o Units(f)]
  ELSE LET n == Least(f.qty, Len(book.queue))
       IN  [queue |-> SubSeq(book.queue, n + 1, Len(book.queue)),
            sold |-> book.sold \o [i \in 1..n |-> <<book.queue[i], f.order>>]]
UnitPairs(fills) ==
  LET units[D \in SUBSET fills] ==
        IF D = {} THEN [queue |-> <<>>, sold |-> <<>>]
        ELSE SellUnits(units[D \ {LatestFill(D)}], LatestFill(D))
  IN  units[fills].sold

Pairs(lot) == [i \in 1..lot.qty |-> <<lot.buy, lot.sell>>]
AllPairs(lots) == FlattenSeq([i \in DOMAIN lots |-> Pairs(lots[i])])

\* The realized lots, unit by unit, are the pairs of a plain queue of units:
\* matchLotsFifo splits lots and drops sales without inventory correctly for
\* every ledger the readers can leave behind.
LotsAreFifo == AllPairs(MatchLotsFifo(Fills)) = UnitPairs(Fills)

\* Once the engine is quiet, the ledger holds what every order with a broker
\* id filled, bracket legs included: the complete history repairs what the
\* order window of the close-out sweep cut off.
LedgerCatchesUp == <>[](\A o \in Order \ NoBrokerId : kept[o].qty = engine[o].qty)

RealizedQty(o) ==
  FoldLeft(LAMBDA sum, lot : IF lot.sell = o THEN sum + lot.qty ELSE sum, 0, realized)

\* A sale that was realized stays realized: trader_fills is append-only and
\* the realized rows are rebuilt from it.  The code breaks this: a later fill
\* moves the cumulative row of the buy behind the sale it had covered.
SaleStaysRealized ==
  [][\A o \in Order \ Buys : RealizedQty(o)' >= RealizedQty(o)]_ledgerVars
=============================================================================
