------------------------------ MODULE OrderFlow ------------------------------
(***************************************************************************)
(* The collector of public Bitcoin trades: a socket with numbered messages, *)
(* a builder that derives bars of 15 minutes, and the raw store.           *)
(*                                                                         *)
(* A message takes time on the wire, may be lost or come twice, and the    *)
(* socket may close.  The builder holds trades back for a reorder window   *)
(* and works them off by the time the exchange gave them; the watermark is *)
(* the latest time it has seen minus the window.  Bars and raw trades are  *)
(* written once; the builder and the pending batch live in memory only.    *)
(*                                                                         *)
(* The builder is a record, and its methods are operators on that record.  *)
(* The order book is left out.                                             *)
(***************************************************************************)
EXTENDS Integers, FiniteSetsExt, SequencesExt

CONSTANTS
  Trade,        \* trade ids
  BarTicks,     \* BITCOIN_ORDER_FLOW_BAR_MS in ticks
  DayTicks,     \* ticks of a UTC day
  Window,       \* BITCOIN_ORDER_FLOW_REORDER_WINDOW_MS in ticks
  MaxSkew,      \* MAX_CLOCK_SKEW_MS in ticks
  Ahead,        \* ticks the exchange's clock may run ahead
  MaxTime,      \* bound on the clock
  MaxSeq,       \* bound on the messages of one socket
  MaxFlowFaults \* bound on losses, repeats, closes, failed writes and crashes

ASSUME FlowAssumption ==
  /\ IsFiniteSet(Trade)
  /\ BarTicks \in Nat \ {0} /\ DayTicks \in Nat \ {0} /\ Window \in Nat
  /\ MaxSkew \in Nat /\ Ahead \in Nat
  /\ MaxTime \in Nat /\ MaxTime >= BarTicks /\ MaxSeq \in Nat /\ MaxFlowFaults \in Nat

NoTime == -1
NoBar == [start |-> NoTime]

VARIABLES
  now,        \* local clock
  \* the exchange
  src,        \* src[t]: time the exchange gave trade t; NoTime before it
  nextSeq,    \* next sequence_num on this socket
  wire,       \* messages under way: [seq, trades]
  \* the collector
  socket,     \* up, closing, down
  lastSeq,    \* lastSequence; NoTime after a connect
  seen,       \* seenTradeIds
  pending,    \* pendingTrades
  pendingDay, \* pendingPartition
  builder,    \* the bar builder
  \* durable
  bars,       \* bitcoin_order_flow_15m_bars by start
  raw,        \* raw[d]: trades in the shard of day d
  \* history
  arrived,    \* trades the builder was given before their bar was sealed
  flowFaults

exchangeVars == <<src, nextSeq, wire>>
batchVars == <<pending, pendingDay, raw>>
flowVars == <<now, exchangeVars, socket, lastSeq, seen, batchVars, builder, bars, arrived, flowFaults>>

Times == 0..MaxTime + Ahead
BucketStart(t) == (t \div BarTicks) * BarTicks
Starts == {BucketStart(t) : t \in Times}
Days == {t \div DayTicks : t \in Times}

Quality ==
  {"partial_start", "disconnect", "reconnect", "sequence_gap", "timestamp_reversal",
   "no_messages", "no_trades"}
Bar == [start : Starts, trades : SUBSET Trade, heard : BOOLEAN, quality : SUBSET Quality]

FlowTypeOK ==
  /\ now \in 0..MaxTime
  /\ src \in [Trade -> Times \cup {NoTime}]
  /\ nextSeq \in Nat
  /\ wire \in Seq([seq : Nat, trades : SUBSET Trade])
  /\ socket \in {"up", "closing", "down"}
  /\ lastSeq \in Nat \cup {NoTime}
  /\ seen \subseteq Trade /\ pending \subseteq Trade
  /\ pendingDay \in Days \cup {NoTime}
  /\ builder.bar \in Bar \cup {NoBar}
  /\ builder.clock \in Times \cup {NoTime}
  /\ bars \in [Starts -> Bar \cup {NoBar}]
  /\ raw \in [Days -> SUBSET Trade]
  /\ arrived \subseteq Trade
  /\ flowFaults \in 0..MaxFlowFaults

NewBuilder ==
  [bar |-> NoBar, clock |-> NoTime, up |-> FALSE, ever |-> FALSE,
   buffered |-> {}, maxTs |-> 0, sealed |-> {}]

FlowInit ==
  /\ now = BarTicks
  /\ src = [t \in Trade |-> NoTime] /\ nextSeq = 0 /\ wire = <<>>
  /\ socket = "down" /\ lastSeq = NoTime
  /\ seen = {} /\ pending = {} /\ pendingDay = NoTime
  /\ builder = NewBuilder
  /\ bars = [s \in Starts |-> NoBar]
  /\ raw = [d \in Days |-> {}]
  /\ arrived = {}
  /\ flowFaults = 0

-----------------------------------------------------------------------------
(* The builder.                                                            *)

NewBar(start, quality) ==
  [start |-> start, trades |-> {}, heard |-> FALSE, quality |-> quality]

Flag(b, q) == [b EXCEPT !.bar.quality = @ \cup {q}]

EnsureCurrent(b, t) ==
  IF b.bar # NoBar THEN b
  ELSE [b EXCEPT !.bar = NewBar(BucketStart(t), {"partial_start"}), !.clock = t]

AccrueUntil(b, t) ==
  IF t <= b.clock THEN b
  ELSE LET c == IF b.up THEN b ELSE Flag(b, "disconnect")
       IN  [c EXCEPT !.clock = t]

Finalized(bar) ==
  [bar EXCEPT !.quality = @ \cup (IF bar.heard THEN {} ELSE {"no_messages"})
                            \cup (IF bar.trades = {} THEN {"no_trades"} ELSE {})]

\* finalizeCurrent and the bar that follows
Seal(b, end) ==
  LET c == AccrueUntil(b, end)
  IN  [c EXCEPT !.sealed = @ \cup {Finalized(c.bar)},
                !.bar = NewBar(end, IF c.up THEN {} ELSE {"disconnect"}),
                !.clock = end]

\* the builder after each of n seals
Seals(b, n) ==
  LET sealed[i \in 0..n] ==
        IF i = 0 THEN b ELSE Seal(sealed[i - 1], b.bar.start + i * BarTicks)
  IN  sealed

AdvanceTo(b, t) ==
  LET c == EnsureCurrent(b, t)
      d == IF t < c.clock THEN Flag(c, "timestamp_reversal") ELSE c
      to == IF t < c.clock THEN c.clock ELSE t
      n == (to - d.bar.start) \div BarTicks
  IN  IF t <= 0 THEN b ELSE AccrueUntil(Seals(d, n)[n], to)

\* mutant: an observation goes to the bar that is open
ObserveInPlace(b, o) ==
  LET c == EnsureCurrent(b, o.ts)
  IN  CASE o.kind = "trade" -> [c EXCEPT !.bar.trades = @ \cup {o.trade}]
        [] o.kind = "gap" -> Flag(c, "sequence_gap")
        [] o.kind = "message" -> [c EXCEPT !.bar.heard = TRUE]

\* ingestTrade, noteSequenceGap, noteMessage
Observe(b, o) ==
  LET c == AdvanceTo(b, o.ts)
  IN  CASE o.kind = "trade" -> [c EXCEPT !.bar.trades = @ \cup {o.trade}]
        [] o.kind = "gap" -> Flag(c, "sequence_gap")
        [] o.kind = "message" -> [c EXCEPT !.bar.heard = TRUE]

Latest(D) == CHOOSE o \in D : \A p \in D : p.ts <= o.ts

\* the builder after the observations of each subset of S, the oldest first
Observed(b, S) ==
  LET after[D \in SUBSET S] ==
        IF D = {} THEN b ELSE Observe(after[D \ {Latest(D)}], Latest(D))
  IN  after

\* The buffer is a set: it is worked off by time, and what observations of one
\* time do to a bar does not depend on their order.
DrainBuffered(b, watermark) ==
  LET due == {o \in b.buffered : o.ts <= watermark}
      c == Observed([b EXCEPT !.buffered = @ \ due], due)[due]
  IN  IF watermark <= 0 THEN b
      ELSE IF c.clock = NoTime \/ watermark >= c.clock THEN AdvanceTo(c, watermark) ELSE c

Observation(kind, t, trade) == [kind |-> kind, ts |-> t, trade |-> trade]

\* what a message adds, for its novel trades, and whether one was missed
News(trades, missed) ==
  {Observation("trade", src[t], t) : t \in trades}
    \cup (IF missed THEN {Observation("gap", now, "")} ELSE {})
    \cup {Observation("message", now, "")}

\* ingestFrame, with the enqueue of each observation
IngestFrame(b, trades, missed) ==
  LET news == News(trades, missed)
      c == [b EXCEPT !.buffered = @ \cup news, !.maxTs = Max({@} \cup {o.ts : o \in news})]
  IN  DrainBuffered(c, c.maxTs - Window)

FlushBuffered(b) ==
  LET c == [b EXCEPT !.maxTs = IF now > @ THEN now ELSE @]
  IN  DrainBuffered(c, now - Window)

MarkConnected(b) ==
  IF ~b.ever /\ b.bar = NoBar
  THEN LET start == BucketStart(now)
           quality == IF now = start THEN {} ELSE {"partial_start"}
       IN  [b EXCEPT !.up = TRUE, !.ever = TRUE,
                     !.bar = NewBar(start, quality), !.clock = start]
  ELSE LET c == DrainBuffered(b, now)
           d == IF c.ever THEN Flag(c, "reconnect") ELSE c
       IN  [d EXCEPT !.up = TRUE, !.ever = TRUE]

MarkDisconnected(b) ==
  LET c == DrainBuffered(b, now)
  IN  Flag([c EXCEPT !.up = FALSE], "disconnect")

\* persistBars: INSERT OR IGNORE; no two bars of a batch have one start
PersistBars(b) ==
  /\ builder' = [b EXCEPT !.sealed = {}]
  /\ bars' = [s \in Starts |->
                LET new == {bar \in b.sealed : bar.start = s}
                IN  IF bars[s] # NoBar \/ new = {} THEN bars[s] ELSE CHOOSE bar \in new : TRUE]

FlowFault == flowFaults < MaxFlowFaults /\ flowFaults' = flowFaults + 1
NoFault == UNCHANGED flowFaults

-----------------------------------------------------------------------------
(* The exchange and the wire.                                              *)

Clock ==
  /\ now < MaxTime
  /\ now' = now + 1
  /\ UNCHANGED <<exchangeVars, socket, lastSeq, seen, batchVars, builder, bars, arrived, flowFaults>>

Send(trades) ==
  /\ nextSeq < MaxSeq
  /\ wire' = Append(wire, [seq |-> nextSeq, trades |-> trades])
  /\ nextSeq' = nextSeq + 1

TradeHappens(t, ahead) ==
  /\ src[t] = NoTime
  /\ src' = [src EXCEPT ![t] = now + ahead]
  /\ IF socket = "up" THEN Send({t}) ELSE UNCHANGED <<wire, nextSeq>>
  /\ UNCHANGED <<now, socket, lastSeq, seen, batchVars, builder, bars, arrived, flowFaults>>

\* a heartbeat, or the snapshot of recent trades
Snapshot(trades) ==
  /\ socket = "up"
  /\ Send(trades)
  /\ UNCHANGED <<now, src, socket, lastSeq, seen, batchVars, builder, bars, arrived, flowFaults>>

LoseMessage ==
  /\ wire # <<>>
  /\ FlowFault
  /\ wire' = Tail(wire)
  /\ UNCHANGED <<now, src, nextSeq, socket, lastSeq, seen, batchVars, builder, bars, arrived>>

-----------------------------------------------------------------------------
(* The raw store.                                                          *)

\* flushBatch writes all of the batch or nothing; one batch has one day.
FlushWorks ==
  /\ raw' = IF pending = {} THEN raw
            ELSE [raw EXCEPT ![pendingDay] = @ \cup pending]
  /\ pending' = {} /\ pendingDay' = NoTime

\* A failed batch is kept, and the socket is terminated.
FlushFails ==
  /\ pending # {}
  /\ FlowFault
  /\ UNCHANGED batchVars

FlushTimer ==
  /\ pending # {}
  /\ \/ FlushWorks /\ NoFault /\ UNCHANGED socket
     \/ FlushFails /\ socket' = IF socket = "up" THEN "closing" ELSE socket
  /\ UNCHANGED <<now, exchangeVars, lastSeq, seen, builder, bars, arrived>>

-----------------------------------------------------------------------------
(* The socket.                                                             *)

ClockOk(m) == \A t \in m.trades : src[t] - now \in -MaxSkew..MaxSkew

\* A message with a number already seen, or with a time out of bounds: the
\* second does not count as the last one seen.
Ignored(m) == ~ClockOk(m) \/ (lastSeq # NoTime /\ m.seq <= lastSeq)

\* The day changed and the batch of the old day could not be written.
DayBlocked(m) == m.trades # {} /\ pending # {} /\ pendingDay # now \div DayTicks

Take(m) ==
  LET novel == m.trades \ seen
      missed == lastSeq # NoTime /\ m.seq > lastSeq + 1
      b == IngestFrame(builder, novel, missed)
      day == now \div DayTicks
  IN  /\ lastSeq' = m.seq
      /\ seen' = seen \cup novel
      /\ arrived' = arrived \cup
           {t \in novel : /\ bars[BucketStart(src[t])] = NoBar
                          /\ builder.clock = NoTime \/ builder.bar.start <= src[t]}
      /\ PersistBars(b)
      /\ IF DayBlocked(m)
         THEN raw' = [raw EXCEPT ![pendingDay] = @ \cup pending] /\ pending' = novel
         ELSE raw' = raw /\ pending' = pending \cup novel
      /\ pendingDay' = IF m.trades = {} THEN pendingDay ELSE day
      /\ UNCHANGED <<socket, flowFaults>>

\* The frame is dropped after its number was noted; the socket closes.
DropFrame(m) ==
  /\ DayBlocked(m)
  /\ FlushFails
  /\ lastSeq' = m.seq
  /\ socket' = "closing"
  /\ UNCHANGED <<seen, builder, bars, arrived>>

Deliver ==
  /\ socket = "up" /\ wire # <<>>
  /\ LET m == Head(wire)
     IN  \/ Ignored(m) /\ UNCHANGED <<socket, lastSeq, seen, batchVars, builder, bars, arrived, flowFaults>>
         \/ ~Ignored(m) /\ (Take(m) \/ DropFrame(m))
  /\ wire' = Tail(wire)
  /\ UNCHANGED <<now, src, nextSeq>>

\* the message comes once more
Repeat ==
  /\ wire # <<>>
  /\ FlowFault
  /\ wire' = <<Head(wire)>> \o wire
  /\ UNCHANGED <<now, src, nextSeq, socket, lastSeq, seen, batchVars, builder, bars, arrived>>

SocketCloses ==
  /\ \/ socket = "up" /\ FlowFault /\ FlushWorks
     \/ socket = "closing" /\ NoFault /\ FlushWorks
     \/ socket \in {"up", "closing"} /\ FlushFails
  /\ socket' = "down" /\ wire' = <<>>
  /\ PersistBars(MarkDisconnected(builder))
  /\ UNCHANGED <<now, src, nextSeq, lastSeq, seen, arrived>>

SocketOpens ==
  /\ socket = "down"
  /\ socket' = "up" /\ nextSeq' = 0 /\ lastSeq' = NoTime
  /\ PersistBars(MarkConnected(builder))
  /\ UNCHANGED <<now, src, wire, seen, batchVars, arrived, flowFaults>>

Watchdog ==
  /\ PersistBars(FlushBuffered(builder))
  /\ UNCHANGED <<now, exchangeVars, socket, lastSeq, seen, batchVars, arrived, flowFaults>>

\* mutant: the dedupe set starts empty
WarmTradeDedupeCold == {}

WarmTradeDedupe == UNION {raw[d] : d \in Days}

CollectorRestarts ==
  /\ FlowFault
  /\ socket' = "down" /\ wire' = <<>> /\ lastSeq' = NoTime
  /\ seen' = WarmTradeDedupe
  /\ pending' = {} /\ pendingDay' = NoTime
  /\ builder' = NewBuilder
  /\ arrived' = {t \in arrived : bars[BucketStart(src[t])] # NoBar}
  /\ UNCHANGED <<now, src, nextSeq, raw, bars>>

-----------------------------------------------------------------------------
FlowNext ==
  \/ Clock
  \/ \E t \in Trade, ahead \in 0..Ahead : TradeHappens(t, ahead)
  \/ \E trades \in {{}, {t \in Trade : src[t] # NoTime}} : Snapshot(trades)
  \/ LoseMessage \/ Deliver \/ Repeat
  \/ FlushTimer
  \/ SocketCloses \/ SocketOpens \/ Watchdog \/ CollectorRestarts

FlowSpec == FlowInit /\ [][FlowNext]_flowVars

-----------------------------------------------------------------------------
(* Properties *)

Eligible(bar) == bar # NoBar /\ bar.quality = {}
InBucket(t, start) == src[t] # NoTime /\ BucketStart(src[t]) = start

\* An eligible bar counts exactly the trades of its quarter of an hour that
\* reached the builder before it was sealed, in whatever order they came,
\* across losses, repeats, reconnects, clocks that differ and restarts: the
\* reorder buffer and timestamp_reversal of the bar builder.
EligibleBarIsExact ==
  \A s \in Starts : Eligible(bars[s]) =>
    bars[s].trades = {t \in arrived : InBucket(t, s)}

\* A trade is stored in one day's shard only, though each shard checks its
\* own trade ids and the exchange repeats recent trades after a reconnect.
TradeIsStoredOnce ==
  \A d, e \in Days : d # e => raw[d] \cap raw[e] = {}
=============================================================================
