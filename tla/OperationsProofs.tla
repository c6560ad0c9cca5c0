-------------------------- MODULE OperationsProofs --------------------------
(***************************************************************************)
(* Theorems about what runs beside the decisions: SchedulerTick for every  *)
(* set of assets, every cooldown, number of confirming ticks and faults,   *)
(* FillLedger for every set of orders and readers, MonitorAlerts for every *)
(* suite of checks and every window.                                       *)
(***************************************************************************)
EXTENDS SchedulerTick, FillLedger, MonitorAlerts, SumTheorems, SequenceTheorems

-----------------------------------------------------------------------------
(* SchedulerTick.                                                          *)

\* A count is the bot's memory of the reply before: it stands only for assets
\* that reply named.
CountsNamed == \A a \in Asset : confirm[a] > 0 => a \in named

\* What waits to be adopted was named twice and is small, or is no phantom; and
\* nothing waits outside of the healing.
TodoConfirmed ==
  IF step = "heal" THEN \A a \in todo : a \in named => a \in namedBefore \ large
  ELSE todo = {}

TickInv ==
  /\ TickTypeOK
  /\ CountsNamed
  /\ TodoConfirmed

LEMMA PhaseNames == Phases = {"orders", "entries", "exits", "reports"}
  BY Zenon DEF Phases, Following

LEMMA TickInvInit == TickInit => TickInv
<1> SUFFICES ASSUME TickInit PROVE TickInv
  OBVIOUS
<1>1. TickTypeOK
  <2>1. drift \in [Asset -> Drift] /\ reason \in [Asset -> Drift]
    BY DEF TickInit, NoDrift, Drift
  <2>2. confirm \in [Asset -> 0..ConfirmTicks]
    BY TickAssumption DEF TickInit, NoCount
  <2>3. restartAge \in -1..Cooldown /\ faults \in 0..MaxFaults
    BY TickAssumption DEF TickInit, Never
  <2> QED BY <2>1, <2>2, <2>3 DEF TickInit, TickTypeOK
<1>2. CountsNamed /\ TodoConfirmed
  BY DEF TickInit, CountsNamed, TodoConfirmed, NoCount
<1> QED BY <1>1, <1>2 DEF TickInv

LEMMA NothingCounted ==
  /\ NoCount \in [Asset -> 0..ConfirmTicks]
  /\ \A a \in Asset : ~(NoCount[a] > 0)
  BY TickAssumption DEF NoCount

LEMMA FaultCounts ==
  ASSUME faults \in 0..MaxFaults, Fault
  PROVE  faults' \in 0..MaxFaults
  BY TickAssumption DEF Fault

\* The engine, the clock and a new start of the bot touch no tick, or end it.
LEMMA OutsideKeepsTickInv ==
  ASSUME TickInv,
         \/ \E a \in Asset, kind \in Drift : DriftChanges(a, kind)
         \/ EngineReconciles \/ EngineWedges \/ EngineComesBack \/ RestartDoesNotTake
         \/ TimeGoesOn \/ BotStarts
  PROVE  TickInv'
<1> USE TickAssumption, PhaseNames
    DEF TickInv, TickTypeOK, CountsNamed, TodoConfirmed, Drift, Never,
        engineVars, memoryVars, tickVars, namedVars
<1>1. ASSUME NEW a \in Asset, NEW kind \in Drift, DriftChanges(a, kind) PROVE TickInv'
  BY <1>1 DEF DriftChanges
<1>2. CASE EngineReconciles
  BY <1>2 DEF EngineReconciles, NoDrift
<1>3. CASE EngineWedges
  BY <1>3 DEF EngineWedges
<1>4. CASE EngineComesBack
  BY <1>4 DEF EngineComesBack
<1>5. CASE RestartDoesNotTake
  BY <1>5, FaultCounts DEF RestartDoesNotTake
<1>6. CASE TimeGoesOn
  BY <1>6 DEF TimeGoesOn
<1>7. CASE BotStarts
  <2>1. /\ confirm' = NoCount /\ step' = "idle" /\ todo' = {} /\ named' = {} /\ namedBefore' = {}
        /\ UNCHANGED <<answers, asked, drift, halted, reason, large>>
        /\ alertSent' = FALSE /\ blocked' = TRUE /\ seenHalt' = FALSE /\ sawShort' = FALSE
    BY <1>7 DEF BotStarts, Forgotten
  <2>2. restartAge' \in -1..Cooldown /\ faults' \in 0..MaxFaults
    BY <1>7, FaultCounts DEF BotStarts
  <2> QED BY <2>1, <2>2, NothingCounted
<1> QED BY <1>1, <1>2, <1>3, <1>4, <1>5, <1>6, <1>7

\* A halted reply confirms by one what it names again, and heals what is full.
LEMMA HaltedKeepsTickInv ==
  ASSUME ConfirmTicks > 1,
         TickInv,
         NEW priced \in BOOLEAN,
         HealthHalted(priced)
  PROVE  TickInv'
<1> USE TickAssumption, PhaseNames DEF TickInv
<1>1. /\ Phantoms \subseteq Asset
      /\ BrokerOnly \subseteq Asset
      /\ BrokerOnly \cap Phantoms = {}
  BY DEF Phantoms, BrokerOnly, TickTypeOK
<1>2. Confirmed \in [Asset -> 0..ConfirmTicks]
  BY DEF Confirmed, NextCount, TickTypeOK
<1>3. TickTypeOK'
  BY <1>1, <1>2, FaultCounts DEF HealthHalted, Healable, TickTypeOK, engineVars
<1>4. CountsNamed'
  BY <1>2 DEF HealthHalted, CountsNamed, Confirmed, TickTypeOK
<1>5. ASSUME NEW a \in Phantoms \ BlockedPhantoms(priced) PROVE a \in named \ large
  BY <1>1, <1>5 DEF BlockedPhantoms, Confirmed, NextCount, CountsNamed, TickTypeOK
<1>6. TodoConfirmed'
  BY <1>1, <1>5 DEF HealthHalted, Healable, TodoConfirmed, engineVars
<1> QED BY <1>3, <1>4, <1>6

\* The other steps of a tick.
LEMMA StepKeepsTickInv ==
  ASSUME TickInv,
         \/ StartHealth \/ PingFails \/ PingAnswers
         \/ HealthUnknown \/ HealthClear
         \/ (\E a \in Asset : Adopt(a)) \/ ClearHalt \/ HealFails
         \/ Safety \/ NextPhase \/ EndTick
  PROVE  TickInv'
<1> USE TickAssumption, PhaseNames
    DEF TickInv, TickTypeOK, CountsNamed, TodoConfirmed, Drift, Never,
        engineVars, memoryVars, tickVars, namedVars
<1>1. CASE StartHealth
  BY <1>1 DEF StartHealth
<1>2. CASE PingFails
  <2>1. seenHalt' \in BOOLEAN /\ asked' \in BOOLEAN
    BY <1>2, Zenon DEF PingFails
  <2>2. restartAge' \in -1..Cooldown
    BY <1>2 DEF PingFails
  <2>3. /\ step' = "orders" /\ step = "ping"
        /\ UNCHANGED <<answers, drift, halted, reason, large, alertSent, confirm>>
        /\ UNCHANGED <<todo, blocked, sawShort, named, namedBefore, faults>>
    BY <1>2 DEF PingFails
  <2> QED BY <2>1, <2>2, <2>3
<1>3. CASE PingAnswers
  BY <1>3 DEF PingAnswers
<1>4. CASE HealthUnknown
  BY <1>4, FaultCounts DEF HealthUnknown
<1>5. CASE HealthClear
  BY <1>5, NothingCounted DEF HealthClear
<1>6. ASSUME NEW a \in Asset, Adopt(a) PROVE TickInv'
  BY <1>6 DEF Adopt
<1>7. CASE ClearHalt
  BY <1>7, NothingCounted DEF ClearHalt
<1>8. CASE HealFails
  BY <1>8, FaultCounts DEF HealFails
<1>9. CASE Safety
  BY <1>9 DEF Safety
<1>10. CASE NextPhase
  BY <1>10 DEF NextPhase, Following
<1>11. CASE EndTick
  BY <1>11 DEF EndTick, Forgotten, Following
<1> QED BY <1>1, <1>2, <1>3, <1>4, <1>5, <1>6, <1>7, <1>8, <1>9, <1>10, <1>11

LEMMA NextKeepsTickInv ==
  ASSUME ConfirmTicks > 1,
         TickInv,
         [TickNext]_schedVars
  PROVE  TickInv'
<1>1. CASE UNCHANGED schedVars
  BY <1>1 DEF schedVars, engineVars, memoryVars, tickVars, namedVars, TickInv, TickTypeOK,
    CountsNamed, TodoConfirmed
<1>2. CASE TickNext
  BY <1>2, OutsideKeepsTickInv, HaltedKeepsTickInv, StepKeepsTickInv DEF TickNext, TickStep
<1> QED BY <1>1, <1>2

\* While a tick heals, only an adoption takes an asset off its list.
LEMMA OnlyAdoptedLeaves ==
  ASSUME TickInv,
         [TickNext]_schedVars,
         NEW a \in Asset,
         step' = "heal", a \in todo \ todo'
  PROVE  step = "heal"
<1> SUFFICES ASSUME step # "heal" PROVE FALSE
  OBVIOUS
<1> QED BY DEF TickInv, TodoConfirmed

\* The scheduler adopts a position only the engine knows (a phantom) no sooner
\* than the second halted reply in a row that names it, and never a large one,
\* through restarts, hangs and failed requests, wherever two or more ticks are
\* asked to confirm.
THEOREM PhantomConfirmed ==
  ASSUME ConfirmTicks > 1
  PROVE  TickSpec => PhantomIsConfirmed
<1>1. TickInv /\ [TickNext]_schedVars => TickInv'
  BY NextKeepsTickInv
<1>2. TickInv /\ [TickNext]_schedVars =>
        [\A a \in Asset : (step' = "heal" /\ a \in todo \ todo' /\ a \in named)
                            => a \in namedBefore \ large]_schedVars
  BY OnlyAdoptedLeaves DEF TickInv, TodoConfirmed
<1> QED BY <1>1, <1>2, TickInvInit, PTL DEF TickSpec, PhantomIsConfirmed

-----------------------------------------------------------------------------
(* FillLedger.                                                             *)

\* The engine's quantities only grow, so whatever a reader holds in its hands
\* or the ledger has stored is one the engine is at or past.
QuantitiesPast ==
  /\ clock \in Nat
  /\ engine \in [Order -> Seen]
  /\ snap \in [Readers -> [Order -> Seen]]
  /\ kept \in [Order -> Seen]
  /\ \A o \in Order : kept[o].qty <= engine[o].qty
  /\ \A r \in Readers, o \in Order : snap[r][o].qty <= engine[o].qty

LEMMA QuantitiesPastInit == LedgerInit => QuantitiesPast
<1>1. Nothing \in Seen /\ Nothing.qty = 0
  BY DEF Nothing, Seen
<1> QED BY <1>1 DEF LedgerInit, QuantitiesPast

LEMMA Touched ==
  ASSUME NEW seen \in Seen, NEW t \in Nat
  PROVE  [seen EXCEPT !.at = t] \in Seen /\ [seen EXCEPT !.at = t].qty = seen.qty
BY DEF Seen

\* What the engine does: its quantities grow, the ledger stays.
LEMMA EngineMoves ==
  ASSUME QuantitiesPast, NEW o \in Order,
         (\E q \in 1..Quantity[o] : Fill(o, q)) \/ Touch(o)
  PROVE  /\ QuantitiesPast' /\ kept' = kept
         /\ \A p \in Order : engine[p].qty <= engine'[p].qty
<1>1. PICK seen \in Seen : engine' = [engine EXCEPT ![o] = seen] /\ engine[o].qty <= seen.qty
  <2>1. engine[o].qty \in Nat /\ engine[o].at \in Nat /\ clock + 1 \in Nat
    BY DEF QuantitiesPast, Seen
  <2>2. ASSUME NEW q \in 1..Quantity[o], Fill(o, q)
        PROVE  \E seen \in Seen : engine' = [engine EXCEPT ![o] = seen] /\ engine[o].qty <= seen.qty
    <3>1. Quantity[o] \in Nat
      BY LedgerAssumption
    <3>2. engine' = [engine EXCEPT ![o] = [qty |-> engine[o].qty + q, at |-> clock + 1]]
      BY <2>2 DEF Fill
    <3> DEFINE seen == [qty |-> engine[o].qty + q, at |-> clock + 1]
    <3>3. seen \in Seen /\ engine[o].qty <= seen.qty
      BY <2>1, <3>1 DEF Seen
    <3> HIDE DEF seen
    <3>4. engine' = [engine EXCEPT ![o] = seen]
      BY <3>2 DEF seen
    <3> QED BY <3>3, <3>4
  <2>3. ASSUME Touch(o)
        PROVE  \E seen \in Seen : engine' = [engine EXCEPT ![o] = seen] /\ engine[o].qty <= seen.qty
    <3> DEFINE seen == [engine[o] EXCEPT !.at = clock + 1]
    <3>1. seen \in Seen /\ seen.qty = engine[o].qty
      BY <2>1, Touched DEF QuantitiesPast
    <3> HIDE DEF seen
    <3>2. engine' = [engine EXCEPT ![o] = seen]
      BY <2>3 DEF Touch, seen
    <3>3. engine[o].qty <= engine[o].qty
      BY <2>1
    <3> QED BY <3>1, <3>2, <3>3
  <2> QED BY <2>2, <2>3
<1>2. clock' \in Nat /\ UNCHANGED <<kept, snap>>
  BY DEF Fill, Touch, readerVars, QuantitiesPast
<1>3. \A p \in Order : engine[p].qty \in Nat /\ engine'[p].qty \in Nat
                       /\ engine[p].qty <= engine'[p].qty
  BY <1>1 DEF QuantitiesPast, Seen
<1>4. /\ \A p \in Order : kept[p].qty \in Nat
      /\ \A r \in Readers, p \in Order : snap[r][p].qty \in Nat
  BY DEF QuantitiesPast, Seen
<1>5. engine' \in [Order -> Seen]
  BY <1>1 DEF QuantitiesPast
<1>6. \A p \in Order : kept[p].qty <= engine'[p].qty
  BY <1>3, <1>4 DEF QuantitiesPast
<1>7. \A r \in Readers, p \in Order : snap[r][p].qty <= engine'[p].qty
  BY <1>3, <1>4 DEF QuantitiesPast
<1> QED BY <1>2, <1>3, <1>5, <1>6, <1>7 DEF QuantitiesPast

\* What a reader does to the ledger: each stored quantity grows to one of the
\* reply, or stays.
LEMMA UpsertMoves ==
  ASSUME QuantitiesPast, NEW r \in Readers, NEW S \in SUBSET Order, kept' = Upserted(r, S)
  PROVE  /\ kept' \in [Order -> Seen]
         /\ \A o \in Order : kept[o].qty <= kept'[o].qty /\ kept'[o].qty <= engine[o].qty
<1>1. \A o \in Order : kept'[o] \in {kept[o], snap[r][o]}
  BY DEF Upserted, Upsert
<1>2. \A o \in Order : kept'[o] \in Seen
  BY <1>1 DEF QuantitiesPast
<1>3. kept' \in [Order -> Seen]
  BY <1>2 DEF Upserted
<1>4. ASSUME NEW o \in Order
      PROVE  kept[o].qty <= kept'[o].qty /\ kept'[o].qty <= engine[o].qty
  <2>1. kept[o].qty \in Nat /\ snap[r][o].qty \in Nat
    BY DEF QuantitiesPast, Seen
  <2>2. kept'[o] = kept[o] \/ (kept'[o] = snap[r][o] /\ ~(kept[o].qty > snap[r][o].qty))
    BY DEF Upserted, Upsert, Stale
  <2> QED BY <2>1, <2>2 DEF QuantitiesPast
<1> QED BY <1>3, <1>4

LEMMA ReaderMoves ==
  ASSUME QuantitiesPast,
         \/ ReconcileFills \/ Recompute \/ UNCHANGED ledgerVars
         \/ \E r \in Readers, page \in SUBSET Order : FetchOrders(r, page)
         \/ \E r \in Archivers : Archive(r)
  PROVE  /\ QuantitiesPast' /\ engine' = engine
         /\ \A o \in Order : kept[o].qty <= kept'[o].qty /\ kept'[o].qty <= engine[o].qty
<1>1. \A o \in Order : kept[o].qty <= kept[o].qty /\ kept[o].qty <= engine[o].qty
  BY DEF QuantitiesPast, Seen
<1>2. Nothing \in Seen /\ Nothing.qty = 0
  BY DEF Nothing, Seen
<1>3. ASSUME NEW r \in Readers, NEW S \in SUBSET Order, kept' = Upserted(r, S), Forget(r),
             UNCHANGED <<clock, engine>>
      PROVE  /\ QuantitiesPast' /\ engine' = engine
             /\ \A o \in Order : kept[o].qty <= kept'[o].qty /\ kept'[o].qty <= engine[o].qty
  <2>1. /\ kept' \in [Order -> Seen]
        /\ \A o \in Order : kept[o].qty <= kept'[o].qty /\ kept'[o].qty <= engine[o].qty
    BY <1>3, UpsertMoves
  <2>2. snap' = [snap EXCEPT ![r] = [o \in Order |-> Nothing]]
    BY <1>3 DEF Forget
  <2>3. snap' \in [Readers -> [Order -> Seen]]
    BY <1>2, <2>2 DEF QuantitiesPast
  <2>4. ASSUME NEW q \in Readers, NEW o \in Order PROVE snap'[q][o].qty <= engine[o].qty
    <3>1. CASE q = r
      <4>1. snap'[q][o].qty = 0
        BY <1>2, <2>2, <3>1 DEF QuantitiesPast
      <4>2. engine[o].qty \in Nat
        BY DEF QuantitiesPast, Seen
      <4> QED BY <4>1, <4>2
    <3>2. CASE q # r
      BY <2>2, <3>2 DEF QuantitiesPast
    <3> QED BY <3>1, <3>2
  <2> QED BY <1>3, <2>1, <2>3, <2>4 DEF QuantitiesPast
<1>4. CASE ReconcileFills
  <2>1. PICK S : S = {o \in Tracked : ~FellBack(o)}
    OBVIOUS
  <2>2. /\ kept' = Upserted(Reconciler, S) /\ Forget(Reconciler)
        /\ UNCHANGED <<clock, engine>>
    BY <1>4, <2>1 DEF ReconcileFills
  <2>3. Upserted(Reconciler, S) = Upserted(Reconciler, S \cap Order)
    BY DEF Upserted
  <2>4. Reconciler \in Readers /\ S \cap Order \in SUBSET Order
    BY DEF Readers
  <2> QED BY <1>3, <2>2, <2>3, <2>4
<1>5. ASSUME NEW r \in Archivers, Archive(r)
      PROVE  /\ QuantitiesPast' /\ engine' = engine
             /\ \A o \in Order : kept[o].qty <= kept'[o].qty /\ kept'[o].qty <= engine[o].qty
  <2>1. PICK S : S = {o \in reply[r] : HasFill(r, o) /\ KnownDecision(r, o)}
    OBVIOUS
  <2>2. kept' = Upserted(r, S) /\ Forget(r) /\ UNCHANGED <<clock, engine>>
    BY <1>5, <2>1 DEF Archive
  <2>3. Upserted(r, S) = Upserted(r, S \cap Order)
    BY DEF Upserted
  <2>4. r \in Readers /\ S \cap Order \in SUBSET Order
    BY DEF Readers
  <2> QED BY <1>3, <2>2, <2>3, <2>4
<1>6. ASSUME NEW r \in Readers, NEW page \in SUBSET Order, FetchOrders(r, page)
      PROVE  QuantitiesPast' /\ UNCHANGED <<engine, kept>>
  <2>1. /\ UNCHANGED <<clock, engine, kept>>
        /\ snap' = [snap EXCEPT ![r] = engine]
    BY <1>6 DEF FetchOrders
  <2>2. \A o \in Order : engine[o].qty <= engine[o].qty
    BY DEF QuantitiesPast, Seen
  <2> QED BY <2>1, <2>2 DEF QuantitiesPast
<1>7. CASE Recompute \/ UNCHANGED ledgerVars
  BY <1>1, <1>7 DEF Recompute, ledgerVars, readerVars, QuantitiesPast
<1> QED BY <1>1, <1>4, <1>5, <1>6, <1>7

\* The ledger implements the fill record, whatever pages the readers get, and
\* however late, often and out of order their snapshots are written.
THEOREM LedgerKeepsPromise == LedgerSpec => LedgerPromise
<1>1. LedgerInit => Record!Init
  BY DEF LedgerInit, Record!Init, EngineQty, KeptQty, Nothing
<1>2. QuantitiesPast /\ [LedgerNext]_ledgerVars => QuantitiesPast'
  <2> SUFFICES ASSUME QuantitiesPast, [LedgerNext]_ledgerVars PROVE QuantitiesPast'
    OBVIOUS
  <2> QED BY EngineMoves, ReaderMoves DEF LedgerNext
<1>3. QuantitiesPast /\ [LedgerNext]_ledgerVars
        => [Record!Execute \/ Record!Observe]_<<EngineQty, KeptQty>>
  <2> SUFFICES ASSUME QuantitiesPast, [LedgerNext]_ledgerVars
               PROVE  Record!Execute \/ Record!Observe
    OBVIOUS
  <2>1. \A o \in Order : EngineQty[o] = engine[o].qty /\ KeptQty[o] = kept[o].qty
    BY DEF EngineQty, KeptQty
  <2>2. \A o \in Order : EngineQty'[o] = engine'[o].qty /\ KeptQty'[o] = kept'[o].qty
    BY DEF EngineQty, KeptQty
  <2>3. QuantitiesPast'
    BY <1>2
  <2>4. EngineQty' \in [Order -> Nat] /\ KeptQty' \in [Order -> Nat]
    BY <2>3 DEF EngineQty, KeptQty, QuantitiesPast, Seen
  <2>5. ASSUME kept' = kept, \A p \in Order : engine[p].qty <= engine'[p].qty
        PROVE  Record!Execute
    BY <2>1, <2>2, <2>4, <2>5 DEF Record!Execute, KeptQty
  <2>6. ASSUME engine' = engine,
               \A o \in Order : kept[o].qty <= kept'[o].qty /\ kept'[o].qty <= engine[o].qty
        PROVE  Record!Observe
    BY <2>1, <2>2, <2>4, <2>6 DEF Record!Observe, EngineQty
  <2> QED BY <2>5, <2>6, EngineMoves, ReaderMoves DEF LedgerNext
<1> QED BY <1>1, <1>2, <1>3, QuantitiesPastInit, PTL DEF LedgerSpec, LedgerPromise, Record!Spec

-----------------------------------------------------------------------------
(* FillLedger: the lots are a queue of units.                              *)

\* The first n lists, put together one after the other.
IsFlatten(ss, n, flat) ==
  flat = [i \in 1..n |-> IF i = 1 THEN ss[i] ELSE flat[i - 1] \o ss[i]]

\* They exist for every number of lists.
LEMMA FlattenExists ==
  ASSUME NEW ss, NEW n \in Nat
  PROVE  \E flat : IsFlatten(ss, n, flat)
<1> DEFINE T == {k \in Nat : ~ \E flat : IsFlatten(ss, k, flat)}
<1>1. ASSUME T # {} PROVE FALSE
  <2>1. PICK k \in T : \A m \in T : k <= m
    <3>1. T \in SUBSET Nat
      OBVIOUS
    <3> HIDE DEF T
    <3> QED BY <1>1, <3>1, SmallestNat
  <2>2. k # 0
    <3>1. IsFlatten(ss, 0, [i \in 1..0 |-> ss])
      BY DEF IsFlatten
    <3> QED BY <2>1, <3>1
  <2>3. PICK c : IsFlatten(ss, k - 1, c)
    <3>1. k - 1 \in Nat /\ k - 1 \notin T
      BY <2>1, <2>2
    <3> QED BY <3>1
  <2> DEFINE d == [i \in 1..k |-> IF i = k /\ k # 1 THEN c[k - 1] \o ss[k]
                                  ELSE IF i = 1 THEN ss[1] ELSE c[i]]
  <2>4. ASSUME NEW i \in 1..k
        PROVE  d[i] = IF i = 1 THEN ss[i] ELSE d[i - 1] \o ss[i]
    <3>1. CASE i = 1
      BY <3>1
    <3>2. CASE i # 1
      <4>1. i - 1 \in 1..k - 1 /\ i - 1 # k
        BY <2>1, <3>2
      <4>2. d[i - 1] = c[i - 1]
        BY <2>3, <4>1 DEF IsFlatten
      <4>3. CASE i = k
        BY <3>2, <4>2, <4>3
      <4>4. CASE i # k
        <5>1. i \in 1..k - 1
          BY <2>1, <4>4
        <5>2. c[i] = c[i - 1] \o ss[i]
          BY <2>3, <3>2, <5>1 DEF IsFlatten
        <5> QED BY <3>2, <4>2, <4>4, <5>2
      <4> QED BY <4>3, <4>4
    <3> QED BY <3>1, <3>2
  <2>5. d = [i \in 1..k |-> d[i]]
    OBVIOUS
  <2> HIDE DEF d
  <2>6. IsFlatten(ss, k, d)
    BY <2>4, <2>5 DEF IsFlatten
  <2> QED BY <2>1, <2>6
<1> QED BY <1>1

\* Two lists that begin alike are flattened alike.
LEMMA FlattenAgrees ==
  ASSUME NEW ss, NEW k \in Nat, k # 0, NEW f, IsFlatten(ss, k, f),
         NEW tt, NEW g, IsFlatten(tt, k + 1, g), \A i \in 1..k : ss[i] = tt[i]
  PROVE  f[k] = g[k]
<1> DEFINE T == {i \in 1..k : f[i] # g[i]}
<1>1. ASSUME T # {} PROVE FALSE
  <2>1. PICK i \in T : \A j \in T : i <= j
    <3>1. T \in SUBSET Nat
      OBVIOUS
    <3> HIDE DEF T
    <3> QED BY <1>1, <3>1, SmallestNat
  <2>2. i \in 1..k /\ i \in 1..k + 1
    OBVIOUS
  <2>3. i # 1
    BY <2>1, <2>2 DEF IsFlatten
  <2>4. i - 1 \in 1..k /\ i - 1 \notin T
    BY <2>1, <2>2, <2>3
  <2>5. f[i] = f[i - 1] \o ss[i] /\ g[i] = g[i - 1] \o tt[i]
    BY <2>2, <2>3 DEF IsFlatten
  <2> QED BY <2>1, <2>2, <2>4, <2>5
<1> QED BY <1>1

\* FlattenSeq of the community modules is the last of these.
LEMMA FlattenIs ==
  ASSUME NEW S, NEW ss \in Seq(Seq(S))
  PROVE  /\ ss = <<>> => FlattenSeq(ss) = <<>>
         /\ ss # <<>> => \E f : IsFlatten(ss, Len(ss), f) /\ FlattenSeq(ss) = f[Len(ss)]
<1>1. Len(ss) \in Nat /\ (Len(ss) = 0 <=> ss = <<>>)
  OBVIOUS
<1>2. PICK f : f = CHOOSE flat : IsFlatten(ss, Len(ss), flat)
  OBVIOUS
<1>3. IsFlatten(ss, Len(ss), f)
  BY <1>1, <1>2, FlattenExists
<1>4. PICK n : n = Len(ss)
  OBVIOUS
<1>5. n # 0 => FlattenSeq(ss) = f[n]
  BY <1>2, <1>4, Zenon DEF FlattenSeq, IsFlatten
<1>6. n = 0 => FlattenSeq(ss) = ss
  BY <1>4, Zenon DEF FlattenSeq
<1> QED BY <1>1, <1>3, <1>4, <1>5, <1>6

\* A list more goes to the end.
LEMMA FlattenAppend ==
  ASSUME NEW S, NEW ss \in Seq(Seq(S)), NEW s \in Seq(S)
  PROVE  FlattenSeq(Append(ss, s)) = FlattenSeq(ss) \o s
<1>1. PICK tt \in Seq(Seq(S)) : tt = Append(ss, s)
  BY AppendProperties
<1>2. PICK n \in Nat : n = Len(ss)
  OBVIOUS
<1>3. /\ tt # <<>> /\ Len(tt) = n + 1 /\ tt[n + 1] = s
      /\ \A i \in 1..n : ss[i] = tt[i]
  BY <1>1, <1>2, AppendProperties
<1>4. PICK g : IsFlatten(tt, n + 1, g) /\ FlattenSeq(tt) = g[n + 1]
  <2>1. \E g : IsFlatten(tt, Len(tt), g) /\ FlattenSeq(tt) = g[Len(tt)]
    BY <1>3, FlattenIs
  <2> QED BY <1>3, <2>1
<1>5. CASE n = 0
  <2>1. 1 \in 1..n + 1 /\ n + 1 = 1
    BY <1>5
  <2>2. g[1] = s
    BY <1>3, <1>4, <2>1 DEF IsFlatten
  <2>3. ss = <<>> /\ FlattenSeq(ss) = <<>>
    <3>1. ss = <<>>
      BY <1>2, <1>5, EmptySeq
    <3> QED BY <3>1, FlattenIs
  <2>4. <<>> \o s = s
    BY ConcatEmptySeq
  <2> QED BY <1>1, <1>4, <2>1, <2>2, <2>3, <2>4
<1>6. CASE n # 0
  <2>1. PICK f : IsFlatten(ss, n, f) /\ FlattenSeq(ss) = f[n]
    BY <1>2, <1>6, FlattenIs
  <2>2. n \in 1..n /\ n + 1 \in Nat
    BY <1>6
  <2>3. f[n] = g[n]
    BY <1>3, <1>4, <1>6, <2>1, FlattenAgrees
  <2>4. g[n + 1] = g[n] \o s
    <3>1. n + 1 \in 1..n + 1 /\ n + 1 # 1 /\ (n + 1) - 1 = n
      BY <1>6
    <3> QED BY <1>3, <1>4, <3>1 DEF IsFlatten
  <2> QED BY <1>1, <1>4, <2>1, <2>3, <2>4
<1> QED BY <1>5, <1>6

LEMMA LastAway ==
  ASSUME NEW S, NEW ss \in Seq(S), ss # <<>>
  PROVE  \E tt \in Seq(S), e \in S : ss = Append(tt, e) /\ Len(tt) = Len(ss) - 1
<1>1. PICK tt \in Seq(S), e \in S : ss = Append(tt, e)
  BY SequenceEmptyOrAppend
<1>2. Len(Append(tt, e)) = Len(tt) + 1 /\ Len(tt) \in Nat
  BY AppendProperties
<1>3. Len(tt) = Len(ss) - 1
  BY <1>1, <1>2
<1> QED BY <1>1, <1>3

LEMMA FlattenSeqType ==
  ASSUME NEW S, NEW ss \in Seq(Seq(S))
  PROVE  FlattenSeq(ss) \in Seq(S)
<1> DEFINE T == {n \in Nat : \E tt \in Seq(Seq(S)) : Len(tt) = n /\ FlattenSeq(tt) \notin Seq(S)}
<1>1. ASSUME T # {} PROVE FALSE
  <2>1. PICK n \in T : \A m \in T : n <= m
    <3>1. T \in SUBSET Nat
      OBVIOUS
    <3> HIDE DEF T
    <3> QED BY <1>1, <3>1, SmallestNat
  <2>2. PICK tt \in Seq(Seq(S)) : Len(tt) = n /\ FlattenSeq(tt) \notin Seq(S)
    BY <2>1
  <2>3. tt # <<>>
    BY <2>2, FlattenIs
  <2>4. PICK uu \in Seq(Seq(S)), e \in Seq(S) : tt = Append(uu, e) /\ Len(uu) = Len(tt) - 1
    BY <2>3, LastAway
  <2>5. FlattenSeq(uu) \in Seq(S)
    BY <2>1, <2>2, <2>4
  <2> HIDE DEF T
  <2>6. FlattenSeq(tt) = FlattenSeq(uu) \o e
    BY <2>4, FlattenAppend
  <2>7. FlattenSeq(uu) \o e \in Seq(S)
    BY <2>5, ConcatProperties
  <2> QED BY <2>2, <2>6, <2>7
<1>2. Len(ss) \in Nat
  OBVIOUS
<1> QED BY <1>1, <1>2

\* A list in front comes first.
LEMMA FlattenFrom ==
  ASSUME NEW S, NEW s \in Seq(S), NEW ss \in Seq(Seq(S))
  PROVE  FlattenSeq(<<s>> \o ss) = s \o FlattenSeq(ss)
<1> DEFINE T == {n \in Nat : \E tt \in Seq(Seq(S)) :
                   Len(tt) = n /\ FlattenSeq(<<s>> \o tt) # s \o FlattenSeq(tt)}
<1>1. ASSUME T # {} PROVE FALSE
  <2>1. PICK n \in T : \A m \in T : n <= m
    <3>1. T \in SUBSET Nat
      OBVIOUS
    <3> HIDE DEF T
    <3> QED BY <1>1, <3>1, SmallestNat
  <2>2. PICK tt \in Seq(Seq(S)) : Len(tt) = n /\ FlattenSeq(<<s>> \o tt) # s \o FlattenSeq(tt)
    BY <2>1
  <2>3. tt # <<>>
    <3>1. ASSUME tt = <<>> PROVE FALSE
      <4>1. <<s>> \o tt = Append(<<>>, s)
        BY <3>1
      <4>2. <<>> \in Seq(Seq(S)) /\ FlattenSeq(<<>>) = <<>>
        BY <3>1, FlattenIs
      <4>3. PICK none \in Seq(Seq(S)) : none = <<>>
        BY <4>2
      <4>4. FlattenSeq(Append(none, s)) = FlattenSeq(none) \o s
        BY FlattenAppend
      <4>5. FlattenSeq(<<s>> \o tt) = <<>> \o s
        BY <4>1, <4>2, <4>3, <4>4
      <4>6. <<>> \o s = s /\ s \o <<>> = s
        BY ConcatEmptySeq
      <4> QED BY <2>2, <3>1, <4>2, <4>5, <4>6
    <3> QED BY <3>1
  <2>4. PICK uu \in Seq(Seq(S)), e \in Seq(S) : tt = Append(uu, e) /\ Len(uu) = Len(tt) - 1
    BY <2>3, LastAway
  <2>5. FlattenSeq(<<s>> \o uu) = s \o FlattenSeq(uu)
    <3>1. Len(uu) \in Nat /\ Len(uu) < n
      BY <2>2, <2>4
    <3>2. n \in Nat
      OBVIOUS
    <3>3. Len(uu) \notin T
      <4> HIDE DEF T
      <4> QED BY <2>1, <3>1, <3>2
    <3> QED BY <3>1, <3>3
  <2> HIDE DEF T
  <2>6. <<s>> \o uu \in Seq(Seq(S)) /\ <<s>> \o tt = Append(<<s>> \o uu, e)
    BY <2>4
  <2>7. FlattenSeq(<<s>> \o tt) = (s \o FlattenSeq(uu)) \o e
    BY <2>5, <2>6, FlattenAppend
  <2>8. FlattenSeq(tt) = FlattenSeq(uu) \o e /\ FlattenSeq(uu) \in Seq(S)
    BY <2>4, FlattenAppend, FlattenSeqType
  <2>9. (s \o FlattenSeq(uu)) \o e = s \o (FlattenSeq(uu) \o e)
    BY <2>8, ConcatAssociative
  <2> QED BY <2>2, <2>7, <2>8, <2>9
<1>2. Len(ss) \in Nat
  OBVIOUS
<1> QED BY <1>1, <1>2

\* The rows of trader_fills and of trader_realized_pnl.
FillRow == [order : Order, qty : Nat, at : Nat]
Lot == [buy : Order, sell : Order, qty : Nat]

\* the units of the open lots, oldest first
UnitsOf(open) == FlattenSeq([i \in DOMAIN open |-> Units(open[i])])

\* A function on 1..n is a sequence of length n.
LEMMA Listed ==
  ASSUME NEW S, NEW n \in Nat, NEW m \in [1..n -> S]
  PROVE  m \in Seq(S) /\ Len(m) = n
OBVIOUS

\* An element before a sequence.
LEMMA OneBefore ==
  ASSUME NEW S, NEW e \in S, NEW s \in Seq(S)
  PROVE  /\ <<e>> \o s \in Seq(S) /\ Len(<<e>> \o s) = Len(s) + 1 /\ (<<e>> \o s)[1] = e
         /\ \A i \in 1..Len(s) + 1 : i # 1 => (<<e>> \o s)[i] = s[i - 1]
<1>1. <<e>> \in Seq(S) /\ Len(<<e>>) = 1 /\ <<e>>[1] = e
  OBVIOUS
<1>2. Len(s) \in Nat
  OBVIOUS
<1> QED BY <1>1, <1>2, ConcatProperties

LEMMA UnitsType ==
  ASSUME NEW f \in FillRow
  PROVE  Units(f) \in Seq(Order) /\ Len(Units(f)) = f.qty
<1>1. Units(f) \in [1..f.qty -> Order] /\ f.qty \in Nat
  BY DEF Units, FillRow
<1> QED BY <1>1, Listed

LEMMA PairsType ==
  ASSUME NEW l \in Lot
  PROVE  Pairs(l) \in Seq(Order \X Order) /\ Len(Pairs(l)) = l.qty
<1>1. Pairs(l) \in [1..l.qty -> Order \X Order] /\ l.qty \in Nat
  BY DEF Pairs, Lot
<1> QED BY <1>1, Listed

\* the lists of units, one for each open lot
EachUnits(open) == [i \in DOMAIN open |-> Units(open[i])]
EachPairs(lots) == [i \in DOMAIN lots |-> Pairs(lots[i])]

LEMMA EachUnitsType ==
  ASSUME NEW open \in Seq(FillRow)
  PROVE  EachUnits(open) \in Seq(Seq(Order)) /\ Len(EachUnits(open)) = Len(open)
<1>1. PICK n \in Nat : n = Len(open) /\ DOMAIN open = 1..n
  BY LenProperties
<1>2. ASSUME NEW i \in 1..n PROVE Units(open[i]) \in Seq(Order)
  BY <1>1, ElementOfSeq, UnitsType
<1>3. EachUnits(open) \in [1..n -> Seq(Order)]
  BY <1>1, <1>2 DEF EachUnits
<1> QED BY <1>1, <1>3, Listed

LEMMA EachPairsType ==
  ASSUME NEW lots \in Seq(Lot)
  PROVE  EachPairs(lots) \in Seq(Seq(Order \X Order)) /\ Len(EachPairs(lots)) = Len(lots)
<1>1. PICK n \in Nat : n = Len(lots) /\ DOMAIN lots = 1..n
  BY LenProperties
<1>2. ASSUME NEW i \in 1..n PROVE Pairs(lots[i]) \in Seq(Order \X Order)
  BY <1>1, ElementOfSeq, PairsType
<1>3. EachPairs(lots) \in [1..n -> Seq(Order \X Order)]
  BY <1>1, <1>2 DEF EachPairs
<1> QED BY <1>1, <1>3, Listed

\* A new lot goes to the end of the queue of units.
LEMMA UnitsAppend ==
  ASSUME NEW open \in Seq(FillRow), NEW f \in FillRow
  PROVE  UnitsOf(Append(open, f)) = UnitsOf(open) \o Units(f)
<1>1. PICK n \in Nat : n = Len(open) /\ DOMAIN open = 1..n
  BY LenProperties
<1>2. PICK more \in Seq(FillRow) : more = Append(open, f)
  BY AppendProperties
<1>3. /\ Len(more) = n + 1 /\ DOMAIN more = 1..n + 1
      /\ more[n + 1] = f /\ \A i \in 1..n : more[i] = open[i]
  BY <1>1, <1>2, AppendProperties, LenProperties
<1>4. PICK a \in Seq(Seq(Order)) : a = EachUnits(open) /\ Len(a) = n
  BY <1>1, EachUnitsType
<1>5. PICK b \in Seq(Seq(Order)) : b = EachUnits(more) /\ Len(b) = n + 1
  BY <1>3, EachUnitsType
<1>6. PICK u \in Seq(Order) : u = Units(f)
  BY UnitsType
<1>7. PICK c \in Seq(Seq(Order)) : c = Append(a, u)
  BY AppendProperties
<1>8. Len(c) = n + 1 /\ c[n + 1] = u /\ \A i \in 1..n : c[i] = a[i]
  BY <1>4, <1>7, AppendProperties
<1>9. ASSUME NEW i \in 1..n + 1 PROVE b[i] = c[i]
  <2>1. b[i] = Units(more[i])
    BY <1>3, <1>5 DEF EachUnits
  <2>2. i \in 1..n => a[i] = Units(open[i])
    BY <1>1, <1>4 DEF EachUnits
  <2>3. i \in 1..n \/ i = n + 1
    BY <1>9
  <2> QED BY <1>3, <1>6, <1>8, <2>1, <2>2, <2>3
<1>10. b = c
  BY <1>5, <1>8, <1>9, SeqEqual
<1>11. FlattenSeq(c) = FlattenSeq(a) \o u
  BY <1>7, FlattenAppend
<1> QED BY <1>2, <1>4, <1>5, <1>6, <1>10, <1>11 DEF UnitsOf, EachUnits

\* A lot matched last is realized last.
LEMMA PairsAppend ==
  ASSUME NEW lots \in Seq(Lot), NEW l \in Lot
  PROVE  AllPairs(Append(lots, l)) = AllPairs(lots) \o Pairs(l)
<1>1. PICK n \in Nat : n = Len(lots) /\ DOMAIN lots = 1..n
  BY LenProperties
<1>2. PICK more \in Seq(Lot) : more = Append(lots, l)
  BY AppendProperties
<1>3. /\ Len(more) = n + 1 /\ DOMAIN more = 1..n + 1
      /\ more[n + 1] = l /\ \A i \in 1..n : more[i] = lots[i]
  BY <1>1, <1>2, AppendProperties, LenProperties
<1>4. PICK a \in Seq(Seq(Order \X Order)) : a = EachPairs(lots) /\ Len(a) = n
  BY <1>1, EachPairsType
<1>5. PICK b \in Seq(Seq(Order \X Order)) : b = EachPairs(more) /\ Len(b) = n + 1
  BY <1>3, EachPairsType
<1>6. PICK u \in Seq(Order \X Order) : u = Pairs(l)
  BY PairsType
<1>7. PICK c \in Seq(Seq(Order \X Order)) : c = Append(a, u)
  BY AppendProperties
<1>8. Len(c) = n + 1 /\ c[n + 1] = u /\ \A i \in 1..n : c[i] = a[i]
  BY <1>4, <1>7, AppendProperties
<1>9. ASSUME NEW i \in 1..n + 1 PROVE b[i] = c[i]
  <2>1. b[i] = Pairs(more[i])
    BY <1>3, <1>5 DEF EachPairs
  <2>2. i \in 1..n => a[i] = Pairs(lots[i])
    BY <1>1, <1>4 DEF EachPairs
  <2>3. i \in 1..n \/ i = n + 1
    BY <1>9
  <2> QED BY <1>3, <1>6, <1>8, <2>1, <2>2, <2>3
<1>10. b = c
  BY <1>5, <1>8, <1>9, SeqEqual
<1>11. FlattenSeq(c) = FlattenSeq(a) \o u
  BY <1>7, FlattenAppend
<1> QED BY <1>2, <1>4, <1>5, <1>6, <1>10, <1>11 DEF AllPairs, EachPairs

\* The oldest lot is the front of the queue.
LEMMA UnitsFrom ==
  ASSUME NEW open \in Seq(FillRow), NEW f \in FillRow
  PROVE  UnitsOf(<<f>> \o open) = Units(f) \o UnitsOf(open)
<1>1. PICK n \in Nat : n = Len(open) /\ DOMAIN open = 1..n
  BY LenProperties
<1>2. PICK more \in Seq(FillRow) : more = <<f>> \o open
  BY OneBefore
<1>3. /\ Len(more) = n + 1 /\ DOMAIN more = 1..n + 1
      /\ more[1] = f /\ \A i \in 1..n + 1 : i # 1 => more[i] = open[i - 1]
  BY <1>1, <1>2, OneBefore, LenProperties
<1>4. PICK a \in Seq(Seq(Order)) : a = EachUnits(open) /\ Len(a) = n
  BY <1>1, EachUnitsType
<1>5. PICK b \in Seq(Seq(Order)) : b = EachUnits(more) /\ Len(b) = n + 1
  BY <1>3, EachUnitsType
<1>6. PICK u \in Seq(Order) : u = Units(f)
  BY UnitsType
<1>7. PICK c \in Seq(Seq(Order)) : c = <<u>> \o a
  BY OneBefore
<1>8. Len(c) = n + 1 /\ c[1] = u /\ \A i \in 1..n + 1 : i # 1 => c[i] = a[i - 1]
  BY <1>4, <1>7, OneBefore
<1>9. ASSUME NEW i \in 1..n + 1 PROVE b[i] = c[i]
  <2>1. b[i] = Units(more[i])
    BY <1>3, <1>5 DEF EachUnits
  <2>2. i # 1 => i - 1 \in 1..n
    BY <1>9
  <2>3. i # 1 => a[i - 1] = Units(open[i - 1])
    BY <1>1, <1>4, <2>2 DEF EachUnits
  <2> QED BY <1>3, <1>6, <1>8, <2>1, <2>3
<1>10. b = c
  BY <1>5, <1>8, <1>9, SeqEqual
<1>11. FlattenSeq(c) = u \o FlattenSeq(a)
  BY <1>7, FlattenFrom
<1> QED BY <1>2, <1>4, <1>5, <1>6, <1>10, <1>11 DEF UnitsOf, EachUnits

LEMMA UnitsOfType == ASSUME NEW open \in Seq(FillRow) PROVE UnitsOf(open) \in Seq(Order)
  BY EachUnitsType, FlattenSeqType DEF UnitsOf, EachUnits

LEMMA AllPairsType == ASSUME NEW lots \in Seq(Lot) PROVE AllPairs(lots) \in Seq(Order \X Order)
  BY EachPairsType, FlattenSeqType DEF AllPairs, EachPairs

LEMMA NoneOpen == UnitsOf(<<>>) = <<>> /\ AllPairs(<<>>) = <<>>
<1>1. PICK open \in Seq(FillRow), lots \in Seq(Lot) : open = <<>> /\ lots = <<>>
  BY EmptySeq
<1>2. EachUnits(open) = <<>> /\ EachPairs(lots) = <<>>
  BY <1>1, EachUnitsType, EachPairsType, EmptySeq
<1>3. FlattenSeq(EachUnits(open)) = <<>> /\ FlattenSeq(EachPairs(lots)) = <<>>
  BY <1>2, EachUnitsType, EachPairsType, FlattenIs
<1> QED BY <1>1, <1>3 DEF UnitsOf, AllPairs, EachUnits, EachPairs

Sale == [open : Seq(FillRow), closed : Seq(Lot), left : Nat]

\* the units u, each sold by the order s
SoldBy(u, s) == [i \in 1..Len(u) |-> <<u[i], s>>]

LEMMA SoldType ==
  ASSUME NEW u \in Seq(Order), NEW s \in Order
  PROVE  SoldBy(u, s) \in Seq(Order \X Order) /\ Len(SoldBy(u, s)) = Len(u)
<1>1. SoldBy(u, s) \in [1..Len(u) -> Order \X Order] /\ Len(u) \in Nat
  BY DEF SoldBy
<1> QED BY <1>1, Listed

\* The elements of two sequences put together.
LEMMA Joined ==
  ASSUME NEW S, NEW s \in Seq(S), NEW t \in Seq(S),
         NEW m \in Nat, m = Len(s), NEW n \in Nat, n = Len(t)
  PROVE  /\ s \o t \in Seq(S) /\ Len(s \o t) = m + n
         /\ \A i \in 1..m + n : (s \o t)[i] = IF i <= m THEN s[i] ELSE t[i - m]
BY ConcatProperties

\* Two runs of units sold by one order.
LEMMA SoldTogether ==
  ASSUME NEW u \in Seq(Order), NEW v \in Seq(Order), NEW s \in Order
  PROVE  SoldBy(u \o v, s) = SoldBy(u, s) \o SoldBy(v, s)
<1>1. PICK m \in Nat, n \in Nat : m = Len(u) /\ n = Len(v)
  BY LenProperties
<1>2. PICK w \in Seq(Order) : w = u \o v /\ Len(w) = m + n
                              /\ \A i \in 1..m + n : w[i] = IF i <= m THEN u[i] ELSE v[i - m]
  <2>1. /\ u \o v \in Seq(Order) /\ Len(u \o v) = m + n
        /\ \A i \in 1..m + n : (u \o v)[i] = IF i <= m THEN u[i] ELSE v[i - m]
    BY <1>1, Joined
  <2> QED BY <2>1
<1>3. PICK a \in Seq(Order \X Order), b \in Seq(Order \X Order), c \in Seq(Order \X Order) :
        a = SoldBy(u, s) /\ b = SoldBy(v, s) /\ c = SoldBy(w, s)
        /\ Len(a) = m /\ Len(b) = n /\ Len(c) = m + n
  <2>1. SoldBy(u, s) \in Seq(Order \X Order) /\ Len(SoldBy(u, s)) = m
    BY <1>1, SoldType
  <2>2. SoldBy(v, s) \in Seq(Order \X Order) /\ Len(SoldBy(v, s)) = n
    BY <1>1, SoldType
  <2>3. SoldBy(w, s) \in Seq(Order \X Order) /\ Len(SoldBy(w, s)) = m + n
    BY <1>2, SoldType
  <2> QED BY <2>1, <2>2, <2>3
<1>4. PICK d \in Seq(Order \X Order) :
        d = a \o b /\ Len(d) = m + n
        /\ \A i \in 1..m + n : d[i] = IF i <= m THEN a[i] ELSE b[i - m]
  <2>1. /\ a \o b \in Seq(Order \X Order) /\ Len(a \o b) = m + n
        /\ \A i \in 1..m + n : (a \o b)[i] = IF i <= m THEN a[i] ELSE b[i - m]
    <3>1. PICK S : S = Order \X Order
      OBVIOUS
    <3>2. a \in Seq(S) /\ b \in Seq(S) /\ m = Len(a) /\ n = Len(b)
      BY <1>3, <3>1
    <3>3. /\ a \o b \in Seq(S) /\ Len(a \o b) = m + n
          /\ \A i \in 1..m + n : (a \o b)[i] = IF i <= m THEN a[i] ELSE b[i - m]
      BY <3>2, Joined
    <3> QED BY <3>1, <3>3
  <2> QED BY <2>1
<1>5. ASSUME NEW i \in 1..m + n PROVE c[i] = d[i]
  <2>1. c[i] = <<w[i], s>>
    BY <1>2, <1>3 DEF SoldBy
  <2>2. CASE i <= m
    <3>1. i \in 1..m
      BY <2>2
    <3>2. a[i] = <<u[i], s>>
      BY <1>1, <1>3, <3>1 DEF SoldBy
    <3> QED BY <1>2, <1>4, <2>1, <2>2, <3>2
  <2>3. CASE ~(i <= m)
    <3>1. i - m \in 1..n
      BY <2>3
    <3>2. b[i - m] = <<v[i - m], s>>
      BY <1>1, <1>3, <3>1 DEF SoldBy
    <3> QED BY <1>2, <1>4, <2>1, <2>3, <3>2
  <2> QED BY <2>2, <2>3
<1>6. c = d
  <2>1. \A i \in 1..Len(c) : c[i] = d[i]
    BY <1>3, <1>5
  <2> QED BY <1>3, <1>4, <2>1, SeqEqual
<1> QED BY <1>2, <1>3, <1>4, <1>6

\* A lot is the units taken from it and the units left.
Cut(f, q) == [f EXCEPT !.qty = @ - q]
FirstUnits(f, q) == [i \in 1..q |-> f.order]

LEMMA UnitsSplit ==
  ASSUME NEW f \in FillRow, NEW q \in 0..f.qty
  PROVE  /\ Cut(f, q) \in FillRow /\ Cut(f, q).qty = f.qty - q
         /\ FirstUnits(f, q) \in Seq(Order) /\ Len(FirstUnits(f, q)) = q
         /\ Units(f) = FirstUnits(f, q) \o Units(Cut(f, q))
<1> DEFINE rest == Cut(f, q)
           u == FirstUnits(f, q)
<1>1. f.qty \in Nat /\ f.order \in Order /\ q \in Nat /\ f.qty - q \in Nat
  BY DEF FillRow
<1>2. rest \in FillRow /\ rest.qty = f.qty - q /\ rest.order = f.order
  BY <1>1 DEF FillRow, Cut
<1>3. u \in Seq(Order) /\ Len(u) = q
  <2>1. u \in [1..q -> Order]
    BY <1>1 DEF FirstUnits
  <2> QED BY <1>1, <2>1, Listed
<1> HIDE DEF rest, u
<1>4. PICK a \in Seq(Order), b \in Seq(Order) :
        a = Units(f) /\ b = Units(rest) /\ Len(a) = f.qty /\ Len(b) = f.qty - q
  BY <1>2, UnitsType
<1>5. PICK c \in Seq(Order) : c = u \o b
  BY <1>3, ConcatProperties
<1>6. Len(c) = f.qty /\ \A i \in 1..f.qty : c[i] = IF i <= q THEN u[i] ELSE b[i - q]
  <2>1. Len(c) = Len(u) + Len(b) /\ \A i \in 1..Len(u) + Len(b) :
                                      c[i] = IF i <= Len(u) THEN u[i] ELSE b[i - Len(u)]
    BY <1>3, <1>5, ConcatProperties
  <2>2. Len(u) + Len(b) = f.qty
    BY <1>1, <1>3, <1>4
  <2> QED BY <1>3, <2>1, <2>2
<1>7. ASSUME NEW i \in 1..f.qty PROVE a[i] = c[i]
  <2>1. a[i] = f.order
    BY <1>4 DEF Units
  <2>2. i <= q => u[i] = f.order
    BY <1>1 DEF u, FirstUnits
  <2>3. ~(i <= q) => b[i - q] = f.order
    <3>1. ~(i <= q) => i - q \in 1..rest.qty
      BY <1>1, <1>2
    <3> QED BY <1>2, <1>4, <3>1 DEF Units
  <2> QED BY <1>6, <2>1, <2>2, <2>3
<1>8. a = c
  BY <1>4, <1>6, <1>7, SeqEqual
<1> QED BY <1>2, <1>3, <1>4, <1>5, <1>8 DEF rest, u

\* One round of a sale takes units from the front of the queue.
LEMMA RoundTakes ==
  ASSUME NEW sale \in Sale, NEW s \in Order, NEW next, next = TakeLot(sale, s)
  PROVE  /\ next \in Sale
         /\ \E u \in Seq(Order) :
              /\ UnitsOf(sale.open) = u \o UnitsOf(next.open)
              /\ AllPairs(next.closed) = AllPairs(sale.closed) \o SoldBy(u, s)
              /\ sale.left = next.left + Len(u)
         /\ \/ next.left = 0
            \/ next.open = <<>>
            \/ Len(next.open) = Len(sale.open) - 1
<1>1. PICK open \in Seq(FillRow), closed \in Seq(Lot), left \in Nat :
        open = sale.open /\ closed = sale.closed /\ left = sale.left
  BY DEF Sale
<1>2. CASE left = 0 \/ open = <<>>
  <2>1. next = sale
    BY <1>1, <1>2 DEF TakeLot
  <2>2. PICK u \in Seq(Order) : u = <<>> /\ Len(u) = 0
    BY EmptySeq
  <2>3. UnitsOf(open) = u \o UnitsOf(open)
    BY <2>2, UnitsOfType, ConcatEmptySeq
  <2>4. SoldBy(u, s) = <<>>
    BY <2>2, SoldType, EmptySeq
  <2>5. AllPairs(closed) = AllPairs(closed) \o SoldBy(u, s)
    BY <2>4, AllPairsType, ConcatEmptySeq
  <2>6. left = left + Len(u)
    BY <2>2
  <2> QED BY <1>1, <1>2, <2>1, <2>3, <2>5, <2>6
<1>3. CASE ~(left = 0 \/ open = <<>>)
  <2>1. PICK lot \in FillRow, rest \in Seq(FillRow) :
          lot = Head(open) /\ rest = Tail(open) /\ Len(rest) = Len(open) - 1
    BY <1>3, HeadTailProperties
  <2>2. open = <<lot>> \o rest
    BY <1>3, <2>1
  <2>3. PICK held \in Nat : held = lot.qty /\ lot.order \in Order
    BY DEF FillRow
  <2>4. PICK q \in Nat : q = Least(left, held) /\ q <= left /\ q <= held
                         /\ (q = left \/ q = held)
    BY DEF Least
  <2>5. PICK less \in FillRow : less = Cut(lot, q) /\ less.qty = held - q
    BY <2>3, <2>4, UnitsSplit
  <2>6. PICK u \in Seq(Order) : u = FirstUnits(lot, q) /\ Len(u) = q
    BY <2>3, <2>4, UnitsSplit
  <2>7. Units(lot) = u \o Units(less)
    <3>1. q \in 0..lot.qty
      BY <2>3, <2>4
    <3>2. Units(lot) = FirstUnits(lot, q) \o Units(Cut(lot, q))
      BY <3>1, UnitsSplit
    <3> QED BY <2>5, <2>6, <3>2
  <2>8. PICK l \in Lot : l = [buy |-> lot.order, sell |-> s, qty |-> q]
    BY <2>3 DEF Lot
  <2>9. /\ next.open = IF q = held THEN rest ELSE <<less>> \o rest
        /\ next.closed = Append(closed, l)
        /\ next.left = left - q
        /\ next = [open |-> next.open, closed |-> next.closed, left |-> next.left]
    BY <1>1, <1>3, <2>1, <2>3, <2>4, <2>5, <2>8 DEF TakeLot, Cut
  <2>10. left - q \in Nat /\ left = (left - q) + q
    BY <2>4
  <2>11. UnitsOf(open) = (u \o Units(less)) \o UnitsOf(rest)
    BY <2>2, <2>7, UnitsFrom
  <2>12. (u \o Units(less)) \o UnitsOf(rest) = u \o (Units(less) \o UnitsOf(rest))
    <3>1. Units(less) \in Seq(Order) /\ UnitsOf(rest) \in Seq(Order)
      BY UnitsType, UnitsOfType
    <3> QED BY <3>1, ConcatAssociative
  <2>13. next.open \in Seq(FillRow) /\ UnitsOf(next.open) = Units(less) \o UnitsOf(rest)
    <3>1. CASE q = held
      <4>1. less.qty = 0
        BY <2>4, <2>5, <3>1
      <4>2. Units(less) = <<>>
        BY <4>1, UnitsType, EmptySeq
      <4>3. <<>> \o UnitsOf(rest) = UnitsOf(rest)
        BY UnitsOfType, ConcatEmptySeq
      <4> QED BY <2>1, <2>9, <3>1, <4>2, <4>3
    <3>2. CASE q # held
      <4>1. next.open = <<less>> \o rest
        BY <2>9, <3>2
      <4>2. next.open \in Seq(FillRow)
        BY <4>1, OneBefore
      <4> QED BY <4>1, <4>2, UnitsFrom
    <3> QED BY <3>1, <3>2
  <2>14. next.closed \in Seq(Lot) /\ AllPairs(next.closed) = AllPairs(closed) \o Pairs(l)
    BY <2>9, PairsAppend, AppendProperties
  <2>15. Pairs(l) = SoldBy(u, s)
    BY <2>6, <2>8 DEF Pairs, SoldBy, FirstUnits
  <2>16. next \in Sale
    BY <2>9, <2>10, <2>13, <2>14 DEF Sale
  <2>17. next.left = 0 \/ Len(next.open) = Len(open) - 1
    <3>1. q = held => next.open = rest
      BY <2>9
    <3>2. q = left => next.left = 0
      BY <2>4, <2>9
    <3> QED BY <2>1, <2>4, <3>1, <3>2
  <2>18. UnitsOf(sale.open) = u \o UnitsOf(next.open)
    BY <1>1, <2>11, <2>12, <2>13
  <2>19. AllPairs(next.closed) = AllPairs(sale.closed) \o SoldBy(u, s)
    BY <1>1, <2>14, <2>15
  <2>20. sale.left = next.left + Len(u)
    BY <1>1, <2>6, <2>9, <2>10
  <2> QED BY <1>1, <2>16, <2>17, <2>18, <2>19, <2>20
<1> QED BY <1>2, <1>3

\* The rounds of a sale f against a book.
IsSale(book, f, n, sale) ==
  sale = [i \in 0..n |-> IF i = 0 THEN [open |-> book.open, closed |-> book.closed, left |-> f.qty]
                         ELSE TakeLot(sale[i - 1], f.order)]

\* The loop has a value after every number of rounds.
LEMMA SaleExists ==
  ASSUME NEW book, NEW f, NEW n \in Nat
  PROVE  \E sale : IsSale(book, f, n, sale)
<1> DEFINE first == [open |-> book.open, closed |-> book.closed, left |-> f.qty]
           T == {k \in Nat : ~ \E sale : IsSale(book, f, k, sale)}
<1>1. ASSUME T # {} PROVE FALSE
  <2>1. PICK k \in T : \A m \in T : k <= m
    <3>1. T \in SUBSET Nat
      OBVIOUS
    <3> HIDE DEF T
    <3> QED BY <1>1, <3>1, SmallestNat
  <2>2. k # 0
    <3>1. IsSale(book, f, 0, [i \in 0..0 |-> first])
      BY DEF IsSale
    <3> QED BY <2>1, <3>1
  <2>3. PICK c : IsSale(book, f, k - 1, c)
    <3>1. k - 1 \in Nat /\ k - 1 \notin T
      BY <2>1, <2>2
    <3> QED BY <3>1
  <2> DEFINE d == [i \in 0..k |-> IF i = k THEN TakeLot(c[k - 1], f.order) ELSE c[i]]
  <2>4. ASSUME NEW i \in 0..k
        PROVE  d[i] = IF i = 0 THEN first ELSE TakeLot(d[i - 1], f.order)
    <3>1. CASE i = k
      <4>1. d[i - 1] = c[k - 1]
        BY <2>1, <2>2, <3>1
      <4> QED BY <2>2, <3>1, <4>1
    <3>2. CASE i # k
      <4>1. i \in 0..k - 1
        BY <2>1, <3>2
      <4>2. c[i] = IF i = 0 THEN first ELSE TakeLot(c[i - 1], f.order)
        BY <2>3, <4>1 DEF IsSale
      <4>3. d[i] = c[i] /\ (i # 0 => d[i - 1] = c[i - 1])
        BY <2>1, <3>2
      <4> QED BY <4>2, <4>3
    <3> QED BY <3>1, <3>2
  <2>5. d = [i \in 0..k |-> d[i]]
    OBVIOUS
  <2> HIDE DEF d
  <2>6. IsSale(book, f, k, d)
    BY <2>4, <2>5 DEF IsSale
  <2> QED BY <2>1, <2>6
<1> QED BY <1>1

Book == [open : Seq(FillRow), closed : Seq(Lot)]

\* What a sale has done after some rounds: u are the units it took.
Sold(book, f, sale, u) ==
  /\ u \in Seq(Order)
  /\ UnitsOf(book.open) = u \o UnitsOf(sale.open)
  /\ AllPairs(sale.closed) = AllPairs(book.closed) \o SoldBy(u, f.order)
  /\ f.qty = sale.left + Len(u)

\* One round more.
LEMMA SoldMore ==
  ASSUME NEW book \in Book, NEW f \in FillRow, NEW sale \in Sale, NEW u, Sold(book, f, sale, u),
         NEW next, next = TakeLot(sale, f.order)
  PROVE  \E w : Sold(book, f, next, w)
<1>1. PICK s \in Order : s = f.order
  BY DEF FillRow
<1>2. next \in Sale
  BY <1>1, RoundTakes
<1>3. PICK v \in Seq(Order) : /\ UnitsOf(sale.open) = v \o UnitsOf(next.open)
                              /\ AllPairs(next.closed) = AllPairs(sale.closed) \o SoldBy(v, s)
                              /\ sale.left = next.left + Len(v)
  BY <1>1, RoundTakes
<1>4. PICK w \in Seq(Order) : w = u \o v /\ Len(w) = Len(u) + Len(v)
  BY ConcatProperties DEF Sold
<1>5. UnitsOf(next.open) \in Seq(Order) /\ AllPairs(book.closed) \in Seq(Order \X Order)
      /\ u \in Seq(Order)
  BY <1>2, UnitsOfType, AllPairsType DEF Sale, Book, Sold
<1>6. UnitsOf(book.open) = w \o UnitsOf(next.open)
  <2>1. UnitsOf(book.open) = u \o (v \o UnitsOf(next.open))
    BY <1>3 DEF Sold
  <2>2. (u \o v) \o UnitsOf(next.open) = u \o (v \o UnitsOf(next.open))
    BY <1>5, ConcatAssociative
  <2> QED BY <1>4, <2>1, <2>2
<1>7. AllPairs(next.closed) = AllPairs(book.closed) \o SoldBy(w, s)
  <2>1. SoldBy(w, s) = SoldBy(u, s) \o SoldBy(v, s)
    BY <1>4, <1>5, SoldTogether
  <2>2. SoldBy(u, s) \in Seq(Order \X Order) /\ SoldBy(v, s) \in Seq(Order \X Order)
    BY <1>5, SoldType
  <2>3. (AllPairs(book.closed) \o SoldBy(u, s)) \o SoldBy(v, s)
          = AllPairs(book.closed) \o (SoldBy(u, s) \o SoldBy(v, s))
    BY <1>5, <2>2, ConcatAssociative
  <2> QED BY <1>1, <1>3, <2>1, <2>3 DEF Sold
<1>8. f.qty = next.left + Len(w)
  <2>1. next.left \in Nat /\ Len(u) \in Nat /\ Len(v) \in Nat /\ sale.left \in Nat
    BY <1>2, <1>5 DEF Sale
  <2> QED BY <1>3, <1>4, <2>1 DEF Sold
<1> QED BY <1>1, <1>4, <1>6, <1>7, <1>8 DEF Sold

\* The whole sale: it takes units until it is filled or nothing is open.
LEMMA SaleSells ==
  ASSUME NEW book \in Book, NEW f \in FillRow, NEW after, after = SellFifo(book, f)
  PROVE  /\ after \in Book
         /\ \E u, sale : /\ Sold(book, f, sale, u) /\ sale \in Sale
                         /\ sale.open = after.open /\ sale.closed = after.closed
                         /\ sale.left = 0 \/ sale.open = <<>>
<1>1. PICK n \in Nat : n = Len(book.open)
  BY DEF Book
<1>2. PICK S : S = CHOOSE sale : IsSale(book, f, n, sale)
  OBVIOUS
<1>3. IsSale(book, f, n, S)
  BY <1>2, SaleExists
<1>4. after = [open |-> S[n].open, closed |-> S[n].closed]
  BY <1>1, <1>2 DEF SellFifo, IsSale
<1>5. PICK first \in Sale : first = [open |-> book.open, closed |-> book.closed, left |-> f.qty]
  BY DEF Book, FillRow, Sale
<1>6. S[0] = first
  BY <1>3, <1>5 DEF IsSale
<1> DEFINE Ok(i) == /\ S[i] \in Sale /\ \E u : Sold(book, f, S[i], u)
                    /\ S[i].left = 0 \/ S[i].open = <<>> \/ Len(S[i].open) = n - i
           T == {i \in 0..n : ~Ok(i)}
<1>7. Ok(0)
  <2>1. PICK u \in Seq(Order) : u = <<>> /\ Len(u) = 0
    BY EmptySeq
  <2>2. UnitsOf(book.open) = u \o UnitsOf(book.open)
    BY <2>1, UnitsOfType, ConcatEmptySeq DEF Book
  <2>3. SoldBy(u, f.order) = <<>>
    BY <2>1, SoldType, EmptySeq DEF FillRow
  <2>4. AllPairs(book.closed) = AllPairs(book.closed) \o SoldBy(u, f.order)
    BY <2>3, AllPairsType, ConcatEmptySeq DEF Book
  <2>5. f.qty = f.qty + Len(u)
    BY <2>1 DEF FillRow
  <2>6. Sold(book, f, first, u)
    BY <1>5, <2>2, <2>4, <2>5 DEF Sold
  <2>7. Len(first.open) = n - 0
    BY <1>1, <1>5
  <2> QED BY <1>6, <2>6, <2>7
<1>8. ASSUME NEW i \in 1..n, Ok(i - 1) PROVE Ok(i)
  <2>1. PICK sale \in Sale : sale = S[i - 1]
    BY <1>8
  <2>2. PICK u : Sold(book, f, sale, u)
    BY <1>8, <2>1
  <2>3. PICK next : next = TakeLot(sale, f.order)
    OBVIOUS
  <2>4. S[i] = next
    BY <1>3, <2>1, <2>3 DEF IsSale
  <2>5. f.order \in Order
    BY DEF FillRow
  <2>6. next \in Sale
    BY <2>3, <2>5, RoundTakes
  <2>7. \E w : Sold(book, f, next, w)
    BY <2>2, <2>3, SoldMore
  <2>8. next.left = 0 \/ next.open = <<>> \/ Len(next.open) = n - i
    <3>1. next.left = 0 \/ next.open = <<>> \/ Len(next.open) = Len(sale.open) - 1
      BY <2>3, <2>5, RoundTakes
    <3>2. CASE sale.left = 0 \/ sale.open = <<>>
      <4>1. next = sale
        BY <2>3, <3>2 DEF TakeLot
      <4> QED BY <3>2, <4>1
    <3>3. CASE Len(sale.open) = n - (i - 1)
      BY <3>1, <3>3
    <3> QED BY <1>8, <2>1, <3>2, <3>3
  <2> QED BY <2>4, <2>6, <2>7, <2>8
<1>9. Ok(n)
  <2>1. ASSUME T # {} PROVE FALSE
    <3>1. PICK i \in T : \A j \in T : i <= j
      <4>1. T \in SUBSET Nat
        OBVIOUS
      <4> HIDE DEF T
      <4> QED BY <2>1, <4>1, SmallestNat
    <3>2. i \in 0..n /\ ~Ok(i)
      OBVIOUS
    <3>3. i # 0
      BY <1>7, <3>2
    <3>4. i \in 1..n /\ i - 1 \in 0..n
      BY <3>2, <3>3
    <3>5. i - 1 \notin T
      <4> HIDE DEF T
      <4> QED BY <3>1, <3>4
    <3>6. Ok(i - 1)
      BY <3>4, <3>5
    <3> HIDE DEF Ok
    <3> QED BY <1>8, <3>2, <3>4, <3>6
  <2>2. n \in 0..n /\ n \notin T
    BY <2>1
  <2> HIDE DEF Ok
  <2> QED BY <2>2
<1>10. PICK sale \in Sale : sale = S[n]
  BY <1>9
<1>11. PICK u : Sold(book, f, sale, u)
  BY <1>9, <1>10
<1>12. sale.left = 0 \/ sale.open = <<>>
  <2>1. Len(sale.open) = n - n => sale.open = <<>>
    BY <1>10, EmptySeq DEF Sale
  <2> QED BY <1>9, <1>10, <2>1
<1>13. after \in Book
  BY <1>4, <1>10 DEF Sale, Book
<1>14. sale.open = after.open /\ sale.closed = after.closed
  BY <1>4, <1>10
<1> QED BY <1>11, <1>12, <1>13, <1>14

UnitBook == [queue : Seq(Order), sold : Seq(Order \X Order)]

\* The lots and the units tell the same.
Same(book, units) ==
  units.queue = UnitsOf(book.open) /\ units.sold = AllPairs(book.closed)

\* Selling the first of the units in a queue.
FirstSold(q, n, s) == [i \in 1..n |-> <<q[i], s>>]

LEMMA FirstOfQueue ==
  ASSUME NEW u \in Seq(Order), NEW rest \in Seq(Order), NEW q, q = u \o rest,
         NEW n, n = Len(u), NEW s \in Order
  PROVE  SubSeq(q, n + 1, Len(q)) = rest /\ FirstSold(u \o rest, n, s) = SoldBy(u, s)
<1>1. n \in Nat /\ Len(rest) \in Nat
  OBVIOUS
<1>2. PICK m \in Nat : m = Len(rest)
  BY <1>1
<1>3. q \in Seq(Order) /\ Len(q) = n + m /\ \A i \in 1..n + m : q[i] = IF i <= n THEN u[i] ELSE rest[i - n]
  BY <1>1, <1>2, Joined
<1>4. FirstSold(q, n, s) = SoldBy(u, s)
  <2>1. \A i \in 1..n : q[i] = u[i]
    BY <1>1, <1>3
  <2> QED BY <2>1 DEF SoldBy, FirstSold
<1>5. SubSeq(q, n + 1, Len(q)) = rest
  <2>1. PICK k \in Nat : k = n + m
    BY <1>1
  <2>2. CASE m = 0
    <3>1. rest = <<>>
      BY <1>2, <2>2, EmptySeq
    <3>2. k < n + 1 /\ k \in Int /\ n + 1 \in Int
      BY <1>1, <2>1, <2>2
    <3>3. SubSeq(q, n + 1, k) = <<>>
      BY <3>2, SubSeqEmpty
    <3> QED BY <1>3, <2>1, <3>1, <3>3
  <2>3. CASE m # 0
    <3>1. PICK a \in Nat : a = n + 1 /\ a - n = 1 /\ k - n = m
      BY <1>1, <2>1
    <3>2. a \in n + 1..n + m /\ k \in n + 1..n + m
      BY <1>1, <2>1, <2>3, <3>1
    <3>3. a \in Len(u) + 1..Len(u) + Len(rest) /\ k \in Len(u) + 1..Len(u) + Len(rest)
      BY <1>2, <3>2
    <3>4. SubSeq(u \o rest, a, k) = SubSeq(rest, a - Len(u), k - Len(u))
      BY <3>3, SubSeqOfConcat2
    <3>5. SubSeq(q, a, k) = SubSeq(rest, 1, Len(rest))
      BY <1>2, <3>1, <3>4
    <3> QED BY <1>3, <2>1, <3>1, <3>5, SubSeqFull
  <2> QED BY <2>2, <2>3
<1> QED BY <1>4, <1>5

\* A sale of lots is a sale of units.
LEMMA SellSame ==
  ASSUME NEW book \in Book, NEW units \in UnitBook, Same(book, units),
         NEW f \in FillRow, f.order \notin Buys,
         NEW after, after = SellFifo(book, f), NEW done, done = SellUnits(units, f)
  PROVE  after \in Book /\ done \in UnitBook /\ Same(after, done)
<1>1. PICK u, sale : /\ Sold(book, f, sale, u) /\ sale \in Sale
                     /\ sale.open = after.open /\ sale.closed = after.closed
                     /\ sale.left = 0 \/ sale.open = <<>>
  BY SaleSells
<1>2. after \in Book
  BY SaleSells
<1>3. PICK rest \in Seq(Order) : rest = UnitsOf(sale.open)
  BY <1>1, UnitsOfType DEF Sale
<1>4. PICK q \in Seq(Order) : q = units.queue /\ q = u \o rest
  BY <1>1, <1>3 DEF Same, Sold, UnitBook
<1>5. u \in Seq(Order) /\ Len(u) \in Nat /\ Len(rest) \in Nat /\ Len(q) = Len(u) + Len(rest)
  BY <1>1, <1>4, ConcatProperties DEF Sold
<1>6. PICK n : n = Len(u)
  OBVIOUS
<1>7. PICK s \in Order : s = f.order
  BY DEF FillRow
<1>8. n = Least(f.qty, Len(q))
  <2>1. f.qty \in Nat /\ sale.left \in Nat /\ f.qty = sale.left + n
    BY <1>1, <1>6 DEF Sold, Sale, FillRow
  <2>2. CASE sale.left = 0
    BY <1>5, <1>6, <2>1, <2>2 DEF Least
  <2>3. CASE sale.open = <<>>
    <3>1. Len(rest) = 0
      BY <1>3, <2>3, NoneOpen, EmptySeq
    <3> QED BY <1>5, <1>6, <2>1, <3>1 DEF Least
  <2> QED BY <1>1, <2>2, <2>3
<1>9. done = [queue |-> SubSeq(q, n + 1, Len(q)),
              sold |-> units.sold \o FirstSold(q, n, s)]
  BY <1>4, <1>7, <1>8 DEF SellUnits, FirstSold
<1>10. SubSeq(q, n + 1, Len(q)) = rest /\ FirstSold(q, n, s) = SoldBy(u, s)
  <2>1. q = u \o rest /\ n = Len(u) /\ u \in Seq(Order)
    BY <1>4, <1>5, <1>6
  <2>2. SubSeq(q, n + 1, Len(q)) = rest
    BY <2>1, FirstOfQueue
  <2>3. FirstSold(q, n, s) = SoldBy(u, s)
    <3>1. FirstSold(u \o rest, n, s) = SoldBy(u, s)
      BY <2>1, FirstOfQueue
    <3> QED BY <2>1, <3>1
  <2> QED BY <2>2, <2>3
<1>11. done.queue = rest /\ done.sold = units.sold \o SoldBy(u, s)
       /\ done = [queue |-> done.queue, sold |-> done.sold]
  BY <1>9, <1>10
<1>12. done \in UnitBook
  <2>1. units.sold \in Seq(Order \X Order) /\ SoldBy(u, s) \in Seq(Order \X Order)
    BY <1>5, SoldType DEF UnitBook
  <2>2. units.sold \o SoldBy(u, s) \in Seq(Order \X Order)
    BY <2>1, ConcatProperties
  <2> QED BY <1>11, <2>2 DEF UnitBook
<1>13. Same(after, done)
  BY <1>1, <1>3, <1>7, <1>11 DEF Same, Sold
<1> QED BY <1>2, <1>12, <1>13

\* Each fill keeps the lots and the units the same.
LEMMA LotSame ==
  ASSUME NEW book \in Book, NEW units \in UnitBook, Same(book, units), NEW f \in FillRow,
         NEW after, after = MatchLot(book, f), NEW done, done = SellUnits(units, f)
  PROVE  after \in Book /\ done \in UnitBook /\ Same(after, done)
<1>1. CASE f.order \in Buys
  <2>1. book \in [open : Seq(FillRow), closed : Seq(Lot)]
        /\ units \in [queue : Seq(Order), sold : Seq(Order \X Order)]
    BY DEF Book, UnitBook
  <2>2. after = [open |-> Append(book.open, f), closed |-> book.closed]
    BY <1>1, <2>1 DEF MatchLot
  <2>3. done = [queue |-> units.queue \o Units(f), sold |-> units.sold]
    BY <1>1, <2>1 DEF SellUnits
  <2>4. Append(book.open, f) \in Seq(FillRow) /\ units.queue \o Units(f) \in Seq(Order)
    BY <2>1, AppendProperties, UnitsType, ConcatProperties
  <2>5. UnitsOf(Append(book.open, f)) = UnitsOf(book.open) \o Units(f)
    BY <2>1, UnitsAppend
  <2> QED BY <2>1, <2>2, <2>3, <2>4, <2>5 DEF Same, Book, UnitBook
<1>2. CASE f.order \notin Buys
  BY <1>2, SellSame DEF MatchLot
<1> QED BY <1>1, <1>2

LEMMA UnitStepType ==
  ASSUME NEW units \in UnitBook, NEW f \in FillRow
  PROVE  SellUnits(units, f) \in UnitBook
<1>1. PICK q \in Seq(Order), p \in Seq(Order \X Order) : q = units.queue /\ p = units.sold
  BY DEF UnitBook
<1>2. CASE f.order \in Buys
  <2>1. SellUnits(units, f) = [queue |-> q \o Units(f), sold |-> p]
    BY <1>1, <1>2 DEF SellUnits, UnitBook
  <2>2. q \o Units(f) \in Seq(Order)
    BY UnitsType, ConcatProperties
  <2> QED BY <2>1, <2>2 DEF UnitBook
<1>3. CASE f.order \notin Buys
  <2>1. PICK n \in Nat : n = Least(f.qty, Len(q)) /\ n <= Len(q)
    BY DEF Least, FillRow
  <2>2. SellUnits(units, f) = [queue |-> SubSeq(q, n + 1, Len(q)),
                               sold |-> p \o [i \in 1..n |-> <<q[i], f.order>>]]
    BY <1>1, <1>3, <2>1 DEF SellUnits
  <2>3. SubSeq(q, n + 1, Len(q)) \in Seq(Order)
    <3>1. n + 1 \in Int /\ Len(q) \in Int
      BY <2>1
    <3>2. \A i \in n + 1..Len(q) : q[i] \in Order
      BY <2>1, ElementOfSeq
    <3> QED BY <3>1, <3>2, SubSeqProperties
  <2>4. PICK t : t = [i \in 1..n |-> <<q[i], f.order>>]
    OBVIOUS
  <2>5. t \in [1..n -> Order \X Order]
    BY <2>1, <2>4 DEF FillRow
  <2>6. t \in Seq(Order \X Order)
    BY <2>5, Listed
  <2>7. p \o t \in Seq(Order \X Order)
    BY <2>6, ConcatProperties
  <2> QED BY <2>2, <2>3, <2>4, <2>7 DEF UnitBook
<1> QED BY <1>2, <1>3

\* The books after each set of fills, and the units.
IsBooks(fills, book) ==
  book = [D \in SUBSET fills |->
            IF D = {} THEN [open |-> <<>>, closed |-> <<>>]
            ELSE MatchLot(book[D \ {LatestFill(D)}], LatestFill(D))]
IsUnits(fills, units) ==
  units = [D \in SUBSET fills |->
             IF D = {} THEN [queue |-> <<>>, sold |-> <<>>]
             ELSE SellUnits(units[D \ {LatestFill(D)}], LatestFill(D))]

LEMMA EmptyBooks ==
  ASSUME NEW b, b = [open |-> <<>>, closed |-> <<>>], NEW u, u = [queue |-> <<>>, sold |-> <<>>]
  PROVE  b \in Book /\ u \in UnitBook /\ Same(b, u)
<1>1. <<>> \in Seq(FillRow) /\ <<>> \in Seq(Lot) /\ <<>> \in Seq(Order) /\ <<>> \in Seq(Order \X Order)
  BY EmptySeq
<1>2. b \in Book /\ u \in UnitBook
  BY <1>1 DEF Book, UnitBook
<1> QED BY <1>2, NoneOpen DEF Same

\* Finitely many fills have a last one.
LEMMA LatestIsIn ==
  ASSUME NEW fills \in SUBSET FillRow, IsFiniteSet(fills), NEW D \in SUBSET fills, D # {}
  PROVE  LatestFill(D) \in D
<1> DEFINE T == {E \in SUBSET D : E # {} /\ ~ \E f \in E : \A g \in E : g.at <= f.at}
<1>1. IsFiniteSet(D) /\ \A f \in D : f.at \in Nat
  BY FS_Subset DEF FillRow
<1>2. ASSUME T # {} PROVE FALSE
  <2>1. PICK E \in T : \A B \in SUBSET E : B # E => B \notin T
    <3>1. T \in SUBSET SUBSET D
      OBVIOUS
    <3> HIDE DEF T
    <3> QED BY <1>1, <1>2, <3>1, SmallestSubset
  <2>2. PICK f \in E : TRUE
    OBVIOUS
  <2>3. E \ {f} \in SUBSET E /\ E \ {f} # E /\ E \ {f} \in SUBSET D
    BY <2>2
  <2>4. E \ {f} \notin T
    <3> HIDE DEF T
    <3> QED BY <2>1, <2>3
  <2>5. CASE E \ {f} = {}
    <3>1. \A g \in E : g.at <= f.at
      BY <1>1, <2>5
    <3> QED BY <3>1
  <2>6. CASE E \ {f} # {}
    <3>1. PICK h \in E \ {f} : \A g \in E \ {f} : g.at <= h.at
      BY <2>3, <2>4, <2>6
    <3>2. f.at \in Nat /\ h.at \in Nat /\ \A g \in E : g.at \in Nat
      BY <1>1, <3>1
    <3>3. CASE f.at <= h.at
      BY <3>1, <3>3
    <3>4. CASE ~(f.at <= h.at)
      <4>1. \A g \in E : g.at <= f.at
        BY <3>1, <3>2, <3>4
      <4> QED BY <4>1
    <3> QED BY <3>3, <3>4
  <2> QED BY <2>5, <2>6
<1>3. \E f \in D : \A g \in D : g.at <= f.at
  BY <1>2
<1> QED BY <1>3 DEF LatestFill

\* Both recursions have a value.
LEMMA BooksExist ==
  ASSUME NEW fills \in SUBSET FillRow, IsFiniteSet(fills)
  PROVE  (\E book : IsBooks(fills, book)) /\ (\E units : IsUnits(fills, units))
<1>1. PICK last : last = [D \in SUBSET fills |-> LatestFill(D)]
  OBVIOUS
<1>2. Picks(fills, last) /\ \A D \in SUBSET fills : last[D] = LatestFill(D)
  BY <1>1, LatestIsIn DEF Picks
<1>3. PICK b, u : b = [open |-> <<>>, closed |-> <<>>] /\ u = [queue |-> <<>>, sold |-> <<>>]
  OBVIOUS
<1>4. b \in Book /\ u \in UnitBook /\ Same(b, u)
  BY <1>3, EmptyBooks
<1>5. PICK match : match = [p \in Book \X fills |-> MatchLot(p[1], p[2])]
  OBVIOUS
<1>6. match \in [Book \X fills -> Book]
  <2>1. ASSUME NEW p \in Book \X fills PROVE MatchLot(p[1], p[2]) \in Book
    <3>1. PICK book \in Book, f \in FillRow : book = p[1] /\ f = p[2]
      OBVIOUS
    <3>2. CASE f.order \in Buys
      <4>1. MatchLot(book, f) = [open |-> Append(book.open, f), closed |-> book.closed]
        BY <3>2 DEF MatchLot, Book
      <4>2. Append(book.open, f) \in Seq(FillRow)
        BY AppendProperties DEF Book
      <4> QED BY <3>1, <4>1, <4>2 DEF Book
    <3>3. CASE f.order \notin Buys
      BY <3>1, <3>3, SaleSells DEF MatchLot
    <3> QED BY <3>2, <3>3
  <2> QED BY <1>5, <2>1
<1>7. PICK book \in [SUBSET fills -> Book] : RecursionOn(fills, b, last, match, book)
  BY <1>2, <1>4, <1>6, RecursionHas
<1>8. IsBooks(fills, book)
  <2>1. ASSUME NEW D \in SUBSET fills
        PROVE  book[D] = IF D = {} THEN b ELSE MatchLot(book[D \ {LatestFill(D)}], LatestFill(D))
    <3>1. book[D] = IF D = {} THEN b ELSE match[<<book[D \ {last[D]}], last[D]>>]
      BY <1>7 DEF RecursionOn
    <3>2. CASE D # {}
      <4>1. PICK f \in fills : f = LatestFill(D) /\ f = last[D]
        BY <1>2, <3>2, LatestIsIn
      <4>2. book[D \ {f}] \in Book
        BY <1>7
      <4>3. match[<<book[D \ {f}], f>>] = MatchLot(book[D \ {f}], f)
        BY <1>5, <4>2
      <4> QED BY <3>1, <3>2, <4>1, <4>3
    <3> QED BY <3>1, <3>2
  <2>2. book = [D \in SUBSET fills |-> book[D]]
    BY <1>7
  <2> QED BY <1>3, <2>1, <2>2 DEF IsBooks
<1>9. PICK sell : sell = [p \in UnitBook \X fills |-> SellUnits(p[1], p[2])]
  OBVIOUS
<1>10. sell \in [UnitBook \X fills -> UnitBook]
  <2>1. ASSUME NEW p \in UnitBook \X fills PROVE SellUnits(p[1], p[2]) \in UnitBook
    BY UnitStepType
  <2> QED BY <1>9, <2>1
<1>11. PICK units \in [SUBSET fills -> UnitBook] : RecursionOn(fills, u, last, sell, units)
  BY <1>2, <1>4, <1>10, RecursionHas
<1>12. IsUnits(fills, units)
  <2>1. ASSUME NEW D \in SUBSET fills
        PROVE  units[D] = IF D = {} THEN u ELSE SellUnits(units[D \ {LatestFill(D)}], LatestFill(D))
    <3>1. units[D] = IF D = {} THEN u ELSE sell[<<units[D \ {last[D]}], last[D]>>]
      BY <1>11 DEF RecursionOn
    <3>2. CASE D # {}
      <4>1. PICK f \in fills : f = LatestFill(D) /\ f = last[D]
        BY <1>2, <3>2, LatestIsIn
      <4>2. units[D \ {f}] \in UnitBook
        BY <1>11
      <4>3. sell[<<units[D \ {f}], f>>] = SellUnits(units[D \ {f}], f)
        BY <1>9, <4>2
      <4> QED BY <3>1, <3>2, <4>1, <4>3
    <3> QED BY <3>1, <3>2
  <2>2. units = [D \in SUBSET fills |-> units[D]]
    BY <1>11
  <2> QED BY <1>3, <2>1, <2>2 DEF IsUnits
<1> QED BY <1>8, <1>12

\* For every finite set of fills, the realized lots are those of a queue of units.
LEMMA FillsAreFifo ==
  ASSUME NEW fills \in SUBSET FillRow, IsFiniteSet(fills)
  PROVE  AllPairs(MatchLotsFifo(fills)) = UnitPairs(fills)
<1>1. PICK book, units : /\ book = CHOOSE b : IsBooks(fills, b)
                         /\ units = CHOOSE u : IsUnits(fills, u)
  OBVIOUS
<1>2. IsBooks(fills, book) /\ IsUnits(fills, units)
  BY <1>1, BooksExist
<1>3. MatchLotsFifo(fills) = book[fills].closed /\ UnitPairs(fills) = units[fills].sold
  BY <1>1 DEF MatchLotsFifo, UnitPairs, IsBooks, IsUnits
<1> DEFINE Ok(D) == book[D] \in Book /\ units[D] \in UnitBook /\ Same(book[D], units[D])
           T == {D \in SUBSET fills : ~Ok(D)}
<1>4. ASSUME T # {} PROVE FALSE
  <2>1. PICK D \in T : \A B \in SUBSET D : B # D => B \notin T
    <3>1. T \in SUBSET SUBSET fills
      OBVIOUS
    <3> HIDE DEF T
    <3> QED BY <1>4, <3>1, SmallestSubset
  <2>2. D \in SUBSET fills /\ ~Ok(D)
    OBVIOUS
  <2>3. D # {}
    <3>1. D = {} => Ok(D)
      BY <1>2, EmptyBooks DEF IsBooks, IsUnits
    <3> QED BY <2>2, <3>1
  <2>4. PICK f \in D : f = LatestFill(D)
    BY <2>2, <2>3, LatestIsIn
  <2>5. D \ {f} \in SUBSET D /\ D \ {f} # D /\ D \ {f} \in SUBSET fills
    BY <2>2, <2>4
  <2>6. Ok(D \ {f})
    <3>1. D \ {f} \notin T
      <4> HIDE DEF T
      <4> QED BY <2>1, <2>5
    <3> HIDE DEF Ok
    <3> QED BY <2>5, <3>1
  <2>7. book[D] = MatchLot(book[D \ {f}], f) /\ units[D] = SellUnits(units[D \ {f}], f)
    BY <1>2, <2>2, <2>3, <2>4 DEF IsBooks, IsUnits
  <2>8. f \in FillRow
    BY <2>2, <2>4
  <2>9. Ok(D)
    BY <2>6, <2>7, <2>8, LotSame
  <2> HIDE DEF Ok
  <2> QED BY <2>2, <2>9
<1>5. Same(book[fills], units[fills])
  <2>1. fills \in SUBSET fills /\ fills \notin T
    BY <1>4
  <2> QED BY <2>1
<1> QED BY <1>3, <1>5 DEF Same

\* The ledger's fills are finitely many rows.
RowsFinite ==
  /\ reply \in [Readers -> SUBSET Order]
  /\ loose \in SUBSET FillRow
  /\ IsFiniteSet(loose)

LEMMA RowsFiniteInit == LedgerInit => RowsFinite
  BY FS_EmptySet DEF LedgerInit, RowsFinite

LEMMA RowsFiniteNext ==
  ASSUME QuantitiesPast, RowsFinite, [LedgerNext]_ledgerVars
  PROVE  RowsFinite'
<1>1. ASSUME UNCHANGED loose, reply' \in [Readers -> SUBSET Order] PROVE RowsFinite'
  BY <1>1 DEF RowsFinite
<1>2. \A r \in Readers : Forget(r) => reply' \in [Readers -> SUBSET Order]
  BY DEF Forget, RowsFinite
<1>3. Reconciler \in Readers /\ Archivers \subseteq Readers
  BY DEF Readers
<1>4. ASSUME NEW r \in Readers, NEW page \in SUBSET Order, FetchOrders(r, page) PROVE RowsFinite'
  BY <1>1, <1>4 DEF FetchOrders, RowsFinite
<1>5. ASSUME NEW r \in Archivers, Archive(r) PROVE RowsFinite'
  BY <1>1, <1>2, <1>3, <1>5 DEF Archive
<1>6. CASE ReconcileFills
  <2>1. PICK fresh : /\ fresh \subseteq reply[Reconciler]
                     /\ loose' = loose \cup {LooseRow(o) : o \in fresh}
    <3>1. PICK fresh : fresh = {o \in {o \in Tracked : ~FellBack(o)} \cap NoBrokerId :
                                 ~IsStored(o, snap[Reconciler][o].qty)}
      OBVIOUS
    <3>2. loose' = loose \cup {LooseRow(o) : o \in fresh}
      BY <1>6, <3>1 DEF ReconcileFills
    <3>3. fresh \subseteq reply[Reconciler]
      BY <3>1 DEF Tracked
    <3> QED BY <3>2, <3>3
  <2>2. fresh \in SUBSET Order /\ IsFiniteSet(fresh)
    BY <1>3, <2>1, LedgerAssumption, FS_Subset DEF RowsFinite
  <2>3. PICK rows : rows = {LooseRow(o) : o \in fresh}
    OBVIOUS
  <2>4. IsFiniteSet(rows)
    <3>1. PICK g : g = [o \in fresh |-> LooseRow(o)]
      OBVIOUS
    <3>2. rows = {g[o] : o \in fresh}
      BY <2>3, <3>1
    <3>3. g \in [fresh -> rows] /\ \A y \in rows : \E x \in fresh : g[x] = y
      BY <2>3, <3>1
    <3>4. g \in Surjection(fresh, rows)
      BY <3>3 DEF Surjection
    <3> QED BY <2>2, <3>4, FS_Surjection
  <2>5. rows \in SUBSET FillRow
    <3>1. ASSUME NEW o \in fresh PROVE LooseRow(o) \in FillRow
      <4>1. snap[Reconciler][o] \in Seen
        BY <1>3, <2>2 DEF QuantitiesPast
      <4> QED BY <2>2, <4>1 DEF LooseRow, FillRow, Seen
    <3> QED BY <2>3, <3>1
  <2>6. loose' = loose \cup rows /\ loose' \in SUBSET FillRow /\ IsFiniteSet(loose')
    BY <2>1, <2>3, <2>4, <2>5, FS_Union DEF RowsFinite
  <2>7. reply' \in [Readers -> SUBSET Order]
    BY <1>2, <1>3, <1>6 DEF ReconcileFills
  <2> QED BY <2>6, <2>7 DEF RowsFinite
<1>7. ASSUME NEW o \in Order, (\E q \in 1..Quantity[o] : Fill(o, q)) \/ Touch(o) PROVE RowsFinite'
  BY <1>1, <1>7 DEF Fill, Touch, readerVars, RowsFinite
<1>8. CASE Recompute \/ UNCHANGED ledgerVars
  BY <1>1, <1>8 DEF Recompute, ledgerVars, readerVars, RowsFinite
<1> QED BY <1>4, <1>5, <1>6, <1>7, <1>8 DEF LedgerNext

LEMMA FillsFinite ==
  ASSUME QuantitiesPast, RowsFinite
  PROVE  Fills \in SUBSET FillRow /\ IsFiniteSet(Fills)
<1>1. PICK stored : stored = {p \in Order : kept[p].qty > 0}
  OBVIOUS
<1>2. stored \in SUBSET Order /\ IsFiniteSet(stored)
  BY <1>1, LedgerAssumption, FS_Subset
<1>3. PICK g : g = [o \in stored |-> [order |-> o, qty |-> kept[o].qty, at |-> kept[o].at]]
  OBVIOUS
<1>4. PICK rows : rows = {g[o] : o \in stored}
  OBVIOUS
<1>5. Fills = loose \cup rows
  BY <1>1, <1>3, <1>4 DEF Fills
<1>6. IsFiniteSet(rows)
  <2>1. g \in [stored -> rows] /\ \A y \in rows : \E x \in stored : g[x] = y
    BY <1>3, <1>4
  <2>2. g \in Surjection(stored, rows)
    BY <2>1 DEF Surjection
  <2> QED BY <1>2, <2>2, FS_Surjection
<1>7. rows \in SUBSET FillRow
  <2>1. ASSUME NEW o \in stored PROVE g[o] \in FillRow
    <3>1. kept[o] \in Seen
      BY <1>2 DEF QuantitiesPast
    <3> QED BY <1>2, <1>3, <3>1 DEF FillRow, Seen
  <2> QED BY <1>4, <2>1
<1> QED BY <1>5, <1>6, <1>7, FS_Union DEF RowsFinite

\* Whatever the readers leave in the ledger, late, twice or out of order, the
\* lots matched from it are those of a plain queue of units: a split lot loses
\* no unit, and a sale without inventory takes none.
THEOREM FifoIsExact == LedgerSpec => []LotsAreFifo
<1>1. QuantitiesPast /\ [LedgerNext]_ledgerVars => QuantitiesPast'
  <2> SUFFICES ASSUME QuantitiesPast, [LedgerNext]_ledgerVars PROVE QuantitiesPast'
    OBVIOUS
  <2> QED BY EngineMoves, ReaderMoves DEF LedgerNext
<1>2. QuantitiesPast /\ RowsFinite => LotsAreFifo
  BY FillsFinite, FillsAreFifo DEF LotsAreFifo
<1>3. QuantitiesPast /\ RowsFinite /\ [LedgerNext]_ledgerVars => RowsFinite'
  BY RowsFiniteNext
<1> QED BY <1>1, <1>2, <1>3, QuantitiesPastInit, RowsFiniteInit, PTL DEF LedgerSpec

-----------------------------------------------------------------------------
(* MonitorAlerts.                                                          *)

\* A message is as old as the row of its alert or older, and a check that is
\* about to send has nothing told within the window.
Spaced == Check \ {"sharpe"}

AlertInv ==
  /\ alertedAt \in [Check -> Age] /\ told \in [Check -> Age]
  /\ \A c \in Spaced : told[c] # None => alertedAt[c] # None /\ alertedAt[c] <= told[c]
  /\ at > 0 /\ stage = "send" =>
       \A c \in Spaced : suite[at] = c =>
         alertedAt[c] = 0 /\ (told[c] = None \/ told[c] >= Dedup)

LEMMA Ages == /\ Dedup \in Nat /\ Dedup > 0 /\ None \in Age /\ 0 \in Age /\ None # 0
              /\ \A a \in Age : a \in Int
BY AlertAssumption DEF None, Age

LEMMA AlertInvInit == AlertInit => AlertInv
<1> SUFFICES ASSUME AlertInit PROVE AlertInv
  OBVIOUS
<1>1. /\ alertedAt = [c \in Check |-> None] /\ told = [c \in Check |-> None]
      /\ stage = "check"
  BY DEF AlertInit
<1> QED BY <1>1, Ages DEF AlertInv, Spaced

\* Everybody grows older by one, up to the window.
LEMMA AgedKeepsOrder ==
  ASSUME NEW f \in [Check -> Age]
  PROVE  /\ Aged(f) \in [Check -> Age]
         /\ \A c \in Check : Aged(f)[c] = IF f[c] = None \/ f[c] = Dedup THEN f[c] ELSE f[c] + 1
<1>1. Dedup \in Nat
  BY Ages
<1> QED BY <1>1 DEF Aged, Age, None

LEMMA TimeKeepsAlerts == AlertInv /\ TimePasses => AlertInv'
<1> SUFFICES ASSUME AlertInv, TimePasses PROVE AlertInv'
  OBVIOUS
<1>1. /\ alertedAt' = Aged(alertedAt) /\ told' = Aged(told) /\ at' = 0
      /\ alertedAt \in [Check -> Age] /\ told \in [Check -> Age]
  BY DEF TimePasses, AlertInv
<1>2. /\ alertedAt' \in [Check -> Age] /\ told' \in [Check -> Age]
      /\ \A c \in Check :
           /\ alertedAt'[c] = IF alertedAt[c] = None \/ alertedAt[c] = Dedup
                              THEN alertedAt[c] ELSE alertedAt[c] + 1
           /\ told'[c] = IF told[c] = None \/ told[c] = Dedup THEN told[c] ELSE told[c] + 1
  BY <1>1, AgedKeepsOrder
<1>3. ASSUME NEW c \in Spaced, told'[c] # None
      PROVE  alertedAt'[c] # None /\ alertedAt'[c] <= told'[c]
  <2>1. c \in Check /\ alertedAt[c] \in -1..Dedup /\ told[c] \in -1..Dedup
    BY <1>1 DEF Spaced, Age
  <2>2. told[c] # None
    BY <1>2, <1>3, <2>1
  <2>3. alertedAt[c] # None /\ alertedAt[c] <= told[c]
    BY <2>2 DEF AlertInv
  <2> QED BY <1>2, <2>1, <2>2, <2>3, Ages DEF None
<1> QED BY <1>1, <1>2, <1>3 DEF AlertInv

\* A check that fires may: nothing was told within the window.
LEMMA FireKeepsAlerts ==
  ASSUME AlertInv, NEW c \in Check, Checking(c), ~Deduped(c), Fire(c),
         UNCHANGED <<suite, told>>
  PROVE  AlertInv'
<1>1. /\ alertedAt \in [Check -> Age] /\ told \in [Check -> Age]
      /\ alertedAt' = [alertedAt EXCEPT ![c] = 0] /\ stage' = "send"
      /\ UNCHANGED <<at, suite, told>> /\ suite[at] = c
  BY DEF AlertInv, Fire, Checking
<1>2. alertedAt' \in [Check -> Age]
  BY <1>1, Ages
<1>3. ASSUME c \in Spaced PROVE told[c] = None \/ told[c] >= Dedup
  <2>1. CASE told[c] # None
    <3>1. alertedAt[c] # None /\ alertedAt[c] <= told[c]
      BY <1>3, <2>1 DEF AlertInv
    <3>2. alertedAt[c] \in Int /\ told[c] \in Int /\ Dedup \in Int
      BY <1>1, Ages
    <3>3. alertedAt[c] >= Dedup
      BY <3>1, <3>2 DEF Deduped
    <3> QED BY <3>1, <3>2, <3>3
  <2> QED BY <2>1
<1>4. ASSUME NEW d \in Spaced, told'[d] # None
      PROVE  alertedAt'[d] # None /\ alertedAt'[d] <= told'[d]
  <2>1. d \in Check /\ told'[d] = told[d] /\ told[d] \in -1..Dedup
    BY <1>1 DEF Spaced, Age
  <2>2. CASE d = c
    <3>1. alertedAt'[d] = 0
      BY <1>1, <2>1, <2>2
    <3> QED BY <1>4, <2>1, <3>1 DEF None
  <2>3. CASE d # c
    BY <1>1, <1>4, <2>1, <2>3 DEF AlertInv
  <2> QED BY <2>2, <2>3
<1>5. ASSUME NEW d \in Spaced, suite'[at'] = d
      PROVE  alertedAt'[d] = 0 /\ (told'[d] = None \/ told'[d] >= Dedup)
  BY <1>1, <1>3, <1>5
<1> QED BY <1>1, <1>2, <1>4, <1>5 DEF AlertInv

\* A step to the next check, or one that leaves the suite alone.
LEMMA QuietKeepsAlerts ==
  ASSUME AlertInv, UNCHANGED alertedAt, UNCHANGED told,
         stage' # "send" \/ UNCHANGED <<suite, at, stage>>
  PROVE  AlertInv'
BY DEF AlertInv

LEMMA CheckKeepsAlerts ==
  ASSUME AlertInv, NEW c \in Check, CheckLevel(c) \/ CheckBroker(c) \/ CheckEngine
  PROVE  AlertInv'
<1>1. CASE CheckLevel(c)
  <2>1. CASE c \in bad /\ ~Deduped(c)
    BY <1>1, <2>1, FireKeepsAlerts DEF CheckLevel, worldVars
  <2>2. CASE ~(c \in bad /\ ~Deduped(c))
    BY <1>1, <2>2, QuietKeepsAlerts DEF CheckLevel, Quiet, NextCheck
  <2> QED BY <2>1, <2>2
<1>2. CASE CheckBroker(c)
  <2>1. /\ Checking(c) /\ UNCHANGED <<suite, told>>
        /\ Quiet \/ (~Deduped(c) /\ Fire(c))
    BY <1>2 DEF CheckBroker, worldVars
  <2> QED BY <2>1, FireKeepsAlerts, QuietKeepsAlerts DEF Quiet, NextCheck
<1>3. CASE CheckEngine
  <2>1. CASE "engine" \in bad
    <3>1. /\ Checking("engine") /\ UNCHANGED <<suite, told>>
          /\ Quiet \/ (~Deduped("engine") /\ Fire("engine"))
      BY <1>3, <2>1 DEF CheckEngine, worldVars
    <3>2. "engine" \in Check
      BY DEF Check, Outage
    <3> QED BY <3>1, <3>2, FireKeepsAlerts, QuietKeepsAlerts DEF Quiet, NextCheck
  <2>2. CASE "engine" \notin bad
    <3>1. /\ alertedAt' = [alertedAt EXCEPT !["engine"] = None]
          /\ told' = [told EXCEPT !["engine"] = None] /\ stage' = "check"
      BY <1>3, <2>2 DEF CheckEngine, NextCheck
    <3> QED BY <3>1, Ages DEF AlertInv, Spaced
  <2> QED BY <2>1, <2>2
<1> QED BY <1>1, <1>2, <1>3

LEMMA DeliveredKeepsAlerts == AlertInv /\ Delivered => AlertInv'
<1> SUFFICES ASSUME AlertInv, Delivered PROVE AlertInv'
  OBVIOUS
<1>1. /\ alertedAt' = alertedAt /\ told' = [told EXCEPT ![suite[at]] = 0]
      /\ stage' # "send" /\ at > 0 /\ stage = "send"
  BY DEF Delivered, alertRows, NextCheck
<1>2. told' \in [Check -> Age]
  BY <1>1, Ages DEF AlertInv
<1>3. ASSUME NEW c \in Spaced, told'[c] # None
      PROVE  alertedAt'[c] # None /\ alertedAt'[c] <= told'[c]
  <2>1. CASE c = suite[at]
    <3>1. alertedAt[c] = 0 /\ told'[c] = 0
      BY <1>1, <2>1 DEF AlertInv, Spaced
    <3> QED BY <1>1, <3>1, Ages
  <2>2. CASE c # suite[at]
    BY <1>1, <1>3, <2>2 DEF AlertInv, Spaced
  <2> QED BY <2>1, <2>2
<1> QED BY <1>1, <1>2, <1>3 DEF AlertInv

LEMMA SharpeKeepsAlerts == AlertInv /\ CheckSharpeFlip => AlertInv'
<1> SUFFICES ASSUME AlertInv, CheckSharpeFlip PROVE AlertInv'
  OBVIOUS
<1>1. UNCHANGED <<suite, alertedAt, told>>
  BY DEF CheckSharpeFlip, worldVars
<1>2. (at' = at /\ suite[at] = "sharpe") \/ stage' = "check"
  BY DEF CheckSharpeFlip, NextCheck, Checking
<1> QED BY <1>1, <1>2 DEF AlertInv, Spaced

\* Between two ticks nothing waits to be sent.
IdleChecks == at = 0 => stage = "check"

LEMMA IdleChecksNext == IdleChecks /\ [AlertNext]_alertVars => IdleChecks'
<1> SUFFICES ASSUME IdleChecks, [AlertNext]_alertVars PROVE IdleChecks'
  OBVIOUS
<1>1. ASSUME stage' = "check" \/ (at' = at /\ (at > 0 \/ stage # "check" \/ stage' = stage))
      PROVE  IdleChecks'
  BY <1>1 DEF IdleChecks
<1>2. ASSUME NEW c \in Check, CheckLevel(c) \/ CheckBroker(c) \/ CheckEngine \/ CheckSharpeFlip
      PROVE  IdleChecks'
  <2>1. stage' = "check" \/ (at' = at /\ at > 0)
    BY <1>2 DEF CheckLevel, CheckBroker, CheckEngine, CheckSharpeFlip, Checking, Fire, Quiet, NextCheck
  <2> QED BY <1>1, <2>1
<1>3. ASSUME NEW c \in Check, ConditionChanges(c) PROVE IdleChecks'
  BY <1>3 DEF ConditionChanges, IdleChecks
<1>4. CASE TimePasses \/ OperatorResumes \/ UNCHANGED alertVars
  BY <1>4 DEF TimePasses, OperatorResumes, alertVars, worldVars, IdleChecks
<1>5. CASE BotRestarts
  BY <1>5 DEF BotRestarts, IdleChecks
<1>6. CASE StartMonitor
  BY <1>6 DEF StartMonitor, IdleChecks
<1>7. CASE Delivered \/ SendThrows
  BY <1>7 DEF Delivered, SendThrows, NextCheck, IdleChecks
<1>8. CASE HaltEngine \/ HaltFails \/ HaltNotice \/ NoticeThrows
  BY <1>8 DEF HaltEngine, HaltFails, HaltNotice, NoticeThrows, NextCheck, IdleChecks
<1>9. "abstain" \in Check /\ "rate" \in Check /\ "drought" \in Check /\ "nav" \in Check
      /\ "coinbase" \in Check /\ "alpaca" \in Check /\ "engine" \in Check
  BY DEF Check, Level, Outage
<1> QED BY <1>2, <1>3, <1>4, <1>5, <1>6, <1>7, <1>8, <1>9
  DEF AlertNext, MonitorStep, CheckAbstainDigest, CheckAbstainRate, CheckSignalDrought,
    CheckNavDrop, CheckCoinbase, CheckAlpaca

\* The other steps: the world's, the restart, the start of a tick, and what
\* follows on a send.
Aside ==
  \/ \E c \in Check : ConditionChanges(c)
  \/ OperatorResumes \/ BotRestarts \/ StartMonitor \/ SendThrows
  \/ HaltEngine \/ HaltFails \/ HaltNotice \/ NoticeThrows

LEMMA AsideKeepsAlerts ==
  ASSUME AlertInv, IdleChecks, Aside
  PROVE  AlertInv' /\ told' = told
<1>1. ASSUME NEW c \in Check, ConditionChanges(c)
      PROVE  UNCHANGED <<alertedAt, told, suite, at, stage>>
  BY <1>1 DEF ConditionChanges, alertRows
<1>2. OperatorResumes => UNCHANGED <<alertedAt, told, suite, at, stage>>
  BY DEF OperatorResumes, alertRows, worldVars
<1>3. BotRestarts => UNCHANGED <<alertedAt, told>> /\ stage' = "check"
  BY DEF BotRestarts, alertRows
<1>4. CASE StartMonitor
  <2>1. UNCHANGED <<alertedAt, told, suite, stage>> /\ at = 0 /\ at' = 1
    BY <1>4 DEF StartMonitor, alertRows, worldVars
  <2>2. stage # "send"
    BY <2>1 DEF IdleChecks
  <2> QED BY <2>1, <2>2, QuietKeepsAlerts
<1>5. SendThrows \/ HaltEngine \/ HaltFails \/ HaltNotice \/ NoticeThrows
        => UNCHANGED <<alertedAt, told>> /\ stage' \in {"check", "notice"}
  BY DEF SendThrows, HaltEngine, HaltFails, HaltNotice, NoticeThrows, NextCheck, alertRows
<1> QED BY <1>1, <1>2, <1>3, <1>4, <1>5, QuietKeepsAlerts DEF Aside

\* What a step tells a check of the window comes after the window.
Late == \A c \in Spaced : told[c] # None /\ told'[c] = 0 /\ told[c] # 0 => told[c] >= Dedup

LEMMA AlertStep ==
  ASSUME AlertInv, IdleChecks, [AlertNext]_alertVars
  PROVE  AlertInv' /\ Late
<1>1. "abstain" \in Check /\ "rate" \in Check /\ "drought" \in Check /\ "nav" \in Check
      /\ "coinbase" \in Check /\ "alpaca" \in Check /\ "engine" \in Check
  BY DEF Check, Level, Outage
<1>2. ASSUME told' = told PROVE Late
  BY <1>2 DEF Late
<1>3. ASSUME NEW c \in Check, CheckLevel(c) \/ CheckBroker(c) PROVE AlertInv' /\ Late
  <2>1. told' = told
    BY <1>3 DEF CheckLevel, CheckBroker
  <2> QED BY <1>2, <1>3, <2>1, CheckKeepsAlerts
<1>4. CASE CheckEngine
  <2>1. told \in [Check -> Age] /\ (told' = told \/ told' = [told EXCEPT !["engine"] = None])
    BY <1>4 DEF CheckEngine, AlertInv
  <2>2. Late
    BY <2>1, Ages DEF Late, Spaced
  <2> QED BY <1>1, <1>4, <2>2, CheckKeepsAlerts
<1>5. CASE CheckSharpeFlip
  BY <1>2, <1>5, SharpeKeepsAlerts DEF CheckSharpeFlip
<1>6. CASE TimePasses
  <2>1. told \in [Check -> Age] /\ told' = Aged(told)
    BY <1>6 DEF TimePasses, AlertInv
  <2>2. ASSUME NEW c \in Spaced, told[c] # None, told[c] # 0 PROVE told'[c] # 0
    <3>1. c \in Check /\ told[c] \in -1..Dedup
      BY <2>1 DEF Spaced, Age
    <3>2. told'[c] = IF told[c] = None \/ told[c] = Dedup THEN told[c] ELSE told[c] + 1
      BY <2>1, <3>1, AgedKeepsOrder
    <3> QED BY <2>2, <3>1, <3>2, Ages DEF None
  <2> QED BY <1>6, <2>2, TimeKeepsAlerts DEF Late
<1>7. CASE Delivered
  <2>1. /\ told \in [Check -> Age] /\ told' = [told EXCEPT ![suite[at]] = 0]
        /\ at > 0 /\ stage = "send"
    BY <1>7 DEF Delivered, AlertInv
  <2>2. Late
    BY <2>1 DEF Late, AlertInv, Spaced
  <2> QED BY <1>7, <2>2, DeliveredKeepsAlerts
<1>8. CASE Aside
  BY <1>2, <1>8, AsideKeepsAlerts
<1>9. CASE UNCHANGED alertVars
  BY <1>2, <1>9, QuietKeepsAlerts DEF alertVars, alertRows
<1> QED BY <1>1, <1>3, <1>4, <1>5, <1>6, <1>7, <1>8, <1>9
  DEF AlertNext, MonitorStep, CheckAbstainDigest, CheckAbstainRate, CheckSignalDrought,
    CheckNavDrop, CheckCoinbase, CheckAlpaca, Aside

\* Whatever crashes, fails to send or recovers and comes back, the operator is
\* not told the same again within the window of the check: for every order of
\* the checks, every grace and every window.
THEOREM AlertsSpaced == AlertSpec => AlertsAreSpaced
<1>1. AlertInit => IdleChecks
  BY DEF AlertInit, IdleChecks
<1>2. Late => [\A c \in Check \ {"sharpe"} :
                 (told[c] # None /\ told'[c] = 0 /\ told[c] # 0) => told[c] >= Dedup]_alertVars
  BY DEF Late, Spaced
<1>3. AlertInv /\ IdleChecks /\ [AlertNext]_alertVars
        => AlertInv' /\ IdleChecks'
           /\ [\A c \in Check \ {"sharpe"} :
                 (told[c] # None /\ told'[c] = 0 /\ told[c] # 0) => told[c] >= Dedup]_alertVars
  BY <1>2, AlertStep, IdleChecksNext
<1> QED BY <1>1, <1>3, AlertInvInit, PTL DEF AlertSpec, AlertsAreSpaced
=============================================================================
