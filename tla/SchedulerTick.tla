---------------------------- MODULE SchedulerTick ----------------------------
(***************************************************************************)
(* A scheduler tick.  Its first phase asks: is the engine there, is it     *)
(* halted, can the halt be healed, is there a short, may it trade live?    *)
(* The later phases follow in a fixed order, each on that answer and each  *)
(* with its own catch.                                                     *)
(*                                                                         *)
(* The engine halts itself on a drift between its book and the broker's.   *)
(* A drift the broker's side explains is adopted at once; a position only  *)
(* the engine knows (a phantom) is adopted after two halted ticks name it, *)
(* if it is small.  An engine that does not answer is restarted, again     *)
(* after a cooldown.  The bot keeps all of this in memory.                 *)
(***************************************************************************)
EXTENDS Integers, FiniteSets

CONSTANTS
  Asset,          \* assets a drift can be about
  ConfirmTicks,   \* PHANTOM_CONFIRM_TICKS
  Cooldown,       \* ENGINE_RESTART_COOLDOWN_MS, in units of time
  Mode,           \* alpaca_mode: paper or live
  MaxFaults       \* bound on failed requests, failed restarts and bot restarts

ASSUME TickAssumption ==
  /\ ConfirmTicks \in Nat \ {0}
  /\ Cooldown \in Nat \ {0}
  /\ Mode \in {"paper", "live"}
  /\ MaxFaults \in Nat

Never == -1
Drift == {"none", "broker", "phantom", "odd"}   \* odd: no pattern matches

VARIABLES
  \* the engine
  answers,      \* the process serves requests
  asked,        \* the bot asked for a restart of the engine
  drift,        \* drift[a]: how the books differ
  halted,       \* reconciler_halted
  reason,       \* halt_reason: the drifts at the last comparison
  large,        \* assets worth more than PHANTOM_HEAL_MAX_USD
  \* the bot, in memory
  alertSent,    \* _haltAlertSent
  confirm,      \* _phantomConfirm
  restartAge,   \* age of _lastEngineRestartMs; Never when it is 0
  \* the tick
  step,         \* idle, ping, health, heal, safety, or the later phase that is next
  todo,         \* assets still to adopt in this tick
  blocked,      \* entriesBlocked
  seenHalt,     \* reconcilerHalted
  \* history
  named,        \* phantoms the last halted health reply named
  namedBefore,  \* and those the halted reply before it named
  sawShort,     \* this tick saw an unexpected short
  faults        \* faults so far

engineVars == <<answers, asked, drift, halted, reason, large>>
memoryVars == <<alertSent, confirm, restartAge>>
tickVars == <<step, todo, blocked, seenHalt, sawShort>>
namedVars == <<named, namedBefore>>
schedVars == <<engineVars, memoryVars, tickVars, namedVars, faults>>

\* The later phases and what each is followed by: poll, reconcile and
\* retry; dispatch; close-out and exits; reports, alerts and scorecards.
Following == [orders |-> "entries", entries |-> "exits", exits |-> "reports", reports |-> "idle"]
Phases == DOMAIN Following

TickTypeOK ==
  /\ answers \in BOOLEAN /\ asked \in BOOLEAN
  /\ drift \in [Asset -> Drift]
  /\ halted \in BOOLEAN
  /\ reason \in [Asset -> Drift]
  /\ large \subseteq Asset
  /\ alertSent \in BOOLEAN
  /\ confirm \in [Asset -> 0..ConfirmTicks]
  /\ restartAge \in -1..Cooldown
  /\ step \in {"idle", "ping", "health", "heal", "safety"} \cup Phases
  /\ todo \subseteq Asset
  /\ blocked \in BOOLEAN /\ seenHalt \in BOOLEAN /\ sawShort \in BOOLEAN
  /\ named \subseteq Asset /\ namedBefore \subseteq Asset
  /\ faults \in 0..MaxFaults

NoDrift == [a \in Asset |-> "none"]
NoCount == [a \in Asset |-> 0]

TickInit ==
  /\ answers = TRUE /\ asked = FALSE
  /\ drift = NoDrift /\ halted = FALSE /\ reason = NoDrift
  /\ large \in SUBSET Asset
  /\ alertSent = FALSE /\ confirm = NoCount /\ restartAge = Never
  /\ step = "idle" /\ todo = {} /\ blocked = TRUE /\ seenHalt = FALSE /\ sawShort = FALSE
  /\ named = {} /\ namedBefore = {}
  /\ faults = 0

Fault == faults < MaxFaults /\ faults' = faults + 1

-----------------------------------------------------------------------------
(* The engine and the broker.                                              *)

DriftChanges(a, kind) ==
  /\ drift[a] # kind
  /\ drift' = [drift EXCEPT ![a] = kind]
  /\ UNCHANGED <<answers, asked, halted, reason, large, memoryVars, tickVars, namedVars, faults>>

\* The engine compares its book with the broker's and halts on any drift.
EngineReconciles ==
  /\ answers
  /\ halted' = (drift # NoDrift)
  /\ reason' = drift
  /\ UNCHANGED <<answers, asked, drift, large, memoryVars, tickVars, namedVars, faults>>

EngineWedges ==
  /\ answers
  /\ answers' = FALSE
  /\ UNCHANGED <<asked, drift, halted, reason, large, memoryVars, tickVars, namedVars, faults>>

EngineComesBack ==
  /\ asked /\ ~answers
  /\ answers' = TRUE /\ asked' = FALSE
  /\ UNCHANGED <<drift, halted, reason, large, memoryVars, tickVars, namedVars, faults>>

RestartDoesNotTake ==
  /\ asked /\ ~answers
  /\ Fault
  /\ asked' = FALSE
  /\ UNCHANGED <<answers, drift, halted, reason, large, memoryVars, tickVars, namedVars>>

TimeGoesOn ==
  /\ restartAge \in 0..(Cooldown - 1)
  /\ restartAge' = restartAge + 1
  /\ UNCHANGED <<engineVars, alertSent, confirm, tickVars, namedVars, faults>>

\* what a tick finds out about the engine is gone with it
Forgotten == todo' = {} /\ blocked' = TRUE /\ seenHalt' = FALSE /\ sawShort' = FALSE

\* The bot starts anew, in the middle of a tick or between two.
BotStarts ==
  /\ Fault
  /\ alertSent' = FALSE /\ confirm' = NoCount /\ restartAge' = Never
  /\ named' = {} /\ namedBefore' = {}
  /\ step' = "idle"
  /\ Forgotten
  /\ UNCHANGED engineVars

-----------------------------------------------------------------------------
(* runTraderTick, phase 0.                                                 *)

\* _tickInProgress: a tick starts only when the last one is over.
StartHealth ==
  /\ step = "idle"
  /\ step' = "ping"
  /\ UNCHANGED <<engineVars, memoryVars, todo, blocked, seenHalt, sawShort, namedVars, faults>>

\* mutant: one restart per outage
RestartDueOnce == restartAge = Never

RestartDue == restartAge = Never \/ restartAge >= Cooldown

\* The catch block: the halt the bot knew of stays.
PingFails ==
  /\ step = "ping" /\ ~answers
  /\ seenHalt' = alertSent
  /\ IF RestartDue
       THEN restartAge' = 0 /\ asked' = TRUE
       ELSE UNCHANGED <<restartAge, asked>>
  /\ step' = "orders"
  /\ UNCHANGED <<answers, drift, halted, reason, large, alertSent, confirm>>
  /\ UNCHANGED <<todo, blocked, sawShort, namedVars, faults>>

\* The next request follows at once; the answer to it is not lost as well.
PingAnswers ==
  /\ step = "ping" /\ answers
  /\ step' = "health"
  /\ restartAge' = Never
  /\ UNCHANGED <<engineVars, alertSent, confirm, todo, blocked, seenHalt, sawShort>>
  /\ UNCHANGED <<namedVars, faults>>

\* getHealth returns null: nothing is known, entries stay blocked.
HealthUnknown ==
  /\ step = "health"
  /\ Fault
  /\ step' = "orders"
  /\ UNCHANGED <<engineVars, memoryVars, todo, blocked, seenHalt, sawShort, namedVars>>

HealthClear ==
  /\ step = "health" /\ ~halted
  /\ blocked' = (Mode # "paper")
  /\ alertSent' = FALSE /\ confirm' = NoCount
  /\ named' = {} /\ namedBefore' = {}
  /\ step' = "safety"
  /\ UNCHANGED <<engineVars, restartAge, todo, seenHalt, sawShort, faults>>

Phantoms == {a \in Asset : reason[a] = "phantom"}
BrokerOnly == {a \in Asset : reason[a] = "broker"}

NextCount(a) == IF confirm[a] < ConfirmTicks THEN confirm[a] + 1 ELSE confirm[a]

\* mutant: an asset no longer named keeps its count
ConfirmedKept == [a \in Asset |-> IF a \in Phantoms THEN NextCount(a) ELSE confirm[a]]

\* Assets not named any more drop out.
Confirmed == [a \in Asset |-> IF a \in Phantoms THEN NextCount(a) ELSE 0]

\* priced: the market values could be read
BlockedPhantoms(priced) ==
  {a \in Phantoms : Confirmed[a] < ConfirmTicks \/ a \in large \/ ~priced}

Healable(priced) == BrokerOnly \cup (Phantoms \ BlockedPhantoms(priced))

HealthHalted(priced) ==
  /\ step = "health" /\ halted
  /\ IF priced THEN UNCHANGED faults ELSE Fault
  /\ blocked' = (Mode # "paper")
  /\ seenHalt' = TRUE
  /\ confirm' = Confirmed
  /\ named' = Phantoms /\ namedBefore' = named
  /\ IF BlockedPhantoms(priced) = {} /\ Healable(priced) # {}
       THEN todo' = Healable(priced) /\ step' = "heal" /\ UNCHANGED alertSent
       ELSE alertSent' = TRUE /\ step' = "safety" /\ UNCHANGED todo
  /\ UNCHANGED <<engineVars, restartAge, sawShort>>

\* adoptBrokerPosition, one asset after the other
Adopt(a) ==
  /\ step = "heal" /\ a \in todo /\ answers
  /\ drift' = [drift EXCEPT ![a] = "none"]
  /\ todo' = todo \ {a}
  /\ UNCHANGED <<answers, asked, halted, reason, large, memoryVars, step, blocked>>
  /\ UNCHANGED <<seenHalt, sawShort, namedVars, faults>>

ClearHalt ==
  /\ step = "heal" /\ todo = {} /\ answers
  /\ halted' = FALSE
  /\ seenHalt' = FALSE /\ alertSent' = FALSE /\ confirm' = NoCount
  /\ named' = {} /\ namedBefore' = {}
  /\ step' = "safety"
  /\ UNCHANGED <<answers, asked, drift, reason, large, restartAge, todo, blocked, sawShort>>
  /\ UNCHANGED faults

\* A request fails half way: some assets are adopted, the halt stays.
HealFails ==
  /\ step = "heal"
  /\ IF answers THEN Fault ELSE UNCHANGED faults
  /\ alertSent' = TRUE
  /\ todo' = {} /\ step' = "safety"
  /\ UNCHANGED <<engineVars, confirm, restartAge, blocked, seenHalt, sawShort>>
  /\ UNCHANGED namedVars

\* The long-only check on the positions, if they can be read; then the mode:
\* a live engine is left to the gate alone.
Safety ==
  /\ step = "safety"
  /\ \E readable, short, authorized \in BOOLEAN :
       /\ sawShort' = (readable /\ short)
       /\ blocked' = IF Mode = "live" THEN ~authorized ELSE blocked \/ ~readable \/ short
  /\ step' = "orders"
  /\ UNCHANGED <<engineVars, memoryVars, todo, seenHalt, namedVars, faults>>

-----------------------------------------------------------------------------
(* The later phases.                                                       *)

\* A halt keeps orders in both directions back; entries also need an account
\* that was seen without a short and may be traded.
EntriesRun == step \in {"orders", "entries"} /\ ~seenHalt /\ ~blocked
ExitsRun == step = "exits" /\ ~seenHalt /\ answers

\* Each phase catches what it throws: the next one follows in any case.
NextPhase ==
  /\ step \in Phases \ {"reports"}
  /\ step' = Following[step]
  /\ UNCHANGED <<engineVars, memoryVars, todo, blocked, seenHalt, sawShort, namedVars, faults>>

\* The reports are out and the lock is free again.
EndTick ==
  /\ step = "reports"
  /\ step' = Following[step]
  /\ Forgotten
  /\ UNCHANGED <<engineVars, memoryVars, namedVars, faults>>

-----------------------------------------------------------------------------
TickStep ==
  \/ PingFails \/ PingAnswers
  \/ HealthUnknown \/ HealthClear \/ (\E priced \in BOOLEAN : HealthHalted(priced))
  \/ (\E a \in Asset : Adopt(a)) \/ ClearHalt \/ HealFails
  \/ Safety \/ NextPhase \/ EndTick

TickNext ==
  \/ \E a \in Asset, kind \in Drift : DriftChanges(a, kind)
  \/ EngineReconciles \/ EngineWedges \/ EngineComesBack \/ RestartDoesNotTake
  \/ TimeGoesOn \/ BotStarts
  \/ StartHealth \/ TickStep

TickSpec == TickInit /\ [][TickNext]_schedVars

\* setInterval ticks for ever and a tick comes to its end; the engine
\* compares its books while it answers; a restart takes, or fails for good.
TickFair ==
  /\ WF_schedVars(TimeGoesOn)
  /\ WF_schedVars(StartHealth \/ TickStep)
  /\ WF_schedVars(EngineReconciles)
  /\ WF_schedVars(EngineComesBack)

-----------------------------------------------------------------------------
(* Properties *)

\* A holding the broker under-reports once is never written off: a phantom
\* is adopted only if the last halted health reply before this one named it
\* too, and never when it is large.
PhantomIsConfirmed ==
  [][\A a \in Asset :
       (step' = "heal" /\ a \in todo \ todo' /\ a \in named)
         => a \in namedBefore \ large]_schedVars

Adoptable ==
  \A a \in Asset : drift[a] \in {"none", "broker"} \/ (drift[a] = "phantom" /\ a \notin large)

\* While the bot ticks, after the engine's last hang and the last drift, and
\* if the bot may adopt what drift is left, phantoms after their two ticks
\* included: the engine is restarted until a restart takes, the halt is
\* cleared without an operator, and the exit sweep runs again and again, on
\* ticks that saw no halt.
TradingResumes ==
  (/\ []<>(step = "ping")
   /\ <>[][~(answers /\ ~answers')]_schedVars
   /\ <>[][drift' = drift \/ step = "heal"]_schedVars
   /\ <>[]Adoptable)
    => []<>(answers /\ ~halted) /\ []<>ExitsRun

\* While a tick knows of an unexpected short, no entry leaves the bot: the
\* alert of that tick says that new entries are blocked.
ShortBlocksEntries == sawShort => ~EntriesRun
=============================================================================
