------------------------------ MODULE Cohorts ------------------------------
(***************************************************************************)
(* The evaluation cohorts of one asset class: a strategy runs on paper     *)
(* under a frozen configuration, its entries are the evidence, and a       *)
(* scorecard decides when it has passed.                                   *)
(*                                                                         *)
(* The bot's tick (dispatch, retry sweep, scorecards), a manual approval   *)
(* and the operator's command line, which is a process of its own, share   *)
(* the tables.  A dispatch is judged against the cohort before the         *)
(* committee and the engine are awaited, and recorded after.               *)
(***************************************************************************)
EXTENDS Integers, FiniteSets

CONSTANTS
  Strategy,     \* the strategies of the class
  Seeded,       \* those seeded as active
  Cohort,       \* the cohorts an operator creates
  StrategyOf,   \* strategy of a cohort
  LimitOf,      \* max_position_usd of a cohort; 0 stands for none
  Params,       \* versions of a strategy's params_json, 1 the first
  Entry,        \* entries dispatched, ids of their decisions
  DailyCap,     \* daily_trade_cap
  SlotCap,      \* COHORT_MAX_CONCURRENT_POSITIONS
  Dispatcher,   \* of "auto" and "manual", those in use
  NoCohort,
  MaxReleases   \* bound on the changes of parameters

ASSUME CohortAssumption ==
  /\ Seeded \subseteq Strategy
  /\ StrategyOf \in [Cohort -> Strategy]
  /\ LimitOf \in [Cohort -> Nat \ {0}]
  /\ NoCohort \notin Cohort \cup Strategy
  /\ 1 \in Params
  /\ Dispatcher \subseteq {"auto", "manual"}
  /\ {DailyCap, SlotCap, MaxReleases} \subseteq Nat

VARIABLES
  params, limit,   \* trader_strategies: params_json and max_size_usd
  active,          \* strategies with status 'active'; the others are paused
  status,          \* trader_evaluation_cohorts.status, "none" before creation
  frozen,          \* parameters in the cohort's fingerprint
  tested,          \* cohorts with a matching backtest recorded
  card,            \* cohorts whose trader_cohort_scorecards row says passed
  enforced,        \* kv_settings 'trader.cohorts.enforced'
  entry,           \* decision rows: [state, cohort, of (strategy), seen, by, today]
  scored,          \* scorecards computed and not yet saved
  releases

cohortVars ==
  <<params, limit, active, status, frozen, tested, card, enforced, entry, scored, releases>>
strategyVars == <<params, limit, releases>>
evidenceVars == <<frozen, tested, card, scored>>

\* No row: not dispatched, abstained, refused or failed.
Unused == [state |-> "none", cohort |-> NoCohort, of |-> NoCohort, seen |-> 0,
           by |-> "auto", today |-> FALSE]

CohortInit ==
  /\ params = [s \in Strategy |-> 1]
  /\ limit = [s \in Strategy |-> 0]
  /\ active = Seeded
  /\ status = [c \in Cohort |-> "none"]
  /\ frozen = [c \in Cohort |-> params[StrategyOf[c]]]
  /\ tested = {}
  /\ card = {}
  /\ enforced = FALSE
  /\ entry = [e \in Entry |-> Unused]
  /\ scored = {}
  /\ releases = 0

-----------------------------------------------------------------------------
(* Reading the tables. *)

SameParams(c) == params[StrategyOf[c]] = frozen[c]

\* mutant: only the size limit is compared
MatchesLimit(c) == limit[StrategyOf[c]] = LimitOf[c]

\* currentFingerprintMatches.
Matches(c) == SameParams(c) /\ limit[StrategyOf[c]] = LimitOf[c]

Running(s) == {c \in Cohort : status[c] = "running" /\ StrategyOf[c] = s}

\* countCohortEntriesToday and countCohortOpenPositions.
EntriesToday(c) ==
  Cardinality({e \in Entry : /\ entry[e].cohort = c /\ entry[e].today
                             /\ entry[e].state \in {"pending", "parked", "open", "closed"}})
OpenPositions(c) ==
  Cardinality({e \in Entry : entry[e].cohort = c /\ entry[e].state \in {"pending", "open"}})

\* mutant: the strategy stays active
PausedNone(cs) == active

\* sweepPendingForPausedStrategy has no more to sweep: a signal is dispatched
\* only while its strategy is active.
Paused(cs) == active \ {StrategyOf[c] : c \in cs}

-----------------------------------------------------------------------------
(* The operator's command line. *)

\* createDraftCohort freezes the parameters of the moment.
CreateDraft(c) ==
  /\ status[c] = "none"
  /\ status' = [status EXCEPT ![c] = "draft"]
  /\ frozen' = [frozen EXCEPT ![c] = params[StrategyOf[c]]]
  /\ UNCHANGED <<strategyVars, active, tested, card, enforced, entry, scored>>

RecordBacktest(c) ==
  /\ status[c] \in {"draft", "running"}
  /\ tested' = tested \cup {c}
  /\ UNCHANGED <<strategyVars, active, status, frozen, card, enforced, entry, scored>>

\* Every sibling without a running cohort of its own is paused.  The engine's
\* answers to the preflight questions are not restricted.
Activate(c) ==
  LET s == StrategyOf[c] IN
  /\ status[c] = "draft" /\ SameParams(c)
  /\ Running(s) = {}
  /\ active' = {t \in active : Running(t) # {}} \cup {s}
  /\ limit' = [limit EXCEPT ![s] = LimitOf[c]]
  /\ status' = [status EXCEPT ![c] = "running"]
  /\ enforced' = TRUE
  /\ UNCHANGED <<params, releases, evidenceVars, entry>>

Invalidate(c) ==
  /\ status' = [status EXCEPT ![c] = "invalidated"]
  /\ active' = Paused({c})
  /\ UNCHANGED <<strategyVars, evidenceVars, enforced>>

OperatorInvalidates(c) ==
  status[c] \notin {"none", "invalidated"} /\ Invalidate(c) /\ UNCHANGED entry

\* A release, or an edit of the table, changes the parameters of a strategy;
\* those of a strategy without cohorts are not read here.
Release(s, p) ==
  /\ releases < MaxReleases /\ p # params[s]
  /\ \E c \in Cohort : StrategyOf[c] = s
  /\ params' = [params EXCEPT ![s] = p]
  /\ releases' = releases + 1
  /\ UNCHANGED <<limit, active, status, evidenceVars, enforced, entry>>

\* The pause button of the dashboard, or the answer "pause" to a signal.
PauseStrategy(s) ==
  /\ active' = active \ {s}
  /\ UNCHANGED <<strategyVars, status, evidenceVars, enforced, entry>>

-----------------------------------------------------------------------------
(* Dispatching an entry. *)

\* What an entry is judged under: no cohort before the first activation.
Admitted(s) ==
  IF ~enforced THEN {NoCohort}
  ELSE {c \in Running(s) : /\ Matches(c)
                           /\ EntriesToday(c) < DailyCap
                           /\ OpenPositions(c) < SlotCap}

\* The automatic dispatcher takes one signal at a time, of an active strategy;
\* any number of approvals may be under way beside it.  Of an entry without a
\* cohort, day and parameters are not asked for again.
Admit(e, s, by) ==
  /\ entry[e].state = "none"
  /\ by = "auto" =>
       /\ s \in active
       /\ \A f \in Entry : entry[f].state = "judged" => entry[f].by = "manual"
  /\ \E c \in Admitted(s) :
       entry' = [entry EXCEPT ![e] =
                   [state |-> "judged", cohort |-> c, of |-> s, by |-> by,
                    seen |-> IF c = NoCohort THEN 0 ELSE params[s],
                    today |-> c # NoCohort]]
  /\ UNCHANGED <<strategyVars, active, status, evidenceVars, enforced>>

\* guardRunningCohort meets a running cohort whose configuration drifted.
GuardInvalidates(c) ==
  /\ enforced /\ status[c] = "running" /\ ~Matches(c)
  /\ Invalidate(c) /\ UNCHANGED entry

\* Committee, sizing and submission are over.  An approval that the engine
\* does not accept leaves no row.
Place(e, outcome) ==
  /\ entry[e].state = "judged"
  /\ outcome = "pending" => entry[e].by = "auto"
  /\ entry' = [entry EXCEPT ![e].state = outcome, ![e].by = "auto"]
  /\ UNCHANGED <<strategyVars, active, status, evidenceVars, enforced>>

\* The rows of a sweep, and what becomes of one.
Due(healthy) ==
  {e \in Entry : entry[e].state = "pending" \/ (healthy /\ entry[e].state = "parked")}
Swept(e, outcome) == IF outcome = "none" THEN Unused ELSE [entry[e] EXCEPT !.state = outcome]

\* runRetrySweep: with a healthy engine the parked rows come back, and are sent
\* again or wait, but not for a strategy that was paused; when the order list
\* cannot be read they are all parked.
RetrySweep(healthy, reached) ==
  /\ Due(healthy) # {}
  /\ \E f \in [Due(healthy) -> IF reached THEN {"pending", "open", "none"} ELSE {"parked"}] :
       /\ \A e \in Due(healthy) : entry[e].of \notin active => f[e] # "open"
       /\ entry' = [e \in Entry |-> IF e \in Due(healthy) THEN Swept(e, f[e]) ELSE entry[e]]
  /\ UNCHANGED <<strategyVars, active, status, evidenceVars, enforced>>

\* No order comes of it, or none is left of it: abstained, refused, unfilled.
Discard(e) ==
  /\ entry[e].state \in {"judged", "open"}
  /\ entry' = [entry EXCEPT ![e] = Unused]
  /\ UNCHANGED <<strategyVars, active, status, evidenceVars, enforced>>

\* The lot is sold; of an entry without a cohort nobody asks again.
Close(e) ==
  /\ entry[e].state = "open"
  /\ entry' = IF entry[e].cohort = NoCohort THEN [entry EXCEPT ![e] = Unused]
              ELSE [entry EXCEPT ![e].state = "closed"]
  /\ UNCHANGED <<strategyVars, active, status, evidenceVars, enforced>>

NewDay ==
  /\ \E e \in Entry : entry[e].today
  /\ entry' = [e \in Entry |-> [entry[e] EXCEPT !.today = FALSE]]
  /\ UNCHANGED <<strategyVars, active, status, evidenceVars, enforced>>

-----------------------------------------------------------------------------
(* Scorecards. *)

\* What a pass needs besides the trades themselves: the frozen configuration,
\* a backtest, and no entry unresolved or open.
Complete(c) ==
  /\ Matches(c) /\ c \in tested
  /\ \A e \in Entry : entry[e].cohort = c => entry[e].state \notin {"pending", "parked", "open"}

\* evaluateCohort over all cohorts; whether the trades are many and good enough
\* is left open.
Score ==
  /\ scored = {}
  /\ LET due == {c \in Cohort : status[c] \in {"running", "passed"}} IN
     /\ due # {}
     /\ \E good \in SUBSET {c \in due : Complete(c)} :
          scored' = {[cohort |-> c, passed |-> c \in good, ran |-> status[c] = "running"] : c \in due}
  /\ UNCHANGED <<strategyVars, active, status, frozen, tested, card, enforced, entry>>

\* The transaction of refreshCohortScorecards.
SaveScores ==
  LET passing == {r.cohort : r \in {q \in scored : q.passed /\ q.ran}}
  IN  /\ scored # {}
      /\ card' = (card \ {r.cohort : r \in scored})
                   \cup {r.cohort : r \in {q \in scored : q.passed}}
      /\ status' = [c \in Cohort |-> IF c \in passing /\ status[c] = "running" THEN "passed"
                                     ELSE status[c]]
      /\ active' = Paused(passing)
      /\ scored' = {}
      /\ UNCHANGED <<strategyVars, frozen, tested, enforced, entry>>

-----------------------------------------------------------------------------
OperatorNext ==
  \/ \E c \in Cohort :
       CreateDraft(c) \/ RecordBacktest(c) \/ Activate(c) \/ OperatorInvalidates(c)
  \/ \E s \in Strategy : PauseStrategy(s) \/ \E p \in Params : Release(s, p)

DispatchNext ==
  \/ \E e \in Entry, s \in Strategy, by \in Dispatcher : Admit(e, s, by)
  \/ \E e \in Entry : Place(e, "pending") \/ Place(e, "open") \/ Discard(e) \/ Close(e)
  \/ \E healthy, reached \in BOOLEAN : RetrySweep(healthy, reached)
  \/ NewDay

CohortNext ==
  \/ OperatorNext \/ DispatchNext \/ Score \/ SaveScores
  \/ \E c \in Cohort : GuardInvalidates(c)

CohortSpec == CohortInit /\ [][CohortNext]_cohortVars

-----------------------------------------------------------------------------
(* Properties. *)

CohortTypeOK ==
  /\ params \in [Strategy -> Params]
  /\ limit \in [Strategy -> Nat]
  /\ active \subseteq Strategy
  /\ status \in [Cohort -> {"none", "draft", "running", "invalidated", "passed"}]
  /\ frozen \in [Cohort -> Params]
  /\ tested \subseteq Cohort
  /\ card \subseteq Cohort
  /\ enforced \in BOOLEAN
  /\ entry \in [Entry -> [state : {"none", "judged", "pending", "parked", "open", "closed"},
                          cohort : Cohort \cup {NoCohort}, of : Strategy \cup {NoCohort},
                          seen : Params \cup {0}, by : Dispatcher \cup {"auto"}, today : BOOLEAN]]
  /\ scored \subseteq [cohort : Cohort, passed : BOOLEAN, ran : BOOLEAN]
  /\ releases \in 0..MaxReleases

\* Once cohorts are enforced, a strategy that is active is being evaluated:
\* passing, invalidating and the activation of a sibling all pause.
ActiveIsEvaluated == enforced => \A s \in active : Cardinality(Running(s)) = 1

\* Whatever happens to the strategy between, an entry counts as evidence of a
\* cohort only when it was judged under the parameters the cohort froze.
EvidenceIsFrozen ==
  \A e \in Entry : entry[e].cohort # NoCohort => entry[e].seen = frozen[entry[e].cohort]

\* decision-dispatcher.ts says of a cohort's positions that more than the
\* backtest's slots "would be leverage it never had".
SlotCapHolds ==
  \A c \in Cohort : Cardinality({e \in Entry : entry[e].cohort = c /\ entry[e].state = "open"}) <= SlotCap
=============================================================================
