------------------------------- MODULE Notices -------------------------------
(***************************************************************************)
(* What the bot tells its operators: the digest of routine lines and the   *)
(* alert about an unexpected short.                                        *)
(*                                                                         *)
(* Both keep a durable mark - the time of the last digest, the fingerprint *)
(* of the short - and send around it.  The digest writes its mark first    *)
(* and deletes its lines last; the alert is marked after the message.      *)
(* Lines keep arriving while a digest is sent, to one operator after the   *)
(* other, and the process may stop anywhere.  The wall clock that orders   *)
(* the lines may be set back.                                              *)
(***************************************************************************)
EXTENDS Integers, FiniteSets, FiniteSetsExt

CONSTANTS
  Operator,     \* operator chat ids
  MaxLines,     \* bound on the routine lines
  MaxClock,     \* bound on the wall clock of the lines
  Exposure,     \* the unexpected shorts the broker may show
  MaxStops      \* bound on the stops of the process

ASSUME NoticeAssumption ==
  /\ MaxLines \in Nat /\ MaxClock \in Nat /\ MaxStops \in Nat

Flat == "flat"   \* no unexpected short

VARIABLES
  \* digest
  written,      \* lines so far: ids 1..written
  stamp,        \* created_at of a line
  buffer,       \* trader_digest_buffer
  slotOpen,     \* the hour is one of DIGEST_HOURS
  slotUsed,     \* the last fire lies within MIN_GAP_MS of this slot
  taken,        \* rows of the digest under way; {} when none is
  unsent,       \* operators the digest has still to go to
  tried,        \* tried[op]: lines that were sent to op, delivered or not
  \* short alert
  short,        \* what the broker shows: an exposure, or flat
  paging,       \* the exposure being sent
  paged,        \* fingerprint stored; flat when there is none
  toldShort,    \* what the operators were told since the account was last seen flat
  stops         \* stops of the process

digestVars == <<written, stamp, buffer, slotOpen, slotUsed, taken, unsent, tried>>
shortVars == <<short, paging, paged, toldShort>>
noticeVars == <<digestVars, shortVars, stops>>

Lines == 1..MaxLines

NoticeTypeOK ==
  /\ written \in 0..MaxLines
  /\ stamp \in [Lines -> 0..MaxClock]
  /\ buffer \subseteq 1..written
  /\ slotOpen \in BOOLEAN /\ slotUsed \in BOOLEAN
  /\ taken \subseteq 1..written
  /\ unsent \subseteq Operator
  /\ tried \in [Operator -> SUBSET (1..written)]
  /\ short \in Exposure \cup {Flat}
  /\ paging \in Exposure \cup {Flat}
  /\ paged \in Exposure \cup {Flat}
  /\ toldShort \in Exposure \cup {Flat}
  /\ stops \in 0..MaxStops

NoticeInit ==
  /\ written = 0 /\ stamp = [l \in Lines |-> 0] /\ buffer = {}
  /\ slotOpen = FALSE /\ slotUsed = FALSE
  /\ taken = {} /\ unsent = {} /\ tried = [op \in Operator |-> {}]
  /\ short = Flat /\ paging = Flat /\ paged = Flat /\ toldShort = Flat
  /\ stops = 0

-----------------------------------------------------------------------------
(* The digest.                                                             *)

\* makeDigestingSend with a routine line; issues are sent at once.
WriteLine(t) ==
  /\ written < MaxLines
  /\ written' = written + 1
  /\ stamp' = [stamp EXCEPT ![written + 1] = t]
  /\ buffer' = buffer \cup {written + 1}
  /\ UNCHANGED <<slotOpen, slotUsed, taken, unsent, tried, shortVars, stops>>

SlotOpens ==
  /\ ~slotOpen
  /\ slotOpen' = TRUE /\ slotUsed' = FALSE
  /\ UNCHANGED <<written, stamp, buffer, taken, unsent, tried, shortVars, stops>>

SlotCloses ==
  /\ slotOpen
  /\ slotOpen' = FALSE
  /\ UNCHANGED <<written, stamp, buffer, slotUsed, taken, unsent, tried>>
  /\ UNCHANGED <<shortVars, stops>>

\* maybeFireTraderDigest up to the send; an empty buffer uses the slot too.
BeginDigest ==
  /\ slotOpen /\ ~slotUsed
  /\ taken = {}
  /\ slotUsed' = TRUE
  /\ taken' = buffer
  /\ unsent' = IF buffer = {} THEN {} ELSE Operator
  /\ UNCHANGED <<written, stamp, buffer, slotOpen, tried, shortVars, stops>>

\* makeOperatorSend: one recipient after the other; a failure goes on.
SendDigest(op) ==
  /\ op \in unsent
  /\ unsent' = unsent \ {op}
  /\ tried' = [tried EXCEPT ![op] = @ \cup taken]
  /\ UNCHANGED <<written, stamp, buffer, slotOpen, slotUsed, taken, shortVars, stops>>

\* ORDER BY created_at, and rows of one stamp in the order of their ids
After(k, l) == stamp[k] > stamp[l] \/ (stamp[k] = stamp[l] /\ k > l)
LastTaken == CHOOSE l \in taken : \A k \in taken \ {l} : After(l, k)

\* mutant: the whole buffer is deleted
SummarisedAll == buffer

\* DELETE ... WHERE id <= maxId
Summarised == {l \in buffer : l <= LastTaken}

EndDigest ==
  /\ taken # {} /\ unsent = {}
  /\ buffer' = buffer \ Summarised
  /\ taken' = {}
  /\ UNCHANGED <<written, stamp, slotOpen, slotUsed, unsent, tried, shortVars, stops>>

-----------------------------------------------------------------------------
(* notifyUnexpectedShortPositions, called one after the other in a tick.   *)

ShortMoves(s) ==
  /\ short # s
  /\ short' = s
  /\ UNCHANGED <<digestVars, paging, paged, toldShort, stops>>

\* mutant: a flat account does not rearm the alert
SeeFlatKept ==
  /\ short = Flat /\ paging = Flat
  /\ toldShort' = Flat
  /\ UNCHANGED <<digestVars, short, paging, paged, stops>>

SeeFlat ==
  /\ short = Flat /\ paging = Flat
  /\ paged' = Flat /\ toldShort' = Flat
  /\ UNCHANGED <<digestVars, short, paging, stops>>

SeeShort ==
  /\ short # Flat /\ paging = Flat
  /\ paged # short
  /\ paging' = short
  /\ UNCHANGED <<digestVars, short, paged, toldShort, stops>>

\* the alert goes out, then the fingerprint is stored
SendShort ==
  /\ paging # Flat
  /\ toldShort' = paging
  /\ paged' = paging
  /\ paging' = Flat
  /\ UNCHANGED <<digestVars, short, stops>>

-----------------------------------------------------------------------------
\* the short alert was sent, its fingerprint is not stored
StopInShort ==
  /\ paging # Flat
  /\ toldShort' = paging

\* Whatever was in flight is gone; the durable marks stay.
ProcessStops ==
  /\ stops < MaxStops
  /\ stops' = stops + 1
  /\ taken' = {} /\ unsent' = {} /\ paging' = Flat
  /\ StopInShort \/ UNCHANGED toldShort
  /\ UNCHANGED <<written, stamp, buffer, slotOpen, slotUsed, tried, short, paged>>

-----------------------------------------------------------------------------
DigestNext ==
  \/ \E t \in 0..MaxClock : WriteLine(t)
  \/ SlotOpens \/ SlotCloses \/ BeginDigest \/ EndDigest
  \/ \E op \in Operator : SendDigest(op)

ShortNext ==
  \/ \E s \in Exposure \cup {Flat} : ShortMoves(s)
  \/ SeeFlat \/ SeeShort \/ SendShort

NoticeNext == DigestNext \/ ShortNext \/ ProcessStops

NoticeSpec == NoticeInit /\ [][NoticeNext]_noticeVars

\* Slots come again; a tick falls into one of them; sends come to an end.
DigestFair ==
  /\ WF_noticeVars(SlotOpens) /\ WF_noticeVars(SlotCloses)
  /\ SF_noticeVars(BeginDigest)
  /\ \A op \in Operator : WF_noticeVars(SendDigest(op))
  /\ WF_noticeVars(EndDigest)

\* Every tick looks at the positions, and a message gets through.
ShortFair ==
  /\ WF_noticeVars(SeeFlat) /\ WF_noticeVars(SeeShort) /\ WF_noticeVars(SendShort)

-----------------------------------------------------------------------------
(* Properties *)

\* A line leaves the buffer only after a digest that holds it went to every
\* operator: lines written during the send, a stop at any point and a clock
\* set back never make maybeFireTraderDigest delete what it did not send.
NoLineIsLost ==
  \A l \in 1..written, op \in Operator : l \notin buffer => l \in tried[op]

\* Every line is summarised sooner or later, though a stop after the mark
\* was written costs the whole slot.
EveryLineIsSent ==
  \A l \in Lines, op \in Operator : l <= written ~> l \in tried[op]

\* The operators learn of an unexpected short that lasts, also after an
\* earlier one was covered and the same one opened again, and across stops.
LastingShortIsTold ==
  \A e \in Exposure : <>[](short = e) => <>[](toldShort = e)
=============================================================================
