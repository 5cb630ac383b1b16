--------------------------- MODULE BroadcastRate ---------------------------
(***************************************************************************)
(* MessageIntervalValidator: the intervals between the messages of one     *)
(* kind, measured on a clock that may step back.  An interval over the     *)
(* threshold is a violation; violations are counted into windows, and a    *)
(* window that has ended is reported when the next message arrives.        *)
(***************************************************************************)
EXTENDS Naturals

CONSTANTS
  Threshold,       \* _thresholdMs
  WindowDuration,  \* BroadcastRateTimeWindow
  RateSources,     \* intersection ids
  MaxClock,        \* bound: the clock
  MaxArrivals,     \* bound: messages
  MaxStepBacks     \* bound: how often the clock steps back

NoSource == 0

VARIABLES
  rateNow,     \* the clock
  lastAt,      \* _lastTimestampMs, 0 before the first message
  window,      \* the open window; open = FALSE if there is none
  violations,  \* _totalViolations
  reported,    \* violations in reported windows
  arrivals,    \* messages so far (bound)
  stepBacks,   \* steps back so far (bound)
  since        \* messages since the window was opened, and the clock at its violations

rateVars == <<rateNow, lastAt, window, violations, reported, arrivals, stepBacks, since>>

NoWindow == [open |-> FALSE, start |-> 0, end |-> 0, violations |-> 0, messages |-> 0,
           source |-> NoSource, mismatch |-> FALSE]

RateInit ==
  /\ rateNow = 1 /\ lastAt = 0 /\ window = NoWindow
  /\ violations = 0 /\ reported = 0 /\ arrivals = 0 /\ stepBacks = 0
  /\ since = [messages |-> 0, at |-> {}]

\* evaluateMessageInterval, for a clock that did not step back.
Violation == lastAt # 0 /\ rateNow - lastAt > Threshold

Opened(source) ==
  [open |-> TRUE, start |-> rateNow, end |-> rateNow + WindowDuration, violations |-> 1,
   messages |-> 1, source |-> source, mismatch |-> FALSE]

\* Mutant: a violation that ends a window is not counted into a new one.
CountedUnlessEnding(w, source) ==
  IF ~Violation THEN (IF w.open THEN [w EXCEPT !.messages = @ + 1] ELSE w)
  ELSE IF w.open THEN [w EXCEPT !.violations = @ + 1, !.messages = @ + 1,
                                !.mismatch = @ \/ source # w.source]
  ELSE IF window.open THEN w
  ELSE Opened(source)

\* The message counted into the window that is open after the ended one was closed.
Counted(w, source) ==
  IF ~Violation THEN (IF w.open THEN [w EXCEPT !.messages = @ + 1] ELSE w)
  ELSE IF w.open THEN [w EXCEPT !.violations = @ + 1, !.messages = @ + 1,
                                !.mismatch = @ \/ source # w.source]
  ELSE Opened(source)

Ended == window.open /\ rateNow >= window.end

\* recordMessage.  After a step back the interval is not measured, and the message is
\* counted nowhere; only the time base is accepted.
RecordMessage(source) ==
  LET w == IF Ended THEN NoWindow ELSE window
  IN /\ arrivals < MaxArrivals
     /\ arrivals' = arrivals + 1
     /\ lastAt' = rateNow
     /\ IF rateNow < lastAt
        THEN UNCHANGED <<window, violations, reported, since>>
        ELSE /\ window' = Counted(w, source)
             /\ violations' = violations + (IF Violation THEN 1 ELSE 0)
             /\ reported' = reported + (IF Ended THEN window.violations ELSE 0)
             /\ since' = LET s == IF w.open THEN since ELSE [messages |-> 0, at |-> {}]
                         IN [messages |-> IF w.open \/ Violation THEN s.messages + 1 ELSE 0,
                             at |-> IF Violation THEN s.at \cup {rateNow} ELSE s.at]
     /\ UNCHANGED <<rateNow, stepBacks>>

RateTick ==
  /\ rateNow < MaxClock
  /\ rateNow' = rateNow + 1
  /\ UNCHANGED <<lastAt, window, violations, reported, arrivals, stepBacks, since>>

StepBack(t) ==
  /\ stepBacks < MaxStepBacks /\ t < rateNow
  /\ rateNow' = t /\ stepBacks' = stepBacks + 1
  /\ UNCHANGED <<lastAt, window, violations, reported, arrivals, since>>

RateNext ==
  \/ \E source \in RateSources : RecordMessage(source)
  \/ RateTick
  \/ \E t \in 1..MaxClock : StepBack(t)

RateSpec == RateInit /\ [][RateNext]_rateVars

----------------------------------------------------------------------------
\* No violation is lost and none is reported twice, windows closing and opening in the
\* same step and steps of the clock included.
ViolationsConserved ==
  violations = reported + (IF window.open THEN window.violations ELSE 0)

\* An open window holds only violations of its time span, at least the one that opened
\* it, and every message since: as long as the clock does not step back.
WindowSpansItsViolations ==
  window.open /\ stepBacks = 0 =>
    /\ \A t \in since.at : window.start <= t /\ t < window.end
    /\ window.messages = since.messages
=============================================================================
