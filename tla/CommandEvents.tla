--------------------------- MODULE CommandEvents ---------------------------
(***************************************************************************)
(* The event log in the command plugin.  The first query of a series takes *)
(* the latest rows; each later one the rows with a newer time stamp, whose *)
(* unit is a second.  All rows read are kept in one list, which a shorter  *)
(* one replaces when it has grown to twice the row limit.                  *)
(***************************************************************************)
EXTENDS Integers, Sequences, FiniteSets, Functions

CONSTANTS
  EventRowLimit,  \* _eventRowLimit
  MaxEvents,      \* bound: events logged
  MaxSeconds,     \* bound: the clock
  MaxCloses       \* bound: times the last session closes

ASSUME EventRowLimitAssumption == EventRowLimit \in Nat

VARIABLES
  eventLog,     \* the table: <<second, number>> of each event, in order (external)
  second,       \* the clock of the database
  lastEventTime,  \* _lastEventTime, or 0
  eventsJSON, eventsNextFull,    \* _eventsJSON, _eventsNextFullJSON
  fullCount, nextFullCount,      \* _eventsFullCount, _eventsNextFullCount
  eventsUpdates,  \* _eventsUpdatesJSON
  read,         \* events read since the last session closed
  excused,      \* events older than the first query's rows, or logged in the newest
                \* second read, after it was read
  logged, closes

eventVars == <<eventLog, second, lastEventTime, eventsJSON, eventsNextFull, fullCount,
               nextFullCount, eventsUpdates, read, excused, logged, closes>>

EventsInit ==
  /\ eventLog = <<>> /\ second = 1
  /\ lastEventTime = 0
  /\ eventsJSON = <<>> /\ eventsNextFull = <<>> /\ eventsUpdates = <<>>
  /\ fullCount = 0 /\ nextFullCount = 0
  /\ read = {} /\ excused = {}
  /\ logged = 0 /\ closes = 0

AnEvent ==
  /\ logged < MaxEvents /\ logged' = logged + 1
  /\ eventLog' = Append(eventLog, <<second, logged'>>)
  /\ excused' = IF second = lastEventTime THEN excused \cup {<<second, logged'>>} ELSE excused
  /\ UNCHANGED <<second, lastEventTime, eventsJSON, eventsNextFull, fullCount, nextFullCount,
                 eventsUpdates, read, closes>>

ASecond ==
  /\ second < MaxSeconds /\ second' = second + 1
  /\ UNCHANGED <<eventLog, lastEventTime, eventsJSON, eventsNextFull, fullCount, nextFullCount,
                 eventsUpdates, read, excused, logged, closes>>

----------------------------------------------------------------------------

\* Rows are added in order of time: the newer ones are the last.
FirstSince ==
  CHOOSE i \in 1 .. Len(eventLog) + 1 :
    \A j \in DOMAIN eventLog : eventLog[j][1] > lastEventTime <=> j >= i

FirstOfLatest == IF Len(eventLog) > EventRowLimit THEN Len(eventLog) - EventRowLimit + 1 ELSE 1

\* Mutant: every query has the row limit.
EventsSinceLimited ==
  SubSeq(eventLog, IF FirstSince > FirstOfLatest THEN FirstSince ELSE FirstOfLatest, Len(eventLog))

EventsSince == SubSeq(eventLog, FirstSince, Len(eventLog))

LatestEvents == SubSeq(eventLog, FirstOfLatest, Len(eventLog))

\* TmxControl::events
Events == IF lastEventTime # 0 THEN EventsSince ELSE LatestEvents

\* Once the list is full, what is read is also kept for the list after it.
KeptForNext(new) == IF fullCount >= EventRowLimit THEN new ELSE <<>>

GetEventTelemetry ==
  LET new == Events
      next == eventsNextFull \o KeptForNext(new)
      nextCount == nextFullCount + Len(KeptForNext(new))
  IN
  /\ eventsUpdates' = new
  /\ IF new = <<>>
     THEN UNCHANGED <<lastEventTime, eventsJSON, eventsNextFull, fullCount, nextFullCount>>
     ELSE /\ lastEventTime' = new[Len(new)][1]
          /\ IF fullCount >= 2 * EventRowLimit
             THEN /\ eventsJSON' = next /\ fullCount' = nextCount
                  /\ eventsNextFull' = <<>> /\ nextFullCount' = 0
             ELSE /\ eventsJSON' = eventsJSON \o new /\ fullCount' = fullCount + Len(new)
                  /\ eventsNextFull' = next /\ nextFullCount' = nextCount
  /\ read' = read \cup Range(new)
  /\ excused' = IF lastEventTime = 0 THEN Range(eventLog) \ Range(new) ELSE excused
  /\ UNCHANGED <<eventLog, second, logged, closes>>

\* The clearlog command: the rows and the lists go, the last time stays.
ClearLog ==
  /\ eventLog # <<>>
  /\ eventLog' = <<>> /\ eventsJSON' = <<>> /\ eventsUpdates' = <<>>
  /\ UNCHANGED <<second, lastEventTime, eventsNextFull, fullCount, nextFullCount, read, excused, logged,
                 closes>>

\* The last session closes: the counts and the next list stay.
LastSessionCloses ==
  /\ closes < MaxCloses /\ closes' = closes + 1
  /\ lastEventTime' = 0 /\ eventsJSON' = <<>> /\ eventsUpdates' = <<>>
  /\ read' = {} /\ excused' = {}
  /\ UNCHANGED <<eventLog, second, eventsNextFull, fullCount, nextFullCount, logged>>

EventsNext == AnEvent \/ ASecond \/ GetEventTelemetry \/ ClearLog \/ LastSessionCloses

EventsSpec == EventsInit /\ [][EventsNext]_eventVars

----------------------------------------------------------------------------
(* Properties *)

\* Whatever the log holds up to the last time read was read, but for events of that very
\* second that were logged after the query, and the rows of the first query beyond its
\* limit.
NoneSkipped ==
  \A e \in Range(eventLog) : e[1] <= lastEventTime => e \in read \cup excused
=============================================================================
