------------------------- MODULE RevisionValidation -------------------------
(***************************************************************************)
(* IntersectionValidationPlugin: every SPaT and MAP message is compared    *)
(* with the last one of the same intersection, its revision counters are   *)
(* judged by the CTI 4501 rule (they count content changes, modulo 128),   *)
(* and it is forwarded when its content is new.  A message is a function   *)
(* from the ids of its intersections to a revision and a content (the JSON *)
(* text without timestamps and revision); a MAP has a msgIssueRevision.    *)
(***************************************************************************)
EXTENDS Integers

CONSTANTS
  IntersectionIds,
  Contents,
  FirstRevision,  \* the revisions the publisher starts with
  MaxMessages     \* bound: messages published

ASSUME FirstRevisionAssumption == FirstRevision \in 0..127

MessageKinds == {"SPaT", "MAP"}
NoRevision == -1

VARIABLES
  kind,       \* the kind of message that is published: the two share no state
  sent,       \* messages published (bound)
  published,  \* what the publisher last sent of a kind: intersections and issue
  honest,     \* the publisher kept to the rule in every message so far
  missed,     \* messages the plugin did not receive
  seen,       \* _prevSpatIntersections, _prevMapIntersections
  seenIssue,  \* _prevMapMessage.msgIssueRevision; NoRevision before the first MAP
  verdict,    \* the last validation: kind, flagged or not, with an intersection never seen or not
  forwarded   \* the content last forwarded of each intersection

revVars == <<kind, sent, published, honest, missed, seen, seenIssue, verdict, forwarded>>

NoIntersections == [i \in {} |-> [rev |-> NoRevision, content |-> NoRevision]]

RevInit ==
  /\ kind \in MessageKinds
  /\ published = [k \in MessageKinds |-> [ints |-> NoIntersections, issue |-> FirstRevision]]
  /\ sent = 0 /\ honest = TRUE /\ missed = 0
  /\ seen = [k \in MessageKinds |-> NoIntersections]
  /\ seenIssue = NoRevision
  /\ verdict = [kind |-> "none", flagged |-> FALSE, newIntersection |-> FALSE]
  /\ forwarded = [k \in MessageKinds |-> [i \in {} |-> NoRevision]]

----------------------------------------------------------------------------
Next128(n) == (n + 1) % 128

\* Mutant: no wrap after 127.
ProperIncrementNoWrap(prev, cur) == prev + 1 = cur

ProperIncrement(prev, cur) == Next128(prev) = cur

\* createContentHash and checkRevisionViolation.
ContentChanged(prev, i, msg) == i \in DOMAIN prev => prev[i].content # msg[i].content

RevisionViolation(prev, i, msg) ==
  /\ i \in DOMAIN prev
  /\ ContentChanged(prev, i, msg) # (prev[i].rev # msg[i].rev)

\* evaluateProgression, by the SPaT rule and by the MAP rule.
SpatProgressionViolation(prev, i, msg) ==
  LET changed == ContentChanged(prev, i, msg)
      same == ~changed /\ prev[i].rev = msg[i].rev
  IN i \in DOMAIN prev /\ ~same /\ ~(changed /\ ProperIncrement(prev[i].rev, msg[i].rev))

MapProgressionViolation(prev, i, msg, issue) ==
  /\ i \in DOMAIN prev /\ ContentChanged(prev, i, msg)
  /\ \/ ~ProperIncrement(prev[i].rev, msg[i].rev)
     \/ seenIssue # NoRevision /\ ~ProperIncrement(seenIssue, issue)

AnyChanged(prev, msg) == \E i \in DOMAIN msg : ContentChanged(prev, i, msg)

\* validateMsgIssueRevision.
IssueViolation(prev, msg, issue) ==
  seenIssue # NoRevision /\ AnyChanged(prev, msg) # (seenIssue # issue)

\* planForwarding: nothing to compare with, or new content.
PlanForwarding(prev, msg, compared) == ~compared \/ AnyChanged(prev, msg)

\* prevStates afterwards.
Updated(prev, msg) == [i \in DOMAIN prev \cup DOMAIN msg |->
                         IF i \in DOMAIN msg THEN msg[i] ELSE prev[i]]

\* Forward the message if planned, or if the last was forwarded too long ago.
Forward(msg, compared) ==
  \E tooLong \in BOOLEAN :
    forwarded' =
      IF PlanForwarding(seen[kind], msg, compared) \/ tooLong
      THEN [forwarded EXCEPT ![kind] =
              [i \in DOMAIN @ \cup DOMAIN msg |->
                 IF i \in DOMAIN msg THEN msg[i].content ELSE @[i]]]
      ELSE forwarded

\* HandleSpatMessage: validateSpatRevision and the forwarding.
HandleSpatMessage(msg) ==
  /\ verdict' = [kind |-> "SPaT", newIntersection |-> ~(DOMAIN msg \subseteq DOMAIN seen["SPaT"]),
                 flagged |-> \E i \in DOMAIN msg :
                    \/ RevisionViolation(seen["SPaT"], i, msg)
                    \/ SpatProgressionViolation(seen["SPaT"], i, msg)]
  /\ Forward(msg, DOMAIN msg \cap DOMAIN seen["SPaT"] # {})
  /\ seen' = [seen EXCEPT !["SPaT"] = Updated(@, msg)]
  /\ UNCHANGED seenIssue

\* HandleMapDataMessage: validateMapRevision and the forwarding.
HandleMapDataMessage(msg, issue) ==
  /\ verdict' = [kind |-> "MAP", newIntersection |-> ~(DOMAIN msg \subseteq DOMAIN seen["MAP"]),
                 flagged |-> \/ IssueViolation(seen["MAP"], msg, issue)
                             \/ \E i \in DOMAIN msg :
                                  \/ RevisionViolation(seen["MAP"], i, msg)
                                  \/ MapProgressionViolation(seen["MAP"], i, msg, issue)]
  /\ Forward(msg, seenIssue # NoRevision \/ DOMAIN msg \cap DOMAIN seen["MAP"] # {})
  /\ seen' = [seen EXCEPT !["MAP"] = Updated(@, msg)]
  /\ seenIssue' = issue

----------------------------------------------------------------------------
(* The publisher.  The rule: a revision is incremented exactly when the   *)
(* content changes, the issue revision exactly when any content changes.  *)

Step(n, changed) == IF changed THEN Next128(n) ELSE n

RevisionRule(prev, msg) ==
  \A i \in DOMAIN prev \cap DOMAIN msg :
    msg[i].rev = Step(prev[i].rev, prev[i].content # msg[i].content)

IssueRule(prev, msg, prevIssue, issue) ==
  prevIssue # NoRevision => issue = Step(prevIssue, AnyChanged(prev, msg))

Follows(prev, msg, prevIssue, issue) ==
  RevisionRule(prev, msg) /\ (kind = "MAP" => IssueRule(prev, msg, prevIssue, issue))

\* A message with content c whose revisions are those published last, or the first, plus d.
Revised(d, c) ==
  [i \in DOMAIN c |->
     LET prev == IF i \in DOMAIN published[kind].ints THEN published[kind].ints[i].rev
                 ELSE FirstRevision
     IN [rev |-> (prev + d[i]) % 128, content |-> c[i]]]

\* One message is published, and received or lost.  The rule is broken at most once (bound).
Publish(msg, issue) ==
  LET prev == published[kind].ints
      prevIssue == IF prev = NoIntersections THEN NoRevision ELSE published[kind].issue
      follows == Follows(prev, msg, prevIssue, issue)
  IN /\ sent < MaxMessages /\ (honest \/ follows)
     /\ sent' = sent + 1 /\ UNCHANGED kind
     /\ published' = [published EXCEPT ![kind] = [ints |-> Updated(prev, msg), issue |-> issue]]
     /\ honest' = (honest /\ follows)
     /\ \/ /\ kind = "SPaT" /\ HandleSpatMessage(msg)
           /\ UNCHANGED missed
        \/ /\ kind = "MAP" /\ HandleMapDataMessage(msg, issue)
           /\ UNCHANGED missed
        \/ missed' = missed + 1 /\ UNCHANGED <<seen, seenIssue, verdict, forwarded>>

\* Revisions are kept, incremented or skip one.
RevNext ==
  \E ids \in (SUBSET IntersectionIds) \ {{}} :
    \E d \in [ids -> 0..2], c \in [ids -> Contents], e \in IF kind = "MAP" THEN 0..2 ELSE {0} :
      Publish(Revised(d, c), (published[kind].issue + e) % 128)

RevSpec == RevInit /\ [][RevNext]_revVars

----------------------------------------------------------------------------
\* A publisher that increments its counters exactly when the content changes, modulo 128,
\* is never flagged, as long as no message is lost.
HonestNotFlagged == honest /\ missed = 0 => ~verdict.flagged

=============================================================================
