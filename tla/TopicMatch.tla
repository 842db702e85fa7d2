------------------------------ MODULE TopicMatch ------------------------------
(***************************************************************************)
(* Subscription.matches(): whether a published message belongs to a        *)
(* subscription, and the validation of the pattern before.  A pattern and  *)
(* a topic are sequences of levels, the strings between two slashes; a     *)
(* step is one iteration of the loop over the levels of the two.           *)
(***************************************************************************)
EXTENDS Integers, Sequences

CONSTANTS
  Levels,      \* the levels of topics
  Reserved,    \* those of them that begin with "$"
  Malformed,   \* levels that hold a wildcard and something else
  QoSLevels,
  MaxLevels    \* bound on the levels of a pattern or a topic

ASSUME LevelsAssumption ==
  /\ MaxLevels \in Nat /\ QoSLevels \subseteq 0 .. 2
  /\ Reserved \subseteq Levels
  /\ Levels \cap ({"+", "#", "none"} \cup Malformed) = {}
  /\ Malformed \cap {"+", "#", "none"} = {}

VARIABLES
  pattern, max_qos,   \* the subscription: its levels and _max_qos
  topic, qos,         \* the message
  i,                  \* the loop's position
  result              \* "none" before a subscription is made, then "made",
                      \* "running" in the loop, "match" or "no match" after it

matchVars == <<pattern, max_qos, topic, qos, i, result>>

LevelSeqs(S) == UNION {[1 .. n -> S] : n \in 1 .. MaxLevels}

\* A level of zip_longest, which pads the shorter sequence with None
Level(s, k) == IF k <= Len(s) THEN s[k] ELSE "none"

Longest == IF Len(pattern) < Len(topic) THEN Len(topic) ELSE Len(pattern)

MatchInit ==
  /\ pattern = <<>> /\ max_qos = 0
  /\ topic = <<>> /\ qos = 0
  /\ i = 1
  /\ result = "none"

\* Mutant of ValidPattern: "#" is accepted at every level.
ValidPatternAnywhere(p) == \A k \in DOMAIN p : p[k] \notin Malformed

\* A wildcard has a level of its own, and "#" is the last level.
ValidPattern(p) ==
  \A k \in DOMAIN p : /\ p[k] \notin Malformed
                      /\ p[k] = "#" => k = Len(p)

\* __attrs_post_init__ raises InvalidPattern otherwise.
MakeSubscription(p, q) ==
  /\ result = "none"
  /\ ValidPattern(p)
  /\ pattern' = p /\ max_qos' = q
  /\ result' = "made"
  /\ UNCHANGED <<topic, qos, i>>

\* A message above the maximum QoS is not delivered at a lower one.
BeginMatch(t, q) ==
  /\ result = "made"
  /\ topic' = t /\ qos' = q
  /\ result' = IF q > max_qos THEN "no match" ELSE "running"
  /\ UNCHANGED <<pattern, max_qos, i>>

\* Mutant of WildcardAllowed: a wildcard matches a first level with "$" as well.
WildcardAllowedAlways == TRUE

\* A pattern's first level is no wildcard for a reserved topic.
WildcardAllowed == i > 1 \/ topic[1] \notin Reserved

CompareLevel ==
  /\ result = "running"
  /\ i <= Longest
  /\ LET p == Level(pattern, i)
         t == Level(topic, i)
     IN  \/ /\ WildcardAllowed /\ p = "#"
            /\ result' = "match"
            /\ UNCHANGED i
         \/ /\ \/ WildcardAllowed /\ p = "+" /\ t # "none"
               \/ ~(WildcardAllowed /\ p = "#") /\ p = t
            /\ i' = i + 1
            /\ UNCHANGED result
         \/ /\ ~(WildcardAllowed /\ (p = "#" \/ (p = "+" /\ t # "none")))
            /\ p # t
            /\ result' = "no match"
            /\ UNCHANGED i
  /\ UNCHANGED <<pattern, max_qos, topic, qos>>

EndOfLevels ==
  /\ result = "running"
  /\ i > Longest
  /\ result' = "match"
  /\ UNCHANGED <<pattern, max_qos, topic, qos, i>>

MatchNext ==
  \/ \E p \in LevelSeqs(Levels \cup {"+", "#"} \cup Malformed), q \in QoSLevels :
       MakeSubscription(p, q)
  \/ \E t \in LevelSeqs(Levels), q \in QoSLevels : BeginMatch(t, q)
  \/ CompareLevel
  \/ EndOfLevels

MatchSpec == MatchInit /\ [][MatchNext]_matchVars

-----------------------------------------------------------------------------
(* Properties                                                              *)

(* What the protocol says a pattern matches: "+" stands for any one level, *)
(* "#" for all levels from its own on, its parent included, and neither,   *)
(* at the start, for a level that begins with "$".                         *)
MatchesStandard(p, t) ==
  LET open == p[Len(p)] = "#"
      k    == IF open THEN Len(p) - 1 ELSE Len(p)
  IN  /\ p[1] \in {"+", "#"} => t[1] \notin Reserved
      /\ IF open THEN k <= Len(t) ELSE k = Len(t)
      /\ \A j \in 1 .. k : p[j] \in {"+", t[j]}

(* matches() answers what the protocol says of a pattern that the class    *)
(* accepts, for a message of a QoS that the subscription takes.            *)
MatchesAsStandard ==
  result \in {"match", "no match"} =>
    (result = "match" <=> qos <= max_qos /\ MatchesStandard(pattern, topic))

=============================================================================
