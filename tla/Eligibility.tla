------------------------------ MODULE Eligibility ------------------------------
(***************************************************************************)
(* Eligibility by published rules: the three-valued interpreter of         *)
(* packages/rules and its use by EligibilityService.evaluateForProfile.    *)
(* A rule is a tree of checks; the leaves of all its branches are walked,  *)
(* for the verdict rests on the failed checks too.                         *)
(***************************************************************************)
EXTENDS Integers, Sequences, FiniteSets

\* The expressions of the rules, with how deep each is.
CONSTANT Height

Expressions == DOMAIN Height

\* A fact: a number, a list, or nothing on record.
Absent    == [kind |-> "absent"]
Number(n) == [kind |-> "number", n |-> n]
List(S)   == [kind |-> "list", items |-> S]

\* A condition compares with a value; in and nin with a list of them.
Check(id, op, fact, value, remediable) ==
    [type |-> "check", id |-> id, op |-> op, fact |-> fact, value |-> value, remediable |-> remediable]

Truth(b) == IF b THEN "true" ELSE "false"

\* compare.
Orders == {"gt", "gte", "lt", "lte"}
Compare(actual, c) ==
    LET n == actual.n
    IN  IF c.op = "exists"        THEN Truth(actual # Absent)
        ELSE IF c.op = "missing"  THEN Truth(actual = Absent)
        ELSE IF actual = Absent   THEN "unknown"
        ELSE IF c.op = "includes" THEN (IF actual.kind = "list" THEN Truth(c.value \in actual.items)
                                                                ELSE "unknown")
        ELSE IF c.op \in Orders /\ actual.kind # "number" THEN "unknown"
        ELSE CASE c.op = "eq"  -> Truth(actual = c.value)
               [] c.op = "neq" -> Truth(actual # c.value)
               [] c.op = "in"  -> Truth(actual \in c.value.items)
               [] c.op = "nin" -> Truth(actual \notin c.value.items)
               [] c.op = "gt"  -> Truth(n > c.value.n)
               [] c.op = "gte" -> Truth(n >= c.value.n)
               [] c.op = "lt"  -> Truth(n < c.value.n)
               [] c.op = "lte" -> Truth(n <= c.value.n)

And(outcomes) == IF "false" \in outcomes THEN "false"
                 ELSE IF "unknown" \in outcomes THEN "unknown" ELSE "true"
Or(outcomes)  == IF "true" \in outcomes THEN "true"
                 ELSE IF "unknown" \in outcomes THEN "unknown" ELSE "false"

\* Mutant of Negate: what is not known to hold does not hold.
NegateClosed(outcome) == IF outcome = "true" THEN "false" ELSE "true"

Negate(outcome) ==
    CASE outcome = "true" -> "false" [] outcome = "false" -> "true" [] OTHER -> "unknown"

\* The nodes that a node is made of.
NodesOf(node) ==
    CASE node.type = "check" -> {} [] node.type = "not" -> {node.node} [] OTHER -> node.nodes

\* What parseRuleVersion lets pass: a finite tree in which no group is empty.
Ops == Orders \cup {"exists", "missing", "includes", "eq", "neq", "in", "nin"}
ASSUME ExpressionsAssumption ==
    \A node \in Expressions :
        /\ Height[node] \in Nat
        /\ node.type \in {"check", "all", "any", "not"}
        /\ node.type = "check" => node.op \in Ops
        /\ node.type \in {"all", "any"} => node.nodes # {}
        /\ \A child \in NodesOf(node) : child \in Expressions /\ Height[child] < Height[node]

\* What walk makes of a node, given the outcomes of the nodes it is made of.
Outcome(node, facts, outcomes) ==
    CASE node.type = "check" -> Compare(facts[node.fact], node)
      [] node.type = "all"   -> And({outcomes[child] : child \in node.nodes})
      [] node.type = "any"   -> Or({outcomes[child] : child \in node.nodes})
      [] node.type = "not"   -> Negate(outcomes[node.node])

Walk(rule, facts) ==
    LET walk[node \in Expressions] == Outcome(node, facts, walk)
    IN  walk[rule]

\* The checks among the leaves of a node.
Checks[node \in Expressions] ==
    IF node.type = "check" THEN {node} ELSE UNION {Checks[child] : child \in NodesOf(node)}

\* What the collector holds at the end of the walk.
Unsatisfied(rule, facts)  == {c \in Checks[rule] : Compare(facts[c.fact], c) = "false"}
MissingFacts(rule, facts) == {c.fact : c \in {d \in Checks[rule] : Compare(facts[d.fact], d) = "unknown"}}

\* evaluate, for the rule of one version.
Result(rule, facts) ==
    LET overall == Walk(rule, facts)
        failed  == Unsatisfied(rule, facts)
    IN  IF overall = "true"                                   THEN "eligible"
        ELSE IF overall = "unknown"                           THEN "unknown"
        ELSE IF failed # {} /\ \A c \in failed : c.remediable THEN "conditional"
        ELSE "ineligible"

\* selectEffectiveRuleVersion: the newest published version in force, if any; to
\* holds the end of a version that has one.
InForce(versions, now) ==
    {v \in versions : /\ v.status = "published"
                      /\ v.from <= now
                      /\ \A end \in v.to : end > now}
Effective(versions, now) ==
    {v \in InForce(versions, now) : \A w \in InForce(versions, now) : w.version <= v.version}

\* A stated fact takes the place of that of the profile, on record or not.
Stated(given, profile) ==
    [f \in DOMAIN profile |-> IF given[f] = Absent THEN profile[f] ELSE given[f]]

\* evaluateForProfile.
Evaluate(versions, now, given, profile) ==
    LET facts == Stated(given, profile)
        rules == {v.expression : v \in Effective(versions, now)}
    IN  IF rules = {}
        THEN [result |-> "unknown", missing |-> {}, review |-> TRUE]
        ELSE LET rule   == CHOOSE r \in rules : TRUE
                 result == Result(rule, facts)
             IN  [result  |-> result,
                  missing |-> MissingFacts(rule, facts),
                  review  |-> result = "unknown"]

-------------------------------------------------------------------------------
\* What a bag of facts may become when it is completed: what is on record stays.
Completes(more, facts) == \A f \in DOMAIN facts : facts[f] # Absent => more[f] = facts[f]

Determinate(rule) == \A c \in Checks[rule] : c.op \notin {"exists", "missing"}

Negated[node \in Expressions] ==
    node.type = "not" \/ \E child \in NodesOf(node) : Negated[child]
===============================================================================
