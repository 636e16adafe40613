----------------------------- MODULE Eligibility ------------------------------
(***************************************************************************)
(* The eligibility engine (packages/eligibility-engine/eligibility_engine, *)
(* models.py and evaluator.py): a rule set is loaded once and evaluated    *)
(* for profiles in which facts may be missing.                             *)
(*                                                                         *)
(* A rule set is a sequence of rules, parents before children, a child     *)
(* being a place in it.  Values carry their Python type: <<"text", t>>,    *)
(* <<"number", n>>, <<"flag", b>>, <<"float", n>>.  The recursion of       *)
(* _evaluate_rule is a stack with the statuses that each call has of its   *)
(* children so far.                                                        *)
(***************************************************************************)
EXTENDS Integers, Sequences, FiniteSets

CONSTANTS
    RuleSets,        \* the rule sets that may be loaded, as written
    Fields,          \* the profile fields used
    Submissions,     \* profiles as submitted
    Normal,          \* strip().upper() of each text
    Numeral,         \* Decimal() of each text that has one
    AsBool,          \* the bool of each value that pydantic takes for one
    Empty,           \* the empty text
    Unknown,         \* None
    MaxRuleDepth,    \* MAX_RULE_DEPTH, 16
    MaxRuleCount,    \* MAX_RULE_COUNT, 256
    MaxEvaluations   \* bound: evaluations of the rule set

ProfileField == {"state_code", "sector_code", "enterprise_classification",
                 "annual_turnover", "employee_count", "years_in_operation",
                 "is_registered"}
NumericFields == {"annual_turnover", "employee_count", "years_in_operation"}
Comparison == {"less_than_or_equal", "greater_than_or_equal", "between"}
Composite == {"all", "any", "not"}
Status == {"passed", "failed", "unknown"}

\* Mutant: what is not decided is handed on as it is.
DecisionAsStatus == [passed |-> "eligible", failed |-> "ineligible",
                     unknown |-> "unknown"]

\* evaluate's decision for the status of the root.
Decision == [passed |-> "eligible", failed |-> "ineligible",
             unknown |-> "insufficient_information"]

\* A rule as written.
IsRule(rule) ==
    /\ DOMAIN rule = {"rule_id", "operator", "field", "values", "children"}
    /\ \/ /\ rule.operator \in Composite
          /\ rule.operator = "not" => Len(rule.children) = 1
       \/ /\ rule.operator \in Comparison \cup {"equals", "in", "exists"}
          /\ rule.field \in Fields /\ rule.children = <<>>

\* A rule is a child at one place.
HasOnePlace(rules, n) ==
    \E m \in DOMAIN rules : \E i \in DOMAIN rules[m].children :
       /\ rules[m].children[i] = n
       /\ \A l \in DOMAIN rules : \A j \in DOMAIN rules[l].children :
             rules[l].children[j] = n => l = m /\ j = i

\* Rules that are nested: each but the root is a child.
IsRuleSet(rules) ==
    /\ rules # <<>> /\ Len(rules) \in Nat /\ DOMAIN rules = 1..Len(rules)
    /\ \A n \in DOMAIN rules :
          IsRule(rules[n]) /\ rules[n].children \in Seq(n + 1..Len(rules))
    /\ \A n \in DOMAIN rules \ {1} : HasOnePlace(rules, n)

ASSUME EligibilityAssumption ==
    /\ Fields \subseteq ProfileField
    /\ \A rules \in RuleSets : IsRuleSet(rules)
    /\ {MaxRuleDepth, MaxRuleCount, MaxEvaluations} \subseteq Nat

VARIABLES
    stage,      \* "new", "refused", "ready", "evaluating" or "raised"
    ruleSet,    \* as written, then as loaded
    profile,    \* the BusinessProfile being evaluated
    stack,      \* the calls of _evaluate_rule under way
    outcomes,   \* the list they append to
    reports     \* history: the results, each with its profile

vars == <<stage, ruleSet, profile, stack, outcomes, reports>>

-----------------------------------------------------------------------------
(* Loading a rule set.                                                     *)

Elements(seq) == {seq[i] : i \in DOMAIN seq}
IsText(value) == value[1] = "text"
IsNumber(value) == value[1] = "number"
IsFlag(value) == value[1] = "flag"

\* _exact_decimal and _validated_decimal raise for other values.
HasDecimal(value) ==
    IsNumber(value) \/ (IsText(value) /\ value[2] \in DOMAIN Numeral)

AsDecimal(value) == IF IsText(value) THEN <<"number", Numeral[value[2]]>> ELSE value

TakesDecimals(rule) ==
    \/ rule.operator \in Comparison
    \/ rule.operator \in {"equals", "in"} /\ rule.field \in NumericFields

HasDecimals(rule) ==
    TakesDecimals(rule) => \A value \in Elements(rule.values) : HasDecimal(value)

Loaded(rules) ==
    [n \in DOMAIN rules |->
        IF TakesDecimals(rules[n])
        THEN [rules[n] EXCEPT !.values = [i \in DOMAIN @ |-> AsDecimal(@[i])]]
        ELSE rules[n]]

\* Python's == and set(): True is 1 and False is 0.
Same(a, b) ==
    \/ a = b
    \/ IsFlag(a) /\ b = <<"number", IF a[2] THEN 1 ELSE 0>>
    \/ IsFlag(b) /\ a = <<"number", IF b[2] THEN 1 ELSE 0>>

\* The min_length of AllRule, AnyRule and InRule, values_are_unique and
\* ordered_bounds.
WellFormed(rule) ==
    /\ rule.operator \in {"all", "any"} => rule.children # <<>>
    /\ rule.operator = "in" =>
          /\ rule.values # <<>>
          /\ \A i, j \in DOMAIN rule.values : Same(rule.values[i], rule.values[j]) => i = j
    /\ rule.operator = "between" => rule.values[1][2] <= rule.values[2][2]

\* Mutant: comparisons are taken on any field.
WellTypedNot(rule) ==
    rule.operator \in {"equals", "in"} =>
        \A value \in Elements(rule.values) :
            CASE rule.field \in NumericFields -> IsNumber(value)
              [] rule.field = "is_registered" -> IsFlag(value)
              [] OTHER -> IsText(value)

\* The checks of visit() on one rule.
WellTyped(rule) ==
    /\ rule.operator \in Comparison => rule.field \in NumericFields
    /\ rule.operator \in {"equals", "in"} =>
          \A value \in Elements(rule.values) :
              CASE rule.field \in NumericFields -> IsNumber(value)
                [] rule.field = "is_registered" -> IsFlag(value)
                [] OTHER -> IsText(value)

IsParent(rules, m, n) == n \in Elements(rules[m].children)

\* Mutant: `not' does not count, visit(rule.rule, depth=depth).
DepthsWithoutNot(rules) ==
    LET depth[n \in DOMAIN rules] ==
          IF n = 1 THEN 1
          ELSE LET m == CHOOSE m \in DOMAIN rules : IsParent(rules, m, n)
               IN  depth[m] + IF rules[m].operator = "not" THEN 0 ELSE 1
    IN  depth

\* The depth with which visit() comes to each rule.
Depths(rules) ==
    LET depth[n \in DOMAIN rules] ==
          IF n = 1 THEN 1
          ELSE depth[CHOOSE m \in DOMAIN rules : IsParent(rules, m, n)] + 1
    IN  depth

\* SchemeRuleSet.validate_semantics.
ValidSemantics(rules) ==
    /\ Cardinality(DOMAIN rules) <= MaxRuleCount
    /\ \A n \in DOMAIN rules : Depths(rules)[n] <= MaxRuleDepth
    /\ \A m, n \in DOMAIN rules : rules[m].rule_id = rules[n].rule_id => m = n
    /\ \A n \in DOMAIN rules : WellTyped(rules[n])

Acceptable(rules) ==
    /\ \A n \in DOMAIN rules : HasDecimals(rules[n])
    /\ \A n \in DOMAIN rules : WellFormed(Loaded(rules)[n])
    /\ ValidSemantics(Loaded(rules))

-----------------------------------------------------------------------------
(* Profiles.                                                               *)

\* BusinessProfile's validators.  Counts are given as integers; turnover may
\* be a decimal string; what pydantic takes for a bool is one.
ValidFact(field, value) ==
    \/ value = Unknown
    \/ CASE field = "annual_turnover" ->
              HasDecimal(value) /\ AsDecimal(value)[2] >= 0
         [] field \in {"employee_count", "years_in_operation"} ->
              IsNumber(value) /\ value[2] >= 0
         [] field = "is_registered" -> value \in DOMAIN AsBool
         [] OTHER -> IsText(value) /\ Normal[value[2]] # Empty

\* normalize_code for codes, Decimal for turnover, bool for a flag.
Fact(field, value) ==
    IF value = Unknown THEN Unknown
    ELSE CASE field \in NumericFields -> AsDecimal(value)
           [] field = "is_registered" -> <<"flag", AsBool[value]>>
           [] OTHER -> <<"text", Normal[value[2]]>>

ValidProfiles ==
    {s \in Submissions : \A field \in Fields : ValidFact(field, s[field])}

Profile(submission) == [field \in Fields |-> Fact(field, submission[field])]

-----------------------------------------------------------------------------
(* Evaluating.                                                             *)

\* Whether a fact that is known meets an atomic rule.
Matches(rule, actual) ==
    CASE rule.operator = "exists" -> TRUE
      [] rule.operator \in {"equals", "in"} ->
            \E value \in Elements(rule.values) : Same(actual, value)
      [] rule.operator = "less_than_or_equal" -> actual[2] <= rule.values[1][2]
      [] rule.operator = "greater_than_or_equal" -> actual[2] >= rule.values[1][2]
      [] rule.operator = "between" ->
            rule.values[1][2] <= actual[2] /\ actual[2] <= rule.values[2][2]

\* _as_decimal raises TypeError.
Raises(rule) ==
    /\ rule.operator \in Comparison
    /\ profile[rule.field] # Unknown
    /\ ~IsNumber(profile[rule.field])

\* _atomic_status.
AtomicStatus(rule, facts) ==
    IF facts[rule.field] = Unknown THEN "unknown"
    ELSE IF Matches(rule, facts[rule.field]) THEN "passed" ELSE "failed"

\* Mutant: a group of one known failure is all that `all' looks for.
GroupStatusNot(operator, statuses) ==
    CASE operator = "all" -> IF "failed" \in statuses THEN "failed" ELSE "passed"
      [] operator = "any" -> IF "passed" \in statuses THEN "passed"
                             ELSE IF "unknown" \in statuses THEN "unknown" ELSE "failed"
      [] "passed" \in statuses -> "failed"
      [] "failed" \in statuses -> "passed"
      [] OTHER -> "unknown"

\* Mutant: what is not known to pass does not pass, so its negation does.
GroupStatusNegating(operator, statuses) ==
    CASE operator = "all" -> IF "failed" \in statuses THEN "failed"
                             ELSE IF "unknown" \in statuses THEN "unknown" ELSE "passed"
      [] operator = "any" -> IF "passed" \in statuses THEN "passed"
                             ELSE IF "unknown" \in statuses THEN "unknown" ELSE "failed"
      [] "passed" \in statuses -> "failed"
      [] OTHER -> "passed"

\* The status of a composite rule whose children have these.
GroupStatus(operator, statuses) ==
    CASE operator = "all" -> IF "failed" \in statuses THEN "failed"
                             ELSE IF "unknown" \in statuses THEN "unknown" ELSE "passed"
      [] operator = "any" -> IF "passed" \in statuses THEN "passed"
                             ELSE IF "unknown" \in statuses THEN "unknown" ELSE "failed"
      [] operator = "not" -> IF "passed" \in statuses THEN "failed"
                             ELSE IF "failed" \in statuses THEN "passed" ELSE "unknown"

Call(node) == [node |-> node, statuses |-> <<>>]
Top == stack[Len(stack)]
Rule == ruleSet[Top.node]

Outcome(rule, status) ==
    [rule_id |-> rule.rule_id, operator |-> rule.operator, status |-> status]

\* The outcomes with a status, in the order of the list.
Only(list, status) == [k \in {k \in DOMAIN list : list[k].status = status} |-> list[k]]

\* The EligibilityResult of a list of outcomes: passed_rules, failed_rules and
\* unknown_rules, each outcome at the place it has in the list.
Result(status, list) ==
    [profile |-> profile, decision |-> Decision[status],
     rules |-> [s \in Status |-> Only(list, s)]]

-----------------------------------------------------------------------------
Init ==
    /\ stage = "new"
    /\ ruleSet \in RuleSets
    /\ profile = [field \in Fields |-> Unknown]
    /\ stack = <<>> /\ outcomes = <<>> /\ reports = <<>>

Load ==
    /\ stage = "new"
    /\ \/ /\ Acceptable(ruleSet)
          /\ stage' = "ready" /\ ruleSet' = Loaded(ruleSet)
       \/ /\ ~Acceptable(ruleSet)
          /\ stage' = "refused" /\ UNCHANGED ruleSet
    /\ UNCHANGED <<profile, stack, outcomes, reports>>

\* A profile that is not valid does not come to evaluate().
Evaluate(submission) ==
    /\ stage = "ready" /\ Len(reports) < MaxEvaluations
    /\ stage' = "evaluating"
    /\ profile' = Profile(submission)
    /\ stack' = <<Call(1)>> /\ outcomes' = <<>>
    /\ UNCHANGED <<ruleSet, reports>>

\* Mutant: a group is left as soon as it is decided.
NextChildUntilDecided ==
    /\ Rule.operator \in Composite
    /\ Len(Top.statuses) < Len(Rule.children)
    /\ "failed" \notin Elements(Top.statuses)

\* A composite rule has a child that was not evaluated yet.
NextChild ==
    /\ Rule.operator \in Composite
    /\ Len(Top.statuses) < Len(Rule.children)

Descend ==
    /\ stage = "evaluating" /\ NextChild
    /\ stack' = Append(stack, Call(Rule.children[Len(Top.statuses) + 1]))
    /\ UNCHANGED <<stage, ruleSet, profile, outcomes, reports>>

\* The value of a call is appended to the outcomes and returned: to its
\* caller, or as the result.
Return(status) ==
    /\ outcomes' = Append(outcomes, Outcome(Rule, status))
    /\ \/ /\ Len(stack) > 1
          /\ LET caller == Len(stack) - 1
             IN  stack' = [SubSeq(stack, 1, caller) EXCEPT
                              ![caller].statuses = Append(@, status)]
          /\ UNCHANGED <<stage, reports>>
       \/ /\ Len(stack) = 1
          /\ stack' = <<>> /\ stage' = "ready"
          /\ reports' = Append(reports, Result(status, outcomes'))

\* An exception leaves every call and no result.
Atomic ==
    /\ stage = "evaluating" /\ Rule.operator \notin Composite
    /\ IF Raises(Rule)
       THEN /\ stage' = "raised" /\ stack' = <<>>
            /\ UNCHANGED <<outcomes, reports>>
       ELSE Return(AtomicStatus(Rule, profile))
    /\ UNCHANGED <<ruleSet, profile>>

Combine ==
    /\ stage = "evaluating" /\ Rule.operator \in Composite /\ ~NextChild
    /\ Return(GroupStatus(Rule.operator, Elements(Top.statuses)))
    /\ UNCHANGED <<ruleSet, profile>>

Next ==
    \/ Load
    \/ \E submission \in ValidProfiles : Evaluate(submission)
    \/ Descend \/ Atomic \/ Combine

Spec == Init /\ [][Next]_vars

-----------------------------------------------------------------------------
(* Properties.                                                             *)

\* Every variable has its type.
TypeOK ==
    /\ stage \in {"new", "refused", "ready", "evaluating", "raised"}
    /\ DOMAIN profile = Fields
    /\ \A i \in DOMAIN stack :
          /\ stack[i].node \in DOMAIN ruleSet
          /\ Elements(stack[i].statuses) \subseteq Status
    /\ \A i \in DOMAIN outcomes : outcomes[i].status \in Status
    /\ \A i \in DOMAIN reports :
          reports[i].decision \in
            {"eligible", "ineligible", "insufficient_information"}
    /\ stage = "evaluating" <=> stack # <<>>

\* A rule set that was accepted and a profile that was accepted never end in
\* an exception: a type error is found when rules are loaded, and is never
\* taken for a decision.  (models.py:271-289; ELIGIBILITY_ENGINE.md:11)
AcceptedRulesNeverRaise == stage # "raised"

\* The recursion of the evaluator goes no deeper than the validator lets a rule
\* set be, and gives no more outcomes than it lets it have rules.
\* (models.py:263-267)
RecursionIsBounded ==
    Len(stack) <= MaxRuleDepth /\ Len(outcomes) <= MaxRuleCount

\* A result tells of every rule once, under one status, and there after those
\* of its children that have the same status; nothing is skipped because its group was decided.
\* (evaluator.py:65, 90, 114-116; EligibilityResult "complete")
EveryRuleReportedOnce ==
    \A i \in DOMAIN reports :
        LET list(s) == reports[i].rules[s]
            Tells(s, k, n) == list(s)[k].rule_id = ruleSet[n].rule_id
        IN  /\ \A n \in DOMAIN ruleSet : \E s \in Status : \E k \in DOMAIN list(s) :
                  /\ Tells(s, k, n)
                  /\ \A t \in Status : \A l \in DOMAIN list(t) :
                        Tells(t, l, n) => t = s /\ l = k
            /\ \A s \in Status : \A k \in DOMAIN list(s) : \E n \in DOMAIN ruleSet :
                  /\ Tells(s, k, n)
                  /\ \A c \in Elements(ruleSet[n].children), l \in DOMAIN list(s) :
                        Tells(s, l, c) => l < k

Decided(report) == report.decision # "insufficient_information"

Extends(later, earlier) ==
    \A field \in Fields : earlier[field] # Unknown => later[field] = earlier[field]

\* More facts never turn a decision or a rule's outcome around: whatever was
\* decided of a profile is decided in the same way of every profile that
\* adds to it.  (evaluator.py:64-86; ELIGIBILITY_ENGINE.md section 5)
DecidedOutcomesStand ==
    \A i, j \in DOMAIN reports :
        Extends(reports[j].profile, reports[i].profile) =>
            /\ Decided(reports[i]) => reports[j].decision = reports[i].decision
            /\ \A s \in {"passed", "failed"} :
                  Elements(reports[i].rules[s]) \subseteq Elements(reports[j].rules[s])

\* What a rule set says of a profile in which nothing is missing, in two
\* values.
Holds(full) ==
    LET holds[n \in DOMAIN ruleSet] ==
          LET rule == ruleSet[n]
          IN  CASE rule.operator = "all" -> \A c \in Elements(rule.children) : holds[c]
                [] rule.operator = "any" -> \E c \in Elements(rule.children) : holds[c]
                [] rule.operator = "not" -> ~holds[rule.children[1]]
                [] OTHER -> Matches(rule, full[rule.field])
    IN  holds[1]

FullProfiles == {p \in {Profile(s) : s \in ValidProfiles} :
                    \A field \in Fields : p[field] # Unknown}

\* A decision is what every completion of the profile would get in two
\* values: missing facts are never taken for failed or met ones.
\* (evaluator.py:105-109; ELIGIBILITY_ENGINE.md:11)
DecisionIsCertain ==
    \A i \in DOMAIN reports : Decided(reports[i]) =>
        \A full \in FullProfiles : Extends(full, reports[i].profile) =>
            (Holds(full) <=> reports[i].decision = "eligible")
=============================================================================
