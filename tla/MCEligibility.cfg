\* Two profiles evaluated by one rule set after the other.
SPECIFICATION Spec
CONSTANTS
    Unknown = Unknown
    Empty = ""
    RuleSets <- MCRuleSets
    Fields <- MCFields
    Submissions <- MCSubmissions
    Normal <- MCNormal
    Numeral <- MCNumeral
    AsBool <- MCAsBool
    MaxRuleDepth = 3
    MaxRuleCount = 6
    MaxEvaluations = 2
INVARIANTS
    TypeOK
    AcceptedRulesNeverRaise
    RecursionIsBounded
    EveryRuleReportedOnce
    DecidedOutcomesStand
    DecisionIsCertain
CHECK_DEADLOCK FALSE
