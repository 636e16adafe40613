-------------------------- MODULE EligibilityProofs --------------------------
(***************************************************************************)
(* Theorems about Eligibility, for any rule sets and profiles.             *)
(***************************************************************************)
EXTENDS Eligibility, SetInduction, FiniteSetTheorems, TLAPS

Children(n) == ruleSet[n].children

Accepted == stage \in {"ready", "evaluating", "raised"}

\* A rule set is nested, and has been validated when it is used.
RulesInv ==
    /\ IsRuleSet(ruleSet)
    /\ stage \in {"new", "refused", "ready", "evaluating"}
    /\ Accepted => ValidSemantics(ruleSet)
    /\ ~Accepted => reports = <<>> /\ outcomes = <<>>

\* Facts that a profile may have after its validation.
IsFacts(facts) ==
    /\ DOMAIN facts = Fields
    /\ \A field \in Fields : field \in NumericFields =>
          facts[field] = Unknown \/ IsNumber(facts[field])

Frames == [node : DOMAIN ruleSet, statuses : Seq(Status)]

\* The stack is a path from the root: each call is of the child that its
\* caller has come to.
PathInv ==
    /\ stack \in Seq(Frames)
    /\ stage = "evaluating" <=> stack # <<>>
    /\ stack # <<>> => stack[1].node = 1
    /\ \A i, j \in 1..Len(stack) : i < j => stack[i].node < stack[j].node
    /\ \A i \in 1..Len(stack) :
          Len(stack[i].statuses) <= Len(Children(stack[i].node))
    /\ \A i \in 1..Len(stack) - 1 :
          /\ Len(stack[i].statuses) < Len(Children(stack[i].node))
          /\ stack[i + 1].node
               = Children(stack[i].node)[Len(stack[i].statuses) + 1]

\* The rules that a list of outcomes tells of.
Done(list) ==
    {n \in DOMAIN ruleSet :
        \E k \in DOMAIN list : list[k].rule_id = ruleSet[n].rule_id}

Outcomes == {Outcome(ruleSet[n], s) : n \in DOMAIN ruleSet, s \in Status}

\* Outcomes of different rules, each after those of the rule's children.
ListInv(list) ==
    /\ list \in Seq(Outcomes)
    /\ \A k, l \in DOMAIN list : list[k].rule_id = list[l].rule_id => k = l
    /\ \A k \in DOMAIN list, n \in DOMAIN ruleSet :
          list[k].rule_id = ruleSet[n].rule_id =>
             \A c \in Elements(Children(n)) :
                \E l \in 1..k - 1 : list[l].rule_id = ruleSet[c].rule_id

\* What the outcomes tell of is what the calls under way have had returned.
DoneInv ==
    /\ \A i \in 1..Len(stack) : stack[i].node \notin Done(outcomes)
    /\ \A i \in 1..Len(stack) : \A j \in 1..Len(stack[i].statuses) :
          Children(stack[i].node)[j] \in Done(outcomes)
    /\ \A m \in DOMAIN ruleSet \ Done(outcomes) : \A j \in DOMAIN Children(m) :
          Children(m)[j] \in Done(outcomes) =>
             \E i \in 1..Len(stack) :
                stack[i].node = m /\ j <= Len(stack[i].statuses)

\* A status for each rule that agrees with those of its children.
Solves(st, facts) ==
    \A n \in DOMAIN ruleSet :
        st[n] = IF ruleSet[n].operator \in Composite
                THEN GroupStatus(ruleSet[n].operator,
                                 {st[c] : c \in Elements(Children(n))})
                ELSE AtomicStatus(ruleSet[n], facts)

Solutions(facts) == {st \in [DOMAIN ruleSet -> Status] : Solves(st, facts)}

Agrees(list, st) ==
    \A k \in DOMAIN list, n \in DOMAIN ruleSet :
        list[k].rule_id = ruleSet[n].rule_id => list[k].status = st[n]

ValueInv ==
    \A st \in Solutions(profile) :
        /\ Agrees(outcomes, st)
        /\ \A i \in 1..Len(stack) : \A j \in 1..Len(stack[i].statuses) :
              stack[i].statuses[j] = st[Children(stack[i].node)[j]]

\* A result is made of a list of outcomes of all rules.
IsResult(report, list) ==
    /\ ListInv(list) /\ Done(list) = DOMAIN ruleSet
    /\ IsFacts(report.profile)
    /\ report.rules = [s \in Status |-> Only(list, s)]
    /\ \A st \in Solutions(report.profile) :
          Agrees(list, st) /\ report.decision = Decision[st[1]]

ReportsInv ==
    /\ \E S : reports \in Seq(S)
    /\ \A i \in DOMAIN reports : \E list : IsResult(reports[i], list)

Inductive ==
    /\ RulesInv /\ IsFacts(profile) /\ PathInv /\ ListInv(outcomes) /\ ReportsInv
    /\ stage = "evaluating" => DoneInv /\ ValueInv

-----------------------------------------------------------------------------
(* Rule sets.                                                              *)

LEMMA LoadedRules ==
    ASSUME NEW rules, IsRuleSet(rules)
    PROVE  /\ IsRuleSet(Loaded(rules))
           /\ DOMAIN Loaded(rules) = DOMAIN rules
           /\ \A n \in DOMAIN rules :
                 /\ Loaded(rules)[n].rule_id = rules[n].rule_id
                 /\ Loaded(rules)[n].operator = rules[n].operator
                 /\ Loaded(rules)[n].field = rules[n].field
                 /\ Loaded(rules)[n].children = rules[n].children
<1> DEFINE loaded == Loaded(rules)
<1>1. DOMAIN loaded = 1..Len(rules) /\ Len(rules) \in Nat /\ 1 \in DOMAIN rules
  BY DEF Loaded, IsRuleSet
<1>2. ASSUME NEW n \in DOMAIN rules
      PROVE  /\ DOMAIN loaded[n] = DOMAIN rules[n]
             /\ loaded[n].rule_id = rules[n].rule_id
             /\ loaded[n].operator = rules[n].operator
             /\ loaded[n].field = rules[n].field
             /\ loaded[n].children = rules[n].children
  <2>1. DOMAIN rules[n] = {"rule_id", "operator", "field", "values", "children"}
    BY DEF IsRuleSet, IsRule
  <2>2. CASE ~TakesDecimals(rules[n])
    BY <2>2 DEF Loaded
  <2>3. CASE TakesDecimals(rules[n])
    <3> DEFINE values == [i \in DOMAIN rules[n].values |-> AsDecimal(rules[n].values[i])]
    <3>1. loaded[n] = [rules[n] EXCEPT !.values = values]
      BY <2>3 DEF Loaded
    <3> HIDE DEF values
    <3> QED
      BY <2>1, <3>1
  <2> QED
    BY <2>2, <2>3
<1>3. Len(loaded) = Len(rules) /\ loaded # <<>>
  <2>1. loaded = [n \in 1..Len(rules) |-> loaded[n]]
    BY <1>1 DEF Loaded
  <2> HIDE DEF loaded
  <2>2. loaded \in Seq({loaded[n] : n \in 1..Len(rules)})
    BY <1>1, <2>1
  <2> QED
    BY <1>1, <2>2 DEF IsRuleSet
<1> HIDE DEF loaded
<1>4. \A n \in DOMAIN rules : IsRule(loaded[n])
  BY <1>2 DEF IsRuleSet, IsRule
<1>5. IsRuleSet(loaded)
  <2>1. DOMAIN loaded = DOMAIN rules /\ Len(loaded) = Len(rules)
    BY <1>1, <1>3 DEF IsRuleSet
  <2>2. \A n \in DOMAIN loaded : loaded[n].children \in Seq(n + 1..Len(loaded))
    BY <1>2, <2>1 DEF IsRuleSet
  <2>3. ASSUME NEW n \in DOMAIN loaded \ {1}
        PROVE  HasOnePlace(loaded, n)
    <3>1. HasOnePlace(rules, n)
      BY <2>1 DEF IsRuleSet
    <3> QED
      BY <1>2, <2>1, <3>1 DEF HasOnePlace
  <2> QED
    BY <1>1, <1>3, <1>4, <2>1, <2>2, <2>3 DEF IsRuleSet
<1> QED
  BY <1>1, <1>2, <1>5 DEF loaded, IsRuleSet

LEMMA ElementOfSeq ==
    ASSUME NEW S, NEW seq \in Seq(S), NEW i \in DOMAIN seq
    PROVE  seq[i] \in S
OBVIOUS

LEMMA ReplaceInSeq ==
    ASSUME NEW S, NEW seq \in Seq(S), NEW i \in 1..Len(seq), NEW e \in S
    PROVE  /\ [seq EXCEPT ![i] = e] \in Seq(S)
           /\ Len([seq EXCEPT ![i] = e]) = Len(seq)
           /\ [seq EXCEPT ![i] = e][i] = e
           /\ \A j \in 1..Len(seq) : j # i => [seq EXCEPT ![i] = e][j] = seq[j]
OBVIOUS

\* The facts of a rule set that the steps rest on.
LEMMA Nested ==
    ASSUME IsRuleSet(ruleSet)
    PROVE  /\ Len(ruleSet) \in Nat /\ DOMAIN ruleSet = 1..Len(ruleSet)
           /\ 1 \in DOMAIN ruleSet
           /\ \A n \in DOMAIN ruleSet :
                 /\ Children(n) \in Seq(n + 1..Len(ruleSet))
                 /\ Children(n) \in Seq(DOMAIN ruleSet)
                 /\ Elements(Children(n)) \subseteq DOMAIN ruleSet
                 /\ ruleSet[n].operator \notin Composite => Children(n) = <<>>
           /\ \A m, n \in DOMAIN ruleSet : \A i \in DOMAIN Children(m),
                 j \in DOMAIN Children(n) :
                    Children(m)[i] = Children(n)[j] => m = n /\ i = j
<1>1. Len(ruleSet) \in Nat /\ DOMAIN ruleSet = 1..Len(ruleSet)
      /\ 1 \in DOMAIN ruleSet
  BY DEF IsRuleSet
<1>2. ASSUME NEW n \in DOMAIN ruleSet
      PROVE  /\ Children(n) \in Seq(n + 1..Len(ruleSet))
             /\ Children(n) \in Seq(DOMAIN ruleSet)
             /\ Elements(Children(n)) \subseteq DOMAIN ruleSet
             /\ ruleSet[n].operator \notin Composite => Children(n) = <<>>
  <2>1. Children(n) \in Seq(n + 1..Len(ruleSet))
    BY DEF IsRuleSet, Children
  <2>2. n + 1..Len(ruleSet) \subseteq DOMAIN ruleSet
    BY <1>1
  <2>3. Children(n) \in Seq(DOMAIN ruleSet)
    BY <2>1, <2>2
  <2>4. Elements(Children(n)) \subseteq DOMAIN ruleSet
    BY <2>3 DEF Elements
  <2>5. ruleSet[n].operator \notin Composite => Children(n) = <<>>
    BY DEF IsRuleSet, IsRule, Children
  <2> QED
    BY <2>1, <2>3, <2>4, <2>5
<1>3. ASSUME NEW m \in DOMAIN ruleSet, NEW n \in DOMAIN ruleSet,
             NEW i \in DOMAIN Children(m), NEW j \in DOMAIN Children(n),
             Children(m)[i] = Children(n)[j]
      PROVE  m = n /\ i = j
  <2>1. PICK c : c = Children(m)[i] /\ c = Children(n)[j]
    BY <1>3
  <2>2. c \in m + 1..Len(ruleSet)
    BY <1>2, <2>1, ElementOfSeq
  <2>3. c \in DOMAIN ruleSet \ {1}
    BY <1>1, <2>2
  <2>4. HasOnePlace(ruleSet, c)
    BY <2>3 DEF IsRuleSet
  <2> QED
    BY <2>1, <2>4 DEF HasOnePlace, Children
<1> QED
  BY <1>1, <1>2, <1>3

LEMMA GroupStatusTyped ==
    ASSUME NEW operator \in Composite, NEW statuses
    PROVE  GroupStatus(operator, statuses) \in Status
BY DEF GroupStatus, Composite, Status

LEMMA AtomicStatusTyped ==
    ASSUME NEW rule, NEW facts
    PROVE  AtomicStatus(rule, facts) \in Status
BY DEF AtomicStatus, Status

\* A validated profile has facts of the right type.
LEMMA ProfileIsFacts ==
    ASSUME NEW s \in ValidProfiles
    PROVE  IsFacts(Profile(s))
<1> SUFFICES ASSUME NEW field \in Fields, field \in NumericFields,
                    s[field] # Unknown
             PROVE  IsNumber(Fact(field, s[field]))
  <2>1. \A field \in Fields : s[field] = Unknown => Fact(field, s[field]) = Unknown
    BY DEF Fact
  <2> QED
    BY <2>1 DEF IsFacts, Profile
<1>1. ValidFact(field, s[field])
  BY DEF ValidProfiles
<1>2. HasDecimal(s[field])
  BY <1>1 DEF ValidFact, NumericFields, HasDecimal
<1>3. Fact(field, s[field]) = AsDecimal(s[field])
  BY DEF Fact, NumericFields
<1> QED
  BY <1>2, <1>3 DEF HasDecimal, AsDecimal, IsNumber, IsText

-----------------------------------------------------------------------------
(* What depends on the rule set alone.                                     *)

LEMMA SameRules ==
    ASSUME UNCHANGED ruleSet, NEW list, NEW facts, NEW st
    PROVE  /\ Done(list)' = Done(list) /\ Frames' = Frames
           /\ ListInv(list)' <=> ListInv(list)
           /\ Solutions(facts)' = Solutions(facts)
           /\ Agrees(list, st)' <=> Agrees(list, st)
<1>1. Done(list)' = Done(list) /\ Frames' = Frames
  BY DEF Done, Frames
<1>2. ListInv(list)' <=> ListInv(list)
  <2>1. Outcomes' = Outcomes
    BY DEF Outcomes
  <2> QED
    BY <2>1 DEF ListInv, Children
<1>3. Solutions(facts)' = Solutions(facts)
  <2>1. \A t : Solves(t, facts)' <=> Solves(t, facts)
    BY DEF Solves, Children
  <2> QED
    BY <2>1 DEF Solutions
<1>4. Agrees(list, st)' <=> Agrees(list, st)
  BY DEF Agrees
<1> QED
  BY <1>1, <1>2, <1>3, <1>4

LEMMA ResultStays ==
    ASSUME UNCHANGED ruleSet, NEW report, NEW list, IsResult(report, list)
    PROVE  IsResult(report, list)'
<1>1. /\ Done(list)' = Done(list) /\ (ListInv(list)' <=> ListInv(list))
      /\ Solutions(report.profile)' = Solutions(report.profile)
  BY SameRules
<1>2. \A st : Agrees(list, st)' <=> Agrees(list, st)
  BY SameRules
<1> QED
  BY <1>1, <1>2 DEF IsResult

LEMMA ReportsStay ==
    ASSUME UNCHANGED <<ruleSet, reports>>, ReportsInv
    PROVE  ReportsInv'
<1> SUFFICES ASSUME NEW i \in DOMAIN reports
             PROVE  \E list : IsResult(reports[i], list)'
  BY DEF ReportsInv
<1>1. PICK list, report : report = reports[i] /\ IsResult(report, list)
  BY DEF ReportsInv
<1>2. IsResult(report, list)'
  BY <1>1, ResultStays
<1> QED
  BY <1>1, <1>2 DEF IsResult

-----------------------------------------------------------------------------
(* The steps.                                                              *)

LEMMA LoadKeeps == Inductive /\ Load => Inductive'
<1> SUFFICES ASSUME Inductive, Load PROVE Inductive'
  OBVIOUS
<1>1. /\ stage = "new" /\ stage' \in {"ready", "refused"}
      /\ reports = <<>> /\ outcomes = <<>> /\ stack = <<>>
      /\ UNCHANGED <<profile, stack, outcomes, reports>>
  BY DEF Inductive, RulesInv, PathInv, Load, Accepted
<1>2. RulesInv'
  <2>1. IsRuleSet(ruleSet) /\ IsRuleSet(Loaded(ruleSet))
    BY LoadedRules DEF Inductive, RulesInv
  <2>2. CASE Acceptable(ruleSet) /\ stage' = "ready" /\ ruleSet' = Loaded(ruleSet)
    BY <1>1, <2>1, <2>2 DEF RulesInv, Acceptable, Accepted
  <2>3. CASE stage' = "refused" /\ UNCHANGED ruleSet
    BY <1>1, <2>1, <2>3 DEF RulesInv, Accepted
  <2> QED
    BY <2>2, <2>3 DEF Load
<1>3. PathInv'
  BY <1>1 DEF PathInv
<1>4. ReportsInv'
  BY <1>1 DEF ReportsInv
<1>5. IsFacts(profile)' /\ ListInv(outcomes)'
  BY <1>1 DEF Inductive, IsFacts, ListInv
<1> QED
  BY <1>1, <1>2, <1>3, <1>4, <1>5 DEF Inductive

LEMMA EvaluateKeeps ==
    ASSUME Inductive, NEW s \in ValidProfiles, Evaluate(s)
    PROVE  Inductive'
<1>1. /\ stage = "ready" /\ stage' = "evaluating"
      /\ profile' = Profile(s) /\ UNCHANGED <<ruleSet, reports>>
      /\ stack' = <<[node |-> 1, statuses |-> <<>>]>> /\ outcomes' = <<>>
  BY DEF Evaluate, Call
<1>2. RulesInv'
  BY <1>1 DEF Inductive, RulesInv, Accepted
<1>3. IsFacts(profile)'
  BY <1>1, ProfileIsFacts DEF IsFacts
<1>4. IsRuleSet(ruleSet) /\ 1 \in DOMAIN ruleSet
  BY Nested DEF Inductive, RulesInv
<1>5. PathInv'
  <2>1. [node |-> 1, statuses |-> <<>>] \in Frames'
    BY <1>1, <1>4 DEF Frames
  <2>2. Children(1) \in Seq(DOMAIN ruleSet)
    BY <1>4, Nested
  <2> QED
    BY <1>1, <2>1, <2>2 DEF PathInv, Children
<1>6. ReportsInv'
  BY <1>1, ReportsStay DEF Inductive
<1>7. ListInv(outcomes)' /\ DoneInv' /\ ValueInv'
  <2>1. Done(outcomes)' = {}
    BY <1>1 DEF Done
  <2>2. ListInv(outcomes)'
    BY <1>1 DEF ListInv
  <2>3. DoneInv'
    BY <1>1, <2>1 DEF DoneInv
  <2>4. ValueInv'
    BY <1>1 DEF ValueInv, Agrees
  <2> QED
    BY <2>2, <2>3, <2>4
<1> QED
  BY <1>2, <1>3, <1>5, <1>6, <1>7 DEF Inductive

\* The innermost call.
LEMMA TopOfStack ==
    ASSUME Inductive, stage = "evaluating"
    PROVE  /\ Len(stack) \in Nat \ {0} /\ stack \in Seq(Frames)
           /\ Top = stack[Len(stack)] /\ Top \in Frames
           /\ Top.node \in DOMAIN ruleSet /\ Top.statuses \in Seq(Status)
           /\ Rule = ruleSet[Top.node] /\ Rule.children = Children(Top.node)
           /\ Len(Top.statuses) <= Len(Children(Top.node))
           /\ Top.node \notin Done(outcomes)
<1>1. PathInv /\ DoneInv /\ stack # <<>>
  BY DEF Inductive, PathInv
<1>2. stack \in Seq(Frames) /\ Len(stack) \in Nat \ {0}
  BY <1>1 DEF PathInv
<1>3. Top = stack[Len(stack)] /\ Top \in Frames
  BY <1>2 DEF Top
<1>4. Top.node \in DOMAIN ruleSet /\ Top.statuses \in Seq(Status)
  BY <1>3 DEF Frames
<1>5. Len(Top.statuses) <= Len(Children(Top.node))
  BY <1>1, <1>2, <1>3 DEF PathInv
<1>6. Top.node \notin Done(outcomes)
  BY <1>1, <1>2, <1>3 DEF DoneInv
<1> QED
  BY <1>2, <1>3, <1>4, <1>5, <1>6 DEF Rule, Children

LEMMA DescendKeeps == Inductive /\ Descend => Inductive'
<1> SUFFICES ASSUME Inductive, Descend PROVE Inductive'
  OBVIOUS
<1> DEFINE length == Len(stack)
           child == Children(Top.node)[Len(Top.statuses) + 1]
           frame == [node |-> child, statuses |-> <<>>]
<1>1. /\ stage = "evaluating" /\ NextChild
      /\ stack' = Append(stack, frame)
      /\ UNCHANGED <<stage, ruleSet, profile, reports, outcomes>>
  BY TopOfStack DEF Descend, Call
<1>2. /\ length \in Nat \ {0} /\ stack \in Seq(Frames)
      /\ Top = stack[length] /\ Top \in Frames
      /\ Top.node \in DOMAIN ruleSet /\ Top.statuses \in Seq(Status)
      /\ Top.node \notin Done(outcomes)
      /\ Len(Top.statuses) < Len(Children(Top.node))
  BY <1>1, TopOfStack DEF NextChild
<1>3. IsRuleSet(ruleSet) /\ PathInv /\ DoneInv /\ ValueInv /\ ListInv(outcomes)
  BY <1>1 DEF Inductive, RulesInv
<1>4. /\ Children(Top.node) \in Seq(Top.node + 1..Len(ruleSet))
      /\ Children(Top.node) \in Seq(DOMAIN ruleSet)
      /\ Len(ruleSet) \in Nat /\ DOMAIN ruleSet = 1..Len(ruleSet)
  BY <1>2, <1>3, Nested
<1>5. Len(Top.statuses) + 1 \in DOMAIN Children(Top.node)
  BY <1>2, <1>4
<1>6. child \in DOMAIN ruleSet /\ child > Top.node
  <2>1. child \in Top.node + 1..Len(ruleSet)
    BY <1>4, <1>5, ElementOfSeq
  <2> QED
    BY <1>2, <1>4, <2>1
<1>7. /\ Frames' = Frames /\ \A n : Children(n)' = Children(n)
      /\ Done(outcomes)' = Done(outcomes)
      /\ Solutions(profile)' = Solutions(profile)
  BY <1>1 DEF Frames, Children, Done, Solutions, Solves
<1> HIDE DEF child
<1>8. frame \in Frames /\ frame.node = child /\ frame.statuses = <<>>
  BY <1>6 DEF Frames
<1> HIDE DEF frame
<1>9. /\ stack' \in Seq(Frames) /\ Len(stack') = length + 1
      /\ stack'[length + 1] = frame
      /\ \A i \in 1..length : stack'[i] = stack[i]
  BY <1>1, <1>2, <1>8
<1>10. \A i \in 1..length : stack[i].node \in DOMAIN ruleSet /\ stack[i].node <= Top.node
  <2> SUFFICES ASSUME NEW i \in 1..length
               PROVE  stack[i].node \in DOMAIN ruleSet /\ stack[i].node <= Top.node
    OBVIOUS
  <2>1. stack[i] \in Frames
    BY <1>2
  <2>2. stack[i].node \in DOMAIN ruleSet
    BY <2>1 DEF Frames
  <2>3. i < length => stack[i].node < Top.node
    BY <1>2, <1>3 DEF PathInv
  <2> QED
    BY <1>2, <1>4, <2>2, <2>3
<1>11. PathInv'
  <2>1. stack' # <<>> /\ stack'[1].node = 1
    BY <1>2, <1>3, <1>9 DEF PathInv
  <2>2. \A i, j \in 1..length + 1 : i < j => stack'[i].node < stack'[j].node
    <3> SUFFICES ASSUME NEW i \in 1..length + 1, NEW j \in 1..length + 1, i < j
                 PROVE  stack'[i].node < stack'[j].node
      OBVIOUS
    <3>1. CASE j \in 1..length
      <4>1. i \in 1..length
        BY <1>2, <3>1
      <4>2. stack[i].node < stack[j].node
        BY <1>3, <3>1, <4>1 DEF PathInv
      <4> QED
        BY <1>9, <3>1, <4>1, <4>2
    <3>2. CASE j = length + 1
      <4>1. i \in 1..length /\ stack[i].node <= Top.node
        BY <1>2, <1>10, <3>2
      <4>2. stack'[i].node = stack[i].node /\ stack'[j].node = child
        BY <1>8, <1>9, <3>2, <4>1
      <4>3. stack[i].node \in Nat /\ Top.node \in Nat /\ child \in Nat
        BY <1>2, <1>4, <1>6, <1>10, <4>1
      <4> QED
        BY <1>6, <4>1, <4>2, <4>3
    <3> QED
      BY <1>2, <3>1, <3>2
  <2>3. \A i \in 1..length + 1 :
          Len(stack'[i].statuses) <= Len(Children(stack'[i].node))
    <3>1. Children(child) \in Seq(DOMAIN ruleSet)
      BY <1>3, <1>6, Nested
    <3>2. Len(frame.statuses) <= Len(Children(frame.node))
      BY <1>8, <3>1
    <3>3. \A i \in 1..length : Len(stack[i].statuses) <= Len(Children(stack[i].node))
      BY <1>3 DEF PathInv
    <3> QED
      BY <1>2, <1>9, <3>2, <3>3
  <2>4. \A i \in 1..length :
          /\ Len(stack'[i].statuses) < Len(Children(stack'[i].node))
          /\ stack'[i + 1].node
               = Children(stack'[i].node)[Len(stack'[i].statuses) + 1]
    <3> SUFFICES ASSUME NEW i \in 1..length
                 PROVE  /\ Len(stack'[i].statuses) < Len(Children(stack'[i].node))
                        /\ stack'[i + 1].node
                             = Children(stack'[i].node)[Len(stack'[i].statuses) + 1]
      OBVIOUS
    <3>1. CASE i = length
      BY <1>2, <1>8, <1>9, <3>1 DEF child
    <3>2. CASE i < length
      <4>1. i \in 1..length - 1 /\ i + 1 \in 1..length
        BY <1>2, <3>2
      <4> QED
        BY <1>3, <1>9, <4>1 DEF PathInv
    <3> QED
      BY <1>2, <3>1, <3>2
  <2> QED
    <3>1. stack' \in Seq(Frames) /\ Frames' = Frames /\ stage' = "evaluating"
      BY <1>1, <1>7, <1>9
    <3>2. \A i \in 1..Len(stack') :
            Len(stack'[i].statuses) <= Len(Children(stack[i].node)')
      BY <1>1, <1>9, <2>3 DEF Children
    <3>3. Len(stack') - 1 = length
      BY <1>2, <1>9
    <3>4. \A i \in 1..Len(stack') - 1 :
            /\ Len(stack'[i].statuses) < Len(Children(stack[i].node)')
            /\ stack'[i + 1].node = Children(stack[i].node)'[Len(stack'[i].statuses) + 1]
      BY <1>1, <2>4, <3>3 DEF Children
    <3> QED
      BY <1>9, <2>1, <2>2, <3>1, <3>2, <3>4 DEF PathInv
<1>12. child \notin Done(outcomes)
  <2> SUFFICES ASSUME child \in Done(outcomes) PROVE FALSE
    OBVIOUS
  <2>1. PICK i \in 1..length :
          stack[i].node = Top.node /\ Len(Top.statuses) + 1 <= Len(stack[i].statuses)
    BY <1>2, <1>3, <1>5 DEF DoneInv, child
  <2>2. i = length
    <3>1. i < length => stack[i].node < stack[length].node
      BY <1>2, <1>3 DEF PathInv
    <3> QED
      BY <1>2, <1>4, <2>1, <3>1
  <2> QED
    BY <1>2, <2>1, <2>2
<1>13. DoneInv'
  <2>1. \A i \in 1..length + 1 : stack'[i].node \notin Done(outcomes)
    BY <1>2, <1>3, <1>8, <1>9, <1>12 DEF DoneInv
  <2>2. \A i \in 1..length + 1 : \A j \in 1..Len(stack'[i].statuses) :
          Children(stack'[i].node)[j] \in Done(outcomes)
    BY <1>2, <1>3, <1>8, <1>9 DEF DoneInv
  <2>3. \A m \in DOMAIN ruleSet \ Done(outcomes) : \A j \in DOMAIN Children(m) :
          Children(m)[j] \in Done(outcomes) =>
             \E i \in 1..length + 1 :
                stack'[i].node = m /\ j <= Len(stack'[i].statuses)
    BY <1>2, <1>3, <1>9 DEF DoneInv
  <2> QED
    BY <1>1, <1>7, <1>9, <2>1, <2>2, <2>3 DEF DoneInv
<1>14. ValueInv'
  <2> SUFFICES ASSUME NEW st \in Solutions(profile)
               PROVE  /\ Agrees(outcomes, st)'
                      /\ \A i \in 1..length + 1 : \A j \in 1..Len(stack'[i].statuses) :
                            stack'[i].statuses[j] = st[Children(stack'[i].node)[j]]
    BY <1>7, <1>9 DEF ValueInv
  <2>1. Agrees(outcomes, st)'
    BY <1>1, <1>3 DEF ValueInv, Agrees
  <2> QED
    BY <1>2, <1>3, <1>8, <1>9, <2>1 DEF ValueInv
<1>15. ListInv(outcomes)'
  BY <1>1, <1>3 DEF ListInv, Outcomes, Children
<1>16. RulesInv' /\ IsFacts(profile)' /\ ReportsInv'
  BY <1>1, ReportsStay DEF Inductive, RulesInv, IsFacts, Accepted
<1> QED
  BY <1>11, <1>13, <1>14, <1>15, <1>16 DEF Inductive

\* The outcome of a rule that is not told of yet, but whose children are.
LEMMA AppendOutcome ==
    ASSUME \A m, n \in DOMAIN ruleSet :
              ruleSet[m].rule_id = ruleSet[n].rule_id => m = n,
           ListInv(outcomes),
           NEW n \in DOMAIN ruleSet, n \notin Done(outcomes),
           Elements(Children(n)) \subseteq Done(outcomes),
           NEW status \in Status,
           NEW next, next = Append(outcomes, Outcome(ruleSet[n], status))
    PROVE  /\ ListInv(next) /\ Done(next) = Done(outcomes) \cup {n}
           /\ \A st : Agrees(outcomes, st) /\ status = st[n] => Agrees(next, st)
<1> DEFINE outcome == Outcome(ruleSet[n], status)
           length == Len(outcomes)
<1>1. outcome.rule_id = ruleSet[n].rule_id /\ outcome.status = status
      /\ outcome \in Outcomes
  BY DEF Outcome, Outcomes
<1> HIDE DEF outcome
<1>2. outcomes \in Seq(Outcomes) /\ length \in Nat /\ DOMAIN outcomes = 1..length
  BY DEF ListInv
<1>3. /\ next \in Seq(Outcomes) /\ DOMAIN next = 1..length + 1
      /\ next[length + 1] = outcome
      /\ \A k \in DOMAIN outcomes : k \in DOMAIN next /\ next[k] = outcomes[k]
      /\ \A k \in DOMAIN next : k \in DOMAIN outcomes \/ k = length + 1
  BY <1>1, <1>2 DEF outcome
<1>4. \A k \in DOMAIN outcomes : outcomes[k].rule_id # ruleSet[n].rule_id
  BY DEF Done
<1>5. \A k, l \in DOMAIN next : next[k].rule_id = next[l].rule_id => k = l
  BY <1>1, <1>3, <1>4 DEF ListInv
<1>6. ASSUME NEW k \in DOMAIN next, NEW m \in DOMAIN ruleSet,
             next[k].rule_id = ruleSet[m].rule_id, NEW c \in Elements(Children(m))
      PROVE  \E l \in 1..k - 1 : next[l].rule_id = ruleSet[c].rule_id
  <2>1. CASE k \in DOMAIN outcomes
    <3>1. PICK l \in 1..k - 1 : outcomes[l].rule_id = ruleSet[c].rule_id
      BY <1>3, <1>6, <2>1 DEF ListInv
    <3>2. l \in DOMAIN outcomes
      BY <1>2, <2>1
    <3> QED
      BY <1>3, <3>1, <3>2
  <2>2. CASE k = length + 1
    <3>1. m = n
      BY <1>1, <1>3, <1>6, <2>2
    <3>2. PICK l \in DOMAIN outcomes : outcomes[l].rule_id = ruleSet[c].rule_id
      BY <1>6, <3>1 DEF Done
    <3> QED
      BY <1>2, <1>3, <2>2, <3>2
  <2> QED
    BY <1>3, <2>1, <2>2
<1>7. ListInv(next)
  BY <1>3, <1>5, <1>6 DEF ListInv
<1>8. Done(next) = Done(outcomes) \cup {n}
  <2>1. ASSUME NEW m \in Done(next) PROVE m \in Done(outcomes) \cup {n}
    <3>1. PICK k \in DOMAIN next : next[k].rule_id = ruleSet[m].rule_id
      BY DEF Done
    <3> QED
      BY <1>1, <1>3, <3>1 DEF Done
  <2>2. Done(outcomes) \subseteq Done(next)
    BY <1>3 DEF Done
  <2>3. n \in Done(next)
    BY <1>1, <1>2, <1>3 DEF Done
  <2> QED
    BY <2>1, <2>2, <2>3
<1>9. ASSUME NEW st, Agrees(outcomes, st), status = st[n],
             NEW k \in DOMAIN next, NEW m \in DOMAIN ruleSet,
             next[k].rule_id = ruleSet[m].rule_id
      PROVE  next[k].status = st[m]
  <2>1. CASE k \in DOMAIN outcomes
    BY <1>3, <1>9, <2>1 DEF Agrees
  <2>2. CASE k = length + 1
    BY <1>1, <1>3, <1>9, <2>2
  <2> QED
    BY <1>3, <2>1, <2>2
<1> QED
  BY <1>7, <1>8, <1>9 DEF Agrees

\* The root is told of last.
LEMMA RootIsLast ==
    ASSUME IsRuleSet(ruleSet),
           \A m, n \in DOMAIN ruleSet :
              ruleSet[m].rule_id = ruleSet[n].rule_id => m = n,
           NEW list, ListInv(list), 1 \in Done(list)
    PROVE  Done(list) = DOMAIN ruleSet
<1>1. Len(ruleSet) \in Nat /\ DOMAIN ruleSet = 1..Len(ruleSet)
  BY Nested
<1>2. ASSUME NEW n \in 1..Len(ruleSet), \A m \in 1..n - 1 : m \in Done(list)
      PROVE  n \in Done(list)
  <2>1. CASE n = 1
    BY <2>1
  <2>2. CASE n # 1
    <3>1. PICK m \in DOMAIN ruleSet : \E i \in DOMAIN Children(m) : Children(m)[i] = n
      BY <1>1, <2>2 DEF IsRuleSet, HasOnePlace, Children
    <3>2. n \in Elements(Children(m)) /\ m < n
      <4>1. Children(m) \in Seq(m + 1..Len(ruleSet))
        BY Nested
      <4>2. n \in m + 1..Len(ruleSet)
        BY <3>1, <4>1, ElementOfSeq
      <4> QED
        BY <1>1, <3>1, <4>2 DEF Elements
    <3>3. PICK k \in DOMAIN list : list[k].rule_id = ruleSet[m].rule_id
      BY <1>1, <1>2, <3>2 DEF Done
    <3>4. PICK l \in 1..k - 1 : list[l].rule_id = ruleSet[n].rule_id
      BY <3>2, <3>3 DEF ListInv
    <3>5. l \in DOMAIN list
      BY <3>3, <3>4 DEF ListInv
    <3> QED
      BY <1>1, <3>4, <3>5 DEF Done
  <2> QED
    BY <2>1, <2>2
<1>3. 1..Len(ruleSet) \subseteq Done(list)
  BY <1>1, <1>2, Upwards
<1> QED
  BY <1>1, <1>3 DEF Done

\* What Return appends, and to which list.
LEMMA ReturnAppends ==
    ASSUME Inductive, stage = "evaluating", NEW status \in Status,
           Return(status), UNCHANGED <<ruleSet, profile>>,
           Len(Top.statuses) = Len(Children(Top.node)),
           \A st \in Solutions(profile) : status = st[Top.node]
    PROVE  /\ ListInv(outcomes')
           /\ Done(outcomes') = Done(outcomes) \cup {Top.node}
           /\ \A st \in Solutions(profile) : Agrees(outcomes', st)
<1>1. /\ IsRuleSet(ruleSet) /\ ListInv(outcomes) /\ DoneInv /\ ValueInv
      /\ \A m, n \in DOMAIN ruleSet :
            ruleSet[m].rule_id = ruleSet[n].rule_id => m = n
  BY DEF Inductive, RulesInv, Accepted, ValidSemantics
<1>2. /\ Top = stack[Len(stack)] /\ Len(stack) \in Nat \ {0}
      /\ Top.node \in DOMAIN ruleSet /\ Top.node \notin Done(outcomes)
  BY TopOfStack
<1>3. Elements(Children(Top.node)) \subseteq Done(outcomes)
  <2>1. Children(Top.node) \in Seq(DOMAIN ruleSet)
    BY <1>1, <1>2, Nested
  <2> QED
    BY <1>1, <1>2, <2>1 DEF DoneInv, Elements
<1>4. PICK next : next = outcomes'
  OBVIOUS
<1>5. next = Append(outcomes, Outcome(ruleSet[Top.node], status))
  BY <1>4, TopOfStack DEF Return
<1>8. PICK n \in DOMAIN ruleSet : n = Top.node
  BY <1>2
<1>6. /\ ListInv(next) /\ Done(next) = Done(outcomes) \cup {Top.node}
      /\ \A st : Agrees(outcomes, st) /\ status = st[Top.node] => Agrees(next, st)
  <2>1. /\ n \notin Done(outcomes) /\ Elements(Children(n)) \subseteq Done(outcomes)
        /\ next = Append(outcomes, Outcome(ruleSet[n], status))
    BY <1>2, <1>3, <1>5, <1>8
  <2>2. /\ ListInv(next) /\ Done(next) = Done(outcomes) \cup {n}
        /\ \A st : Agrees(outcomes, st) /\ status = st[n] => Agrees(next, st)
    <3>1. \A k, l \in DOMAIN ruleSet :
            ruleSet[k].rule_id = ruleSet[l].rule_id => k = l
      BY <1>1
    <3>2. ListInv(outcomes)
      BY <1>1
    <3> QED
      BY <1>8, <2>1, <3>1, <3>2, AppendOutcome, Zenon
  <2> QED
    BY <1>8, <2>2
<1>7. \A st \in Solutions(profile) : Agrees(next, st)
  BY <1>1, <1>6 DEF ValueInv
<1> QED
  BY <1>4, <1>6, <1>7 DEF ListInv, Done, Agrees

\* The call of a child returns to its caller.
LEMMA ReturnToCaller ==
    ASSUME Inductive, stage = "evaluating", NEW status \in Status,
           Return(status), UNCHANGED <<ruleSet, profile>>,
           Len(Top.statuses) = Len(Children(Top.node)),
           \A st \in Solutions(profile) : status = st[Top.node],
           Len(stack) > 1
    PROVE  Inductive'
<1> DEFINE caller == Len(stack) - 1
           child == Len(stack[caller].statuses) + 1
<1>1. /\ stack' = [SubSeq(stack, 1, caller) EXCEPT
                      ![caller].statuses = Append(@, status)]
      /\ stage' = "evaluating" /\ UNCHANGED <<stage, reports, ruleSet, profile>>
  <2>1. Len(stack) # 1
    BY TopOfStack
  <2> QED
    BY <2>1 DEF Return
<1>2. PathInv /\ DoneInv /\ ValueInv /\ IsRuleSet(ruleSet)
  BY DEF Inductive, RulesInv
<1>3. /\ stack \in Seq(Frames) /\ Top = stack[caller + 1]
      /\ caller \in Nat \ {0} /\ Len(stack) = caller + 1
      /\ caller \in 1..Len(stack) /\ caller \in 1..Len(stack) - 1
  BY TopOfStack
<1>4. PICK before \in Frames : before = stack[caller]
  BY <1>3
<1>5. /\ before.node \in DOMAIN ruleSet /\ before.statuses \in Seq(Status)
      /\ Children(before.node) \in Seq(DOMAIN ruleSet)
      /\ child = Len(before.statuses) + 1
      /\ child <= Len(Children(before.node))
      /\ Top.node = Children(before.node)[child]
  <2>1. before.node \in DOMAIN ruleSet /\ before.statuses \in Seq(Status)
    BY DEF Frames
  <2>2. Children(before.node) \in Seq(DOMAIN ruleSet)
    BY <1>2, <2>1, Nested
  <2>3. /\ Len(before.statuses) < Len(Children(before.node))
        /\ Top.node = Children(before.node)[Len(before.statuses) + 1]
    BY <1>2, <1>3, <1>4 DEF PathInv
  <2> QED
    BY <1>4, <2>1, <2>2, <2>3
<1>6. PICK after \in Frames : after = [before EXCEPT !.statuses = Append(@, status)]
  <2>1. Append(before.statuses, status) \in Seq(Status)
    BY <1>5
  <2> QED
    BY <1>5, <2>1 DEF Frames
<1>7. /\ after.node = before.node /\ after.statuses = Append(before.statuses, status)
      /\ Len(after.statuses) = child
      /\ after.statuses[child] = status
      /\ \A j \in 1..child - 1 : after.statuses[j] = before.statuses[j]
  BY <1>5, <1>6 DEF Frames
<1>8. /\ stack' \in Seq(Frames) /\ Len(stack') = caller
      /\ stack'[caller] = after
      /\ \A i \in 1..caller - 1 : stack'[i] = stack[i]
  <2>1. SubSeq(stack, 1, caller) \in Seq(Frames) /\ Len(SubSeq(stack, 1, caller)) = caller
        /\ \A i \in 1..caller : SubSeq(stack, 1, caller)[i] = stack[i]
    BY <1>3
  <2>2. stack' = [SubSeq(stack, 1, caller) EXCEPT ![caller] = after]
    BY <1>1, <1>3, <1>4, <1>6, <2>1
  <2> QED
    <3>1. PICK seq \in Seq(Frames) : seq = SubSeq(stack, 1, caller)
      BY <2>1
    <3>2. /\ Len(seq) = caller /\ caller \in 1..Len(seq)
          /\ stack' = [seq EXCEPT ![caller] = after]
          /\ \A i \in 1..caller : seq[i] = stack[i]
      BY <1>3, <2>1, <2>2, <3>1
    <3> HIDE DEF caller
    <3> QED
      BY <1>3, <3>2, ReplaceInSeq
<1>9. /\ Frames' = Frames /\ \A n : Children(n)' = Children(n)
      /\ Solutions(profile)' = Solutions(profile)
  BY <1>1 DEF Frames, Children, Solutions, Solves
<1> HIDE DEF child, caller
<1>10. \A i \in 1..caller :
          /\ stack'[i].node = stack[i].node
          /\ i # caller => stack'[i] = stack[i]
  BY <1>3, <1>4, <1>7, <1>8
<1>11. PathInv'
  <2>1. stack' # <<>> /\ stack'[1].node = 1
    BY <1>2, <1>3, <1>8, <1>10 DEF PathInv
  <2>2. \A i, j \in 1..caller : i < j => stack'[i].node < stack'[j].node
    BY <1>2, <1>3, <1>10 DEF PathInv
  <2>3. \A i \in 1..caller :
          Len(stack'[i].statuses) <= Len(Children(stack'[i].node))
    <3>1. \A i \in 1..caller : Len(stack[i].statuses) <= Len(Children(stack[i].node))
      BY <1>2, <1>3 DEF PathInv
    <3>2. Len(stack'[caller].statuses) <= Len(Children(stack'[caller].node))
      BY <1>5, <1>7, <1>8
    <3> QED
      BY <1>10, <3>1, <3>2
  <2>4. \A i \in 1..caller - 1 :
          /\ Len(stack'[i].statuses) < Len(Children(stack'[i].node))
          /\ stack'[i + 1].node
               = Children(stack'[i].node)[Len(stack'[i].statuses) + 1]
    <3> SUFFICES ASSUME NEW i \in 1..caller - 1
                 PROVE  /\ Len(stack'[i].statuses) < Len(Children(stack'[i].node))
                        /\ stack'[i + 1].node
                             = Children(stack'[i].node)[Len(stack'[i].statuses) + 1]
      OBVIOUS
    <3>1. i \in 1..Len(stack) - 1 /\ i + 1 \in 1..caller /\ i # caller
      BY <1>3
    <3>2. i \in 1..caller /\ stack'[i] = stack[i] /\ stack'[i + 1].node = stack[i + 1].node
      BY <1>3, <1>10, <3>1
    <3>3. /\ Len(stack[i].statuses) < Len(Children(stack[i].node))
          /\ stack[i + 1].node = Children(stack[i].node)[Len(stack[i].statuses) + 1]
      BY <1>2, <3>1 DEF PathInv
    <3> QED
      BY <3>2, <3>3
  <2> QED
    <3>1. \A i \in 1..Len(stack') :
            Len(stack'[i].statuses) <= Len(Children(stack[i].node)')
      BY <1>1, <1>8, <2>3 DEF Children
    <3>2. \A i \in 1..Len(stack') - 1 :
            /\ Len(stack'[i].statuses) < Len(Children(stack[i].node)')
            /\ stack'[i + 1].node = Children(stack[i].node)'[Len(stack'[i].statuses) + 1]
      BY <1>1, <1>8, <2>4 DEF Children
    <3> QED
      BY <1>1, <1>8, <1>9, <2>1, <2>2, <3>1, <3>2 DEF PathInv
<1>12. /\ ListInv(outcomes)' /\ \A st \in Solutions(profile) : Agrees(outcomes, st)'
       /\ Done(outcomes)' = Done(outcomes) \cup {Top.node}
  <2>1. PICK next : next = outcomes'
    OBVIOUS
  <2>2. /\ ListInv(next) /\ \A st \in Solutions(profile) : Agrees(next, st)
        /\ Done(next) = Done(outcomes) \cup {Top.node}
    BY <2>1, ReturnAppends DEF ListInv, Agrees, Done
  <2> QED
    BY <1>1, <1>9, <2>1, <2>2 DEF ListInv, Agrees, Done, Outcomes
<1>13. DoneInv'
  <2> DEFINE done == Done(outcomes) \cup {Top.node}
  <2>1. \A i \in 1..caller : stack'[i].node \notin done
    <3> SUFFICES ASSUME NEW i \in 1..caller PROVE stack[i].node \notin done
      BY <1>10
    <3>1. stack[i].node < Top.node /\ stack[i].node \notin Done(outcomes)
      BY <1>2, <1>3 DEF PathInv, DoneInv
    <3>2. stack[i].node # Top.node
      <4>1. stack[i] \in Frames
        BY <1>3
      <4>2. stack[i].node \in Nat
        BY <1>2, <4>1, Nested DEF Frames
      <4> QED
        BY <3>1, <4>2
    <3> QED
      BY <3>1, <3>2
  <2>2. \A i \in 1..caller : \A j \in 1..Len(stack'[i].statuses) :
          Children(stack'[i].node)[j] \in done
    <3>1. \A i \in 1..caller : \A j \in 1..Len(stack[i].statuses) :
            Children(stack[i].node)[j] \in done
      BY <1>2, <1>3 DEF DoneInv
    <3>2. \A j \in 1..child : Children(before.node)[j] \in done
      BY <1>3, <1>4, <1>5, <3>1
    <3> QED
      BY <1>3, <1>7, <1>8, <1>10, <3>1, <3>2
  <2>3. \A m \in DOMAIN ruleSet \ done : \A j \in DOMAIN Children(m) :
          Children(m)[j] \in done =>
             \E i \in 1..caller :
                stack'[i].node = m /\ j <= Len(stack'[i].statuses)
    <3> SUFFICES ASSUME NEW m \in DOMAIN ruleSet \ done, NEW j \in DOMAIN Children(m),
                        Children(m)[j] \in done
                 PROVE  \E i \in 1..caller :
                          stack'[i].node = m /\ j <= Len(stack'[i].statuses)
      OBVIOUS
    <3>1. CASE Children(m)[j] \in Done(outcomes)
      <4>1. PICK i \in 1..Len(stack) :
               stack[i].node = m /\ j <= Len(stack[i].statuses)
        BY <1>2, <3>1 DEF DoneInv
      <4>2. i \in 1..caller
        BY <1>3, <4>1
      <4>3. CASE i = caller
        <5>1. Children(m) \in Seq(DOMAIN ruleSet)
          BY <1>2, Nested
        <5> QED
          BY <1>4, <1>5, <1>7, <1>8, <4>1, <4>2, <4>3, <5>1
      <4> QED
        BY <1>10, <4>1, <4>2, <4>3
    <3>2. CASE Children(m)[j] = Top.node
      <4>1. child \in DOMAIN Children(before.node)
        BY <1>5
      <4>2. PICK n \in DOMAIN ruleSet : n = before.node
        BY <1>5
      <4>3. child \in DOMAIN Children(n) /\ Children(m)[j] = Children(n)[child]
        BY <1>5, <3>2, <4>1, <4>2
      <4>4. m = before.node /\ j = child
        BY <1>2, <4>2, <4>3, Nested
      <4> QED
        BY <1>3, <1>5, <1>7, <1>8, <4>4
    <3> QED
      BY <3>1, <3>2
  <2> HIDE DEF done
  <2> QED
    BY <1>1, <1>8, <1>9, <1>12, <2>1, <2>2, <2>3 DEF DoneInv, done
<1>14. ValueInv'
  <2> SUFFICES ASSUME NEW st \in Solutions(profile)
               PROVE  \A i \in 1..caller : \A j \in 1..Len(stack'[i].statuses) :
                         stack'[i].statuses[j] = st[Children(stack'[i].node)[j]]
    BY <1>1, <1>8, <1>9, <1>12 DEF ValueInv
  <2>1. \A i \in 1..caller : \A j \in 1..Len(stack[i].statuses) :
           stack[i].statuses[j] = st[Children(stack[i].node)[j]]
    BY <1>2, <1>3 DEF ValueInv
  <2>2. \A j \in 1..child : after.statuses[j] = st[Children(before.node)[j]]
    <3>1. \A j \in 1..child - 1 : after.statuses[j] = st[Children(before.node)[j]]
      BY <1>3, <1>4, <1>5, <1>7, <2>1
    <3>2. after.statuses[child] = st[Children(before.node)[child]]
      BY <1>5, <1>7
    <3> QED
      BY <1>5, <3>1, <3>2
  <2>3. \A j \in 1..Len(stack'[caller].statuses) :
          stack'[caller].statuses[j] = st[Children(stack'[caller].node)[j]]
    BY <1>7, <1>8, <2>2
  <2>4. \A i \in 1..caller : i # caller => \A j \in 1..Len(stack'[i].statuses) :
          stack'[i].statuses[j] = st[Children(stack'[i].node)[j]]
    BY <1>10, <2>1
  <2> QED
    BY <2>3, <2>4
<1>15. RulesInv' /\ IsFacts(profile)' /\ ReportsInv'
  BY <1>1, ReportsStay DEF Inductive, RulesInv, IsFacts, Accepted
<1> QED
  BY <1>11, <1>12, <1>13, <1>14, <1>15 DEF Inductive

\* The call of the root returns the result.
LEMMA ReturnResult ==
    ASSUME Inductive, stage = "evaluating", NEW status \in Status,
           Return(status), UNCHANGED <<ruleSet, profile>>,
           Len(Top.statuses) = Len(Children(Top.node)),
           \A st \in Solutions(profile) : status = st[Top.node],
           Len(stack) = 1
    PROVE  Inductive'
<1>1. PICK list, report : list = outcomes' /\ report = Result(status, list)
  OBVIOUS
<1>2. /\ stack' = <<>> /\ stage' = "ready" /\ reports' = Append(reports, report)
      /\ UNCHANGED <<ruleSet, profile>>
  BY <1>1 DEF Return
<1>3. Top.node = 1
  BY TopOfStack DEF Inductive, PathInv
<1>4. /\ IsRuleSet(ruleSet) /\ ReportsInv /\ IsFacts(profile)
      /\ \A m, n \in DOMAIN ruleSet :
            ruleSet[m].rule_id = ruleSet[n].rule_id => m = n
  BY DEF Inductive, RulesInv, Accepted, ValidSemantics
<1>5. /\ ListInv(list) /\ 1 \in Done(list)
      /\ \A st \in Solutions(profile) : Agrees(list, st)
  BY <1>1, <1>3, ReturnAppends DEF ListInv, Done, Agrees
<1>6. Done(list) = DOMAIN ruleSet
  BY <1>4, <1>5, RootIsLast
<1>7. /\ report.profile = profile /\ report.decision = Decision[status]
      /\ report.rules = [s \in Status |-> Only(list, s)]
  BY <1>1 DEF Result
<1>8. IsResult(report, list)
  BY <1>3, <1>4, <1>5, <1>6, <1>7 DEF IsResult
<1>9. IsResult(report, list)'
  BY <1>2, <1>8, ResultStays
<1>10. ReportsInv'
  <2>1. PICK S : reports \in Seq(S)
    BY <1>4 DEF ReportsInv
  <2>2. reports' \in Seq(S \cup {report})
    BY <1>2, <2>1
  <2>3. ASSUME NEW i \in DOMAIN reports'
        PROVE  \E l : IsResult(reports[i], l)'
    <3>1. CASE i \in DOMAIN reports
      <4>1. PICK l, r : r = reports[i] /\ IsResult(r, l)
        BY <1>4, <3>1 DEF ReportsInv
      <4>2. IsResult(r, l)'
        BY <1>2, <4>1, ResultStays
      <4>3. reports'[i] = r
        BY <1>2, <2>1, <3>1, <4>1
      <4> QED
        BY <4>2, <4>3 DEF IsResult
    <3>2. CASE i \notin DOMAIN reports
      <4>1. reports'[i] = report
        BY <1>2, <2>1, <2>3, <3>2
      <4> QED
        BY <1>9, <4>1 DEF IsResult
    <3> QED
      BY <3>1, <3>2
  <2> QED
    BY <2>2, <2>3 DEF ReportsInv
<1>11. RulesInv' /\ IsFacts(profile)' /\ ListInv(outcomes)'
  BY <1>1, <1>2, <1>5
     DEF Inductive, RulesInv, IsFacts, Accepted, ListInv, Outcomes, Children
<1>12. PathInv'
  BY <1>2 DEF PathInv
<1> QED
  BY <1>2, <1>10, <1>11, <1>12 DEF Inductive

LEMMA ReturnKeeps ==
    ASSUME Inductive, stage = "evaluating", NEW status \in Status,
           Return(status), UNCHANGED <<ruleSet, profile>>,
           Len(Top.statuses) = Len(Children(Top.node)),
           \A st \in Solutions(profile) : status = st[Top.node]
    PROVE  Inductive'
<1>1. Len(stack) \in Nat \ {0}
  BY TopOfStack
<1>2. Len(stack) = 1 \/ Len(stack) > 1
  <2>1. \A k \in Nat \ {0} : k = 1 \/ k > 1
    OBVIOUS
  <2> QED
    BY <1>1, <2>1
<1> QED
  BY <1>2, ReturnToCaller, ReturnResult

\* A comparison is of a field that has numbers.
LEMMA NothingRaises ==
    ASSUME Inductive, stage = "evaluating", Rule.operator \notin Composite
    PROVE  ~Raises(Rule)
<1>1. /\ Rule = ruleSet[Top.node] /\ Top.node \in DOMAIN ruleSet
      /\ IsRule(Rule) /\ WellTyped(Rule)
  BY TopOfStack
     DEF Inductive, RulesInv, Accepted, ValidSemantics, IsRuleSet
<1>2. Rule.field \in Fields
  BY <1>1 DEF IsRule
<1> QED
  BY <1>1, <1>2 DEF Inductive, IsFacts, WellTyped, Raises

LEMMA AtomicKeeps == Inductive /\ Atomic => Inductive'
<1> SUFFICES ASSUME Inductive, Atomic PROVE Inductive'
  OBVIOUS
<1>1. stage = "evaluating" /\ Rule.operator \notin Composite
  BY DEF Atomic
<1>2. PICK status \in Status : status = AtomicStatus(Rule, profile)
  BY AtomicStatusTyped
<1>3. Return(status) /\ UNCHANGED <<ruleSet, profile>>
  BY <1>1, <1>2, NothingRaises DEF Atomic
<1>4. /\ Rule = ruleSet[Top.node] /\ Top.node \in DOMAIN ruleSet
      /\ Children(Top.node) = <<>> /\ Len(Top.statuses) = 0
  <2>1. /\ Rule = ruleSet[Top.node] /\ Top.node \in DOMAIN ruleSet
        /\ Top.statuses \in Seq(Status)
        /\ Len(Top.statuses) <= Len(Children(Top.node))
    BY <1>1, TopOfStack
  <2>2. Children(Top.node) = <<>>
    BY <1>1, <2>1, Nested DEF Inductive, RulesInv
  <2> QED
    BY <2>1, <2>2
<1>5. \A st \in Solutions(profile) : status = st[Top.node]
  BY <1>1, <1>2, <1>4 DEF Solutions, Solves
<1> QED
  BY <1>1, <1>2, <1>3, <1>4, <1>5, ReturnKeeps

LEMMA CombineKeeps == Inductive /\ Combine => Inductive'
<1> SUFFICES ASSUME Inductive, Combine PROVE Inductive'
  OBVIOUS
<1>1. stage = "evaluating" /\ Rule.operator \in Composite /\ ~NextChild
  BY DEF Combine
<1>2. PICK status \in Status :
        status = GroupStatus(Rule.operator, Elements(Top.statuses))
  BY <1>1, GroupStatusTyped
<1>3. Return(status) /\ UNCHANGED <<ruleSet, profile>>
  BY <1>2 DEF Combine
<1>4. /\ Rule = ruleSet[Top.node] /\ Top.node \in DOMAIN ruleSet
      /\ Top = stack[Len(stack)] /\ Len(stack) \in Nat \ {0}
      /\ Top.statuses \in Seq(Status)
      /\ Children(Top.node) \in Seq(DOMAIN ruleSet)
      /\ Len(Top.statuses) = Len(Children(Top.node))
  <2>1. /\ Rule = ruleSet[Top.node] /\ Top.node \in DOMAIN ruleSet
        /\ Top = stack[Len(stack)] /\ Len(stack) \in Nat \ {0}
        /\ Top.statuses \in Seq(Status) /\ Rule.children = Children(Top.node)
        /\ Len(Top.statuses) <= Len(Children(Top.node))
    BY <1>1, TopOfStack
  <2>2. Children(Top.node) \in Seq(DOMAIN ruleSet)
    BY <2>1, Nested DEF Inductive, RulesInv
  <2> QED
    BY <1>1, <2>1, <2>2 DEF NextChild
<1>5. ASSUME NEW st \in Solutions(profile) PROVE status = st[Top.node]
  <2>1. \A j \in 1..Len(Top.statuses) : Top.statuses[j] = st[Children(Top.node)[j]]
    BY <1>1, <1>4 DEF Inductive, ValueInv
  <2>2. Elements(Top.statuses) = {st[c] : c \in Elements(Children(Top.node))}
    BY <1>4, <2>1 DEF Elements
  <2> QED
    BY <1>1, <1>2, <1>4, <2>2 DEF Solutions, Solves
<1> QED
  BY <1>1, <1>2, <1>3, <1>4, <1>5, ReturnKeeps

-----------------------------------------------------------------------------
(* Every step keeps it.                                                    *)

LEMMA InitEstablishes == Init => Inductive
<1> SUFFICES ASSUME Init PROVE Inductive
  OBVIOUS
<1>1. RulesInv
  BY EligibilityAssumption DEF Init, RulesInv, Accepted
<1>2. IsFacts(profile) /\ PathInv /\ ListInv(outcomes) /\ ReportsInv
  BY DEF Init, IsFacts, PathInv, ListInv, ReportsInv
<1> QED
  BY <1>1, <1>2 DEF Init, Inductive

LEMMA StutterKeeps == Inductive /\ UNCHANGED vars => Inductive'
<1> SUFFICES ASSUME Inductive, UNCHANGED vars PROVE Inductive'
  OBVIOUS
<1>1. UNCHANGED <<stage, ruleSet, profile, stack, outcomes, reports>>
  BY DEF vars
<1>2. RulesInv' /\ IsFacts(profile)'
  BY <1>1 DEF Inductive, RulesInv, IsFacts, Accepted
<1>3. PathInv'
  BY <1>1 DEF Inductive, PathInv, Frames, Children
<1>4. ReportsInv'
  BY <1>1, ReportsStay DEF Inductive
<1>5. /\ Done(outcomes)' = Done(outcomes) /\ ListInv(outcomes)'
      /\ Solutions(profile)' = Solutions(profile)
      /\ \A n : Children(n)' = Children(n)
      /\ \A st : Agrees(outcomes, st)' <=> Agrees(outcomes, st)
  BY <1>1 DEF Inductive, ListInv, Outcomes, Done, Children, Solutions, Solves, Agrees
<1>6. DoneInv => DoneInv'
  BY <1>1, <1>5 DEF DoneInv, Children
<1>7. ValueInv => ValueInv'
  BY <1>1, <1>5 DEF ValueInv, Children
<1> QED
  BY <1>1, <1>2, <1>3, <1>4, <1>5, <1>6, <1>7 DEF Inductive

LEMMA InductiveHolds == Spec => []Inductive
<1>1. Init => Inductive
  BY InitEstablishes
<1>2. Inductive /\ [Next]_vars => Inductive'
  BY LoadKeeps, EvaluateKeeps, DescendKeeps, AtomicKeeps, CombineKeeps,
     StutterKeeps DEF Next
<1> QED
  BY <1>1, <1>2, PTL DEF Spec

-----------------------------------------------------------------------------
(* Statuses and truth values.                                              *)

\* Children have later places, and a negation has one child.
LEMMA ChildrenAfter ==
    ASSUME IsRuleSet(ruleSet), NEW n \in DOMAIN ruleSet
    PROVE  /\ \A c \in Elements(Children(n)) :
                 c \in n + 1..Len(ruleSet) /\ c \in DOMAIN ruleSet
           /\ ruleSet[n].operator = "not" =>
                 Elements(Children(n)) = {Children(n)[1]}
<1>1. /\ Children(n) \in Seq(n + 1..Len(ruleSet))
      /\ Elements(Children(n)) \subseteq DOMAIN ruleSet
  BY Nested
<1>2. \A i \in DOMAIN Children(n) : Children(n)[i] \in n + 1..Len(ruleSet)
  BY <1>1, ElementOfSeq
<1>3. ASSUME ruleSet[n].operator = "not"
      PROVE  Elements(Children(n)) = {Children(n)[1]}
  <2>1. Len(Children(n)) = 1
    BY <1>3 DEF IsRuleSet, IsRule, Children, Comparison
  <2>2. DOMAIN Children(n) = {1}
    BY <1>1, <2>1
  <2> QED
    BY <2>2 DEF Elements
<1> QED
  BY <1>1, <1>2, <1>3 DEF Elements

\* There is a status for each rule: those of the children come first.
LEMMA SolutionsExist ==
    ASSUME IsRuleSet(ruleSet), NEW facts
    PROVE  Solutions(facts) # {}
<1> DEFINE N == Len(ruleSet)
           Value(st, n) == IF ruleSet[n].operator \in Composite
                           THEN GroupStatus(ruleSet[n].operator,
                                            {st[c] : c \in Elements(Children(n))})
                           ELSE AtomicStatus(ruleSet[n], facts)
           From(k) == {st \in [1..N -> Status] :
                          \A n \in 1..N : n > N - k => st[n] = Value(st, n)}
           T == {k \in 1..N : From(k) # {}}
<1>1. N \in Nat /\ DOMAIN ruleSet = 1..N /\ 1 \in 1..N
  BY Nested
<1>2. \A st, n : n \in 1..N => Value(st, n) \in Status
  BY GroupStatusTyped, AtomicStatusTyped
<1>3. \A n \in 1..N : \A c \in Elements(Children(n)) : c \in n + 1..N
  BY <1>1, ChildrenAfter
<1>4. ASSUME NEW k \in 1..N, NEW st \in [1..N -> Status],
             \A n \in 1..N : n > N - k + 1 => st[n] = Value(st, n)
      PROVE  k \in T
  <2> DEFINE m == N - k + 1
             next == [st EXCEPT ![m] = Value(st, m)]
  <2>1. m \in 1..N
    BY <1>1
  <2>2. next \in [1..N -> Status] /\ next[m] = Value(st, m)
        /\ \A n \in 1..N : n # m => next[n] = st[n]
    BY <1>2, <2>1
  <2> HIDE DEF next
  <2>3. ASSUME NEW n \in 1..N, n >= m
        PROVE  Value(next, n) = Value(st, n)
    <3>1. \A c \in Elements(Children(n)) : next[c] = st[c]
      BY <1>1, <1>3, <2>1, <2>2, <2>3
    <3>2. {next[c] : c \in Elements(Children(n))} = {st[c] : c \in Elements(Children(n))}
      BY <3>1
    <3> QED
      BY <3>2
  <2> HIDE DEF Value
  <2>4. \A n \in 1..N : n > N - k => next[n] = Value(next, n)
    BY <1>1, <1>4, <2>1, <2>2, <2>3
  <2> QED
    BY <2>2, <2>4
<1> HIDE DEF Value
<1>5. ASSUME NEW k \in 1..N, \A l \in 1..k - 1 : l \in T
      PROVE  k \in T
  <2>1. CASE k = 1
    <3>1. PICK st : st \in [1..N -> Status]
      <4>1. [n \in 1..N |-> "unknown"] \in [1..N -> Status]
        BY DEF Status
      <4> QED
        BY <4>1
    <3> QED
      BY <1>1, <1>4, <2>1, <3>1
  <2>2. CASE k # 1
    <3>1. PICK st : st \in From(k - 1)
      BY <1>5, <2>2
    <3> QED
      BY <1>1, <1>4, <2>2, <3>1
  <2> QED
    BY <2>1, <2>2
<1>6. N \in T
  <2> HIDE DEF T
  <2>1. 1..N \subseteq T
    BY <1>1, <1>5, Upwards
  <2> QED
    BY <1>1, <2>1
<1>7. PICK st \in [1..N -> Status] : \A n \in 1..N : st[n] = Value(st, n)
  BY <1>1, <1>6
<1>8. st \in [DOMAIN ruleSet -> Status] /\ Solves(st, facts)
  BY <1>1, <1>7 DEF Solves, Value
<1> QED
  BY <1>8 DEF Solutions

\* The equations of the two-valued reading.
Truth(h, full) ==
    \A n \in DOMAIN ruleSet :
        /\ ruleSet[n].operator = "all" =>
              (h[n] <=> \A c \in Elements(Children(n)) : h[c])
        /\ ruleSet[n].operator = "any" =>
              (h[n] <=> \E c \in Elements(Children(n)) : h[c])
        /\ ruleSet[n].operator = "not" => (h[n] <=> ~h[Children(n)[1]])
        /\ ruleSet[n].operator \notin Composite =>
              (h[n] <=> Matches(ruleSet[n], full[ruleSet[n].field]))

\* Holds is what its recursive definition says it is.
LEMMA HoldsUnfolds ==
    ASSUME IsRuleSet(ruleSet), NEW full
    PROVE  \E h : Truth(h, full) /\ (Holds(full) <=> h[1])
<1> DEFINE N == Len(ruleSet)
           Value(h, n) ==
             LET rule == ruleSet[n]
             IN  CASE rule.operator = "all" -> \A c \in Elements(rule.children) : h[c]
                   [] rule.operator = "any" -> \E c \in Elements(rule.children) : h[c]
                   [] rule.operator = "not" -> ~h[rule.children[1]]
                   [] OTHER -> Matches(rule, full[rule.field])
           IsMap(h) == h = [n \in 1..N |-> h[n]]
           T == {k \in 1..N : \E h : IsMap(h) /\ \A n \in 1..N :
                                 n > N - k => h[n] = Value(h, n)}
<1>1. N \in Nat /\ DOMAIN ruleSet = 1..N /\ 1 \in 1..N
  BY Nested
<1>2. \A n \in 1..N : \A c \in Elements(Children(n)) : c \in n + 1..N
  BY <1>1, ChildrenAfter
<1>3. \A n \in 1..N : ruleSet[n].operator = "not" =>
          Children(n)[1] \in Elements(Children(n))
  BY <1>1, ChildrenAfter
<1>4. ASSUME NEW n \in 1..N, NEW h, NEW g,
             \A c \in Elements(Children(n)) : h[c] = g[c]
      PROVE  Value(h, n) = Value(g, n)
  BY <1>3, <1>4 DEF Children
<1>5. ASSUME NEW k \in 1..N, NEW h, IsMap(h),
             \A n \in 1..N : n > N - k + 1 => h[n] = Value(h, n)
      PROVE  k \in T
  <2> DEFINE m == N - k + 1
             next == [h EXCEPT ![m] = Value(h, m)]
  <2> HIDE DEF Value
  <2>1. m \in 1..N
    BY <1>1
  <2>2. IsMap(next) /\ next[m] = Value(h, m)
        /\ \A n \in 1..N : n # m => next[n] = h[n]
    BY <1>5, <2>1
  <2> HIDE DEF next
  <2>3. ASSUME NEW n \in 1..N, n >= m
        PROVE  Value(next, n) = Value(h, n)
    <3>1. \A c \in Elements(Children(n)) : next[c] = h[c]
      BY <1>1, <1>2, <2>1, <2>2, <2>3
    <3> QED
      BY <1>4, <3>1
  <2> HIDE DEF IsMap, T
  <2>4. ASSUME NEW n \in 1..N, n > N - k
        PROVE  next[n] = Value(next, n)
    <3>1. n >= m
      BY <1>1, <2>4
    <3>2. Value(next, n) = Value(h, n)
      BY <2>3, <3>1
    <3>3. CASE n = m
      BY <2>2, <3>2, <3>3
    <3>4. CASE n # m
      <4>1. n > N - k + 1
        BY <1>1, <3>1, <3>4
      <4> QED
        BY <1>5, <2>2, <3>2, <3>4, <4>1
    <3> QED
      BY <3>3, <3>4
  <2> USE DEF T
  <2> QED
    BY <2>2, <2>4
<1> HIDE DEF Value
<1>6. ASSUME NEW k \in 1..N, \A l \in 1..k - 1 : l \in T
      PROVE  k \in T
  <2>1. CASE k = 1
    <3>1. PICK h : h = [n \in 1..N |-> TRUE]
      OBVIOUS
    <3>2. IsMap(h)
      BY <3>1
    <3> HIDE DEF IsMap
    <3> QED
      BY <1>1, <1>5, <2>1, <3>2
  <2>2. CASE k # 1
    <3>1. k - 1 \in T
      BY <1>6, <2>2
    <3> HIDE DEF IsMap
    <3>2. PICK h : IsMap(h) /\ \A n \in 1..N : n > N - (k - 1) => h[n] = Value(h, n)
      BY <3>1
    <3> QED
      BY <1>1, <1>5, <2>2, <3>2
  <2> QED
    BY <2>1, <2>2
<1>7. N \in T
  <2> HIDE DEF T
  <2>1. 1..N \subseteq T
    BY <1>1, <1>6, Upwards
  <2> QED
    BY <1>1, <2>1
<1>8. PICK h : h = [n \in 1..N |-> Value(h, n)]
  <2>1. PICK h : IsMap(h) /\ \A n \in 1..N : h[n] = Value(h, n)
    BY <1>1, <1>7
  <2> QED
    BY <2>1
<1>9. PICK holds : /\ holds = [n \in DOMAIN ruleSet |-> Value(holds, n)]
                   /\ Holds(full) = holds[1]
  BY <1>1, <1>8 DEF Holds, Value
<1>10. Truth(holds, full)
  BY <1>1, <1>9 DEF Truth, Value, Children, Composite
<1> QED
  BY <1>9, <1>10

\* A status that is known is the truth in every completion.
LEMMA KnownIsTrue ==
    ASSUME IsRuleSet(ruleSet), NEW facts, NEW full, Extends(full, facts),
           NEW h, Truth(h, full), NEW st \in Solutions(facts)
    PROVE  \A n \in DOMAIN ruleSet :
              (st[n] = "passed" => h[n]) /\ (st[n] = "failed" => ~h[n])
<1> DEFINE N == Len(ruleSet)
           T == {n \in 1..N : (st[n] = "passed" => h[n])
                                /\ (st[n] = "failed" => ~h[n])}
<1>1. N \in Nat /\ DOMAIN ruleSet = 1..N
  BY Nested
<1>2. ASSUME NEW n \in 1..N, \A m \in n + 1..N : m \in T
      PROVE  n \in T
  <2>1. \A c \in Elements(Children(n)) :
           st[c] \in Status
           /\ (st[c] = "passed" => h[c]) /\ (st[c] = "failed" => ~h[c])
    BY <1>1, <1>2, ChildrenAfter DEF Solutions
  <2> DEFINE of == {st[c] : c \in Elements(Children(n))}
  <2>2. ruleSet[n].operator \in Composite =>
           st[n] = GroupStatus(ruleSet[n].operator, of)
    BY <1>1 DEF Solutions, Solves
  <2>3. CASE ruleSet[n].operator = "all"
    <3>1. st[n] = IF "failed" \in of THEN "failed"
                  ELSE IF "unknown" \in of THEN "unknown" ELSE "passed"
      BY <2>2, <2>3 DEF GroupStatus, Composite
    <3>2. h[n] <=> \A c \in Elements(Children(n)) : h[c]
      BY <1>1, <2>3 DEF Truth
    <3> QED
      BY <2>1, <3>1, <3>2 DEF Status
  <2>4. CASE ruleSet[n].operator = "any"
    <3>1. st[n] = IF "passed" \in of THEN "passed"
                  ELSE IF "unknown" \in of THEN "unknown" ELSE "failed"
      BY <2>2, <2>4 DEF GroupStatus, Composite
    <3>2. h[n] <=> \E c \in Elements(Children(n)) : h[c]
      BY <1>1, <2>4 DEF Truth
    <3> QED
      BY <2>1, <3>1, <3>2 DEF Status
  <2>5. CASE ruleSet[n].operator = "not"
    <3>1. st[n] = IF "passed" \in of THEN "failed"
                  ELSE IF "failed" \in of THEN "passed" ELSE "unknown"
      BY <2>2, <2>5 DEF GroupStatus, Composite
    <3>2. h[n] <=> ~h[Children(n)[1]]
      BY <1>1, <2>5 DEF Truth
    <3>3. Elements(Children(n)) = {Children(n)[1]}
      BY <1>1, <2>5, ChildrenAfter
    <3> QED
      BY <2>1, <3>1, <3>2, <3>3 DEF Status
  <2>6. CASE ruleSet[n].operator \notin Composite
    <3>1. st[n] = AtomicStatus(ruleSet[n], facts)
      BY <1>1, <2>6 DEF Solutions, Solves
    <3>2. h[n] <=> Matches(ruleSet[n], full[ruleSet[n].field])
      BY <1>1, <2>6 DEF Truth
    <3>3. ruleSet[n].field \in Fields
      BY <1>1, <2>6 DEF IsRuleSet, IsRule
    <3> QED
      BY <3>1, <3>2, <3>3 DEF AtomicStatus, Extends
  <2> QED
    BY <2>3, <2>4, <2>5, <2>6 DEF Composite
<1>3. 1..N \subseteq T
  <2> HIDE DEF T
  <2> QED
    BY <1>1, <1>2, Downwards
<1> QED
  BY <1>1, <1>3

\* A status that is known is not changed by more facts.
LEMMA KnownStays ==
    ASSUME IsRuleSet(ruleSet), NEW facts, NEW more, Extends(more, facts),
           NEW st \in Solutions(facts), NEW su \in Solutions(more)
    PROVE  \A n \in DOMAIN ruleSet : st[n] # "unknown" => su[n] = st[n]
<1> DEFINE N == Len(ruleSet)
           T == {n \in 1..N : st[n] # "unknown" => su[n] = st[n]}
<1>1. N \in Nat /\ DOMAIN ruleSet = 1..N
  BY Nested
<1>2. ASSUME NEW n \in 1..N, \A m \in n + 1..N : m \in T
      PROVE  n \in T
  <2>1. \A c \in Elements(Children(n)) :
           /\ st[c] \in Status /\ su[c] \in Status
           /\ st[c] # "unknown" => su[c] = st[c]
    BY <1>1, <1>2, ChildrenAfter DEF Solutions
  <2> DEFINE of(t) == {t[c] : c \in Elements(Children(n))}
  <2>2. ASSUME ruleSet[n].operator \in Composite
        PROVE  /\ st[n] = GroupStatus(ruleSet[n].operator, of(st))
               /\ su[n] = GroupStatus(ruleSet[n].operator, of(su))
    BY <1>1, <2>2 DEF Solutions, Solves
  <2>3. CASE ruleSet[n].operator = "all"
    <3>1. \A S : GroupStatus("all", S) =
             IF "failed" \in S THEN "failed"
             ELSE IF "unknown" \in S THEN "unknown" ELSE "passed"
      BY DEF GroupStatus
    <3> QED
      BY <2>1, <2>2, <2>3, <3>1 DEF Status, Composite
  <2>4. CASE ruleSet[n].operator = "any"
    <3>1. \A S : GroupStatus("any", S) =
             IF "passed" \in S THEN "passed"
             ELSE IF "unknown" \in S THEN "unknown" ELSE "failed"
      BY DEF GroupStatus
    <3> QED
      BY <2>1, <2>2, <2>4, <3>1 DEF Status, Composite
  <2>5. CASE ruleSet[n].operator = "not"
    <3>1. \A S : GroupStatus("not", S) =
             IF "passed" \in S THEN "failed"
             ELSE IF "failed" \in S THEN "passed" ELSE "unknown"
      BY DEF GroupStatus
    <3>2. Elements(Children(n)) = {Children(n)[1]}
      BY <1>1, <2>5, ChildrenAfter
    <3> QED
      BY <2>1, <2>2, <2>5, <3>1, <3>2 DEF Status, Composite
  <2>6. CASE ruleSet[n].operator \notin Composite
    <3>1. /\ st[n] = AtomicStatus(ruleSet[n], facts)
          /\ su[n] = AtomicStatus(ruleSet[n], more)
      BY <1>1, <2>6 DEF Solutions, Solves
    <3>2. ruleSet[n].field \in Fields
      BY <1>1, <2>6 DEF IsRuleSet, IsRule
    <3> QED
      BY <3>1, <3>2 DEF AtomicStatus, Extends
  <2> QED
    BY <2>3, <2>4, <2>5, <2>6 DEF Composite
<1>3. 1..N \subseteq T
  <2> HIDE DEF T
  <2> QED
    BY <1>1, <1>2, Downwards
<1> QED
  BY <1>1, <1>3

-----------------------------------------------------------------------------
(* Lists of outcomes.                                                      *)

\* An outcome is of one rule.
LEMMA OutcomeOfOneRule ==
    ASSUME RulesInv, Accepted, NEW list, ListInv(list), NEW k \in DOMAIN list
    PROVE  /\ list[k].status \in Status
           /\ \E n \in DOMAIN ruleSet :
                 /\ list[k] = Outcome(ruleSet[n], list[k].status)
                 /\ \A m \in DOMAIN ruleSet :
                       list[k].rule_id = ruleSet[m].rule_id <=> m = n
<1>1. list[k] \in Outcomes
  BY ElementOfSeq DEF ListInv
<1>2. PICK n \in DOMAIN ruleSet, s \in Status : list[k] = Outcome(ruleSet[n], s)
  BY <1>1 DEF Outcomes
<1>3. list[k].status = s /\ list[k].rule_id = ruleSet[n].rule_id
  BY <1>2 DEF Outcome
<1>4. \A m \in DOMAIN ruleSet : ruleSet[n].rule_id = ruleSet[m].rule_id <=> m = n
  BY <1>2 DEF RulesInv, ValidSemantics
<1> QED
  BY <1>2, <1>3, <1>4

\* There are no more outcomes than rules.
LEMMA NoMoreThanRules ==
    ASSUME RulesInv, Accepted, NEW list, ListInv(list)
    PROVE  Len(list) <= MaxRuleCount
<1> DEFINE N == Len(ruleSet)
           f == [k \in 1..Len(list) |->
                   CHOOSE n \in 1..N : list[k].rule_id = ruleSet[n].rule_id]
<1>1. N \in Nat /\ DOMAIN ruleSet = 1..N /\ Len(list) \in Nat
      /\ DOMAIN list = 1..Len(list)
  BY Nested DEF RulesInv, ListInv
<1>2. \A k \in 1..Len(list) : f[k] \in 1..N /\ list[k].rule_id = ruleSet[f[k]].rule_id
  <2> SUFFICES ASSUME NEW k \in 1..Len(list)
               PROVE  \E n \in 1..N : list[k].rule_id = ruleSet[n].rule_id
    OBVIOUS
  <2> QED
    BY <1>1, OutcomeOfOneRule
<1>3. f \in [1..Len(list) -> 1..N]
  BY <1>2
<1> HIDE DEF f
<1>4. \A k, l \in 1..Len(list) : f[k] = f[l] => k = l
  BY <1>1, <1>2 DEF ListInv
<1>5. /\ IsFiniteSet(1..N) /\ Cardinality(1..N) = N
      /\ IsFiniteSet(1..Len(list)) /\ Cardinality(1..Len(list)) = Len(list)
  <2>1. \A n \in Nat : IsFiniteSet(1..n) /\ Cardinality(1..n) = n
    <3> SUFFICES ASSUME NEW n \in Nat
                 PROVE  IsFiniteSet(1..n) /\ Cardinality(1..n) = n
      OBVIOUS
    <3>1. /\ IsFiniteSet(1..n)
          /\ Cardinality(1..n) = IF 1 > n THEN 0 ELSE n - 1 + 1
      BY FS_Interval
    <3> QED
      BY <3>1
  <2> QED
    BY <1>1, <2>1
<1>6. ~(N < Len(list))
  BY <1>3, <1>4, <1>5, FS_PigeonHole
<1>7. N <= MaxRuleCount
  BY <1>1, <1>5 DEF RulesInv, ValidSemantics
<1> QED
  BY <1>1, <1>6, <1>7, EligibilityAssumption

\* The depth of a rule is one more than that of the group it is in.
LEMMA DepthsUnfold ==
    ASSUME IsRuleSet(ruleSet)
    PROVE  /\ Depths(ruleSet)[1] = 1
           /\ \A m \in DOMAIN ruleSet : \A c \in Elements(Children(m)) :
                 Depths(ruleSet)[c] = Depths(ruleSet)[m] + 1
<1> DEFINE N == Len(ruleSet)
           Parent(n) == CHOOSE m \in DOMAIN ruleSet : IsParent(ruleSet, m, n)
           Value(d, n) == IF n = 1 THEN 1 ELSE d[Parent(n)] + 1
           IsMap(d) == d = [n \in 1..N |-> d[n]]
           T == {k \in 1..N : \E d : IsMap(d) /\ \A n \in 1..k : d[n] = Value(d, n)}
<1>1. N \in Nat /\ DOMAIN ruleSet = 1..N /\ 1 \in 1..N
  BY Nested
<1>2. ASSUME NEW m \in 1..N, NEW c \in Elements(Children(m))
      PROVE  c \in 1..N /\ m < c /\ Parent(c) = m
  <2>1. c \in 1..N /\ m < c
    BY <1>1, ChildrenAfter
  <2>2. PICK i \in DOMAIN Children(m) : Children(m)[i] = c
    BY DEF Elements
  <2>3. \A l \in 1..N : \A j \in DOMAIN Children(l) : Children(l)[j] = c => l = m
    BY <1>1, <2>2, Nested
  <2>4. \A l \in 1..N : IsParent(ruleSet, l, c) <=> l = m
    BY <2>2, <2>3 DEF IsParent, Elements, Children
  <2> QED
    BY <1>1, <2>1, <2>4
<1> HIDE DEF Parent
<1>3. ASSUME NEW n \in 1..N, n # 1
      PROVE  Parent(n) \in 1..n - 1
  <2>1. PICK m \in 1..N : n \in Elements(Children(m))
    BY <1>1, <1>3 DEF IsRuleSet, HasOnePlace, Elements, Children
  <2> QED
    BY <1>1, <1>2, <2>1
<1>4. ASSUME NEW k \in 1..N, NEW d, IsMap(d),
             \A n \in 1..k - 1 : d[n] = Value(d, n)
      PROVE  k \in T
  <2> DEFINE next == [d EXCEPT ![k] = Value(d, k)]
  <2> HIDE DEF Value
  <2>1. IsMap(next) /\ next[k] = Value(d, k)
        /\ \A n \in 1..N : n # k => next[n] = d[n]
    BY <1>4
  <2> HIDE DEF next, IsMap
  <2>2. ASSUME NEW n \in 1..k PROVE Value(next, n) = Value(d, n)
    BY <1>1, <1>3, <2>1 DEF Value
  <2>3. \A n \in 1..k : next[n] = Value(next, n)
    <3> SUFFICES ASSUME NEW n \in 1..k PROVE next[n] = Value(next, n)
      OBVIOUS
    <3>1. CASE n = k
      BY <2>1, <2>2, <3>1
    <3>2. CASE n # k
      <4>1. n \in 1..k - 1 /\ n \in 1..N
        BY <1>1, <3>2
      <4> QED
        BY <1>4, <2>1, <2>2, <3>2, <4>1
    <3> QED
      BY <3>1, <3>2
  <2> QED
    BY <2>1, <2>3
<1> HIDE DEF Value, IsMap
<1>5. ASSUME NEW k \in 1..N, \A l \in 1..k - 1 : l \in T
      PROVE  k \in T
  <2>1. CASE k = 1
    <3>1. IsMap([n \in 1..N |-> 1])
      BY DEF IsMap
    <3> QED
      BY <1>1, <1>4, <2>1, <3>1
  <2>2. CASE k # 1
    <3>1. k - 1 \in T
      BY <1>5, <2>2
    <3>2. PICK d : IsMap(d) /\ \A n \in 1..k - 1 : d[n] = Value(d, n)
      BY <3>1
    <3> QED
      BY <1>1, <1>4, <3>2
  <2> QED
    BY <2>1, <2>2
<1>6. N \in T
  <2> HIDE DEF T
  <2>1. 1..N \subseteq T
    BY <1>1, <1>5, Upwards
  <2> QED
    BY <1>1, <2>1
<1>7. PICK d : d = [n \in 1..N |-> Value(d, n)]
  <2>1. PICK d : IsMap(d) /\ \A n \in 1..N : d[n] = Value(d, n)
    BY <1>6
  <2> QED
    BY <2>1 DEF IsMap
<1>8. PICK depth : /\ depth = [n \in DOMAIN ruleSet |-> Value(depth, n)]
                   /\ Depths(ruleSet) = depth
  BY <1>1, <1>7 DEF Depths, Value, Parent
<1>9. \A n \in 1..N : depth[n] = Value(depth, n)
  BY <1>1, <1>8
<1>10. ASSUME NEW m \in DOMAIN ruleSet, NEW c \in Elements(Children(m))
       PROVE  depth[c] = depth[m] + 1
  BY <1>1, <1>2, <1>9, <1>10 DEF Value
<1> QED
  BY <1>1, <1>8, <1>9, <1>10 DEF Value

\* A call is as deep as its rule.
LEMMA DepthOfCalls ==
    ASSUME IsRuleSet(ruleSet), PathInv
    PROVE  \A i \in 1..Len(stack) : Depths(ruleSet)[stack[i].node] = i
<1> DEFINE T == {i \in 1..Len(stack) : Depths(ruleSet)[stack[i].node] = i}
<1>1. Len(stack) \in Nat /\ DOMAIN stack = 1..Len(stack)
  BY DEF PathInv
<1>2. ASSUME NEW i \in 1..Len(stack), \A j \in 1..i - 1 : j \in T
      PROVE  i \in T
  <2>1. CASE i = 1
    BY <1>1, <2>1, DepthsUnfold DEF PathInv
  <2>2. CASE i # 1
    <3>1. PICK j \in 1..Len(stack) - 1 : i = j + 1 /\ j \in T
      <4>1. i - 1 \in 1..Len(stack) - 1 /\ i = (i - 1) + 1 /\ i - 1 \in 1..i - 1
        BY <1>1, <2>2
      <4> QED
        BY <1>2, <4>1
    <3>2. /\ stack[j] \in Frames /\ Len(stack[j].statuses) < Len(Children(stack[j].node))
          /\ stack[i].node
               = Children(stack[j].node)[Len(stack[j].statuses) + 1]
      BY <1>1, <3>1, ElementOfSeq DEF PathInv
    <3>3. stack[j].node \in DOMAIN ruleSet /\ Len(stack[j].statuses) \in Nat
      BY <3>2 DEF Frames
    <3>4. Children(stack[j].node) \in Seq(DOMAIN ruleSet)
      BY <3>3, Nested
    <3>5. stack[i].node \in Elements(Children(stack[j].node))
      BY <3>2, <3>3, <3>4 DEF Elements
    <3> QED
      BY <3>1, <3>3, <3>5, DepthsUnfold
  <2> QED
    BY <2>1, <2>2
<1> HIDE DEF T
<1>3. 1..Len(stack) \subseteq T
  BY <1>1, <1>2, Upwards
<1> QED
  BY <1>3 DEF T

-----------------------------------------------------------------------------
(* The theorems.                                                           *)

\* The variables keep their types, for any rule set and profile.
THEOREM EligibilityTypesKept == Spec => []TypeOK
<1>1. Inductive => TypeOK
  <2> SUFFICES ASSUME Inductive PROVE TypeOK
    OBVIOUS
  <2>1. /\ stage \in {"new", "refused", "ready", "evaluating", "raised"}
        /\ DOMAIN profile = Fields
        /\ stage = "evaluating" <=> stack # <<>>
    BY DEF Inductive, RulesInv, IsFacts, PathInv
  <2>2. \A i \in DOMAIN stack :
          stack[i].node \in DOMAIN ruleSet /\ Elements(stack[i].statuses) \subseteq Status
    <3> SUFFICES ASSUME NEW i \in DOMAIN stack
                 PROVE  /\ stack[i].node \in DOMAIN ruleSet
                        /\ Elements(stack[i].statuses) \subseteq Status
      OBVIOUS
    <3>1. stack[i] \in Frames
      BY ElementOfSeq DEF Inductive, PathInv
    <3>2. stack[i].node \in DOMAIN ruleSet /\ stack[i].statuses \in Seq(Status)
      BY <3>1 DEF Frames
    <3> QED
      BY <3>2, ElementOfSeq DEF Elements
  <2>3. \A i \in DOMAIN outcomes : outcomes[i].status \in Status
    <3> SUFFICES ASSUME NEW i \in DOMAIN outcomes
                 PROVE  outcomes[i].status \in Status
      OBVIOUS
    <3>1. outcomes[i] \in Outcomes
      BY ElementOfSeq DEF Inductive, ListInv
    <3> QED
      BY <3>1 DEF Outcomes, Outcome
  <2>4. ASSUME NEW i \in DOMAIN reports
        PROVE  reports[i].decision \in
                 {"eligible", "ineligible", "insufficient_information"}
    <3>1. PICK list : IsResult(reports[i], list)
      BY DEF Inductive, ReportsInv
    <3>2. IsRuleSet(ruleSet) /\ 1 \in DOMAIN ruleSet
      BY Nested DEF Inductive, RulesInv
    <3>3. PICK st \in Solutions(reports[i].profile) : TRUE
      BY <3>2, SolutionsExist
    <3>4. st[1] \in Status /\ reports[i].decision = Decision[st[1]]
      BY <3>1, <3>2, <3>3 DEF IsResult, Solutions
    <3> QED
      BY <3>4 DEF Decision, Status
  <2> QED
    BY <2>1, <2>2, <2>3, <2>4 DEF TypeOK
<1> QED
  BY <1>1, InductiveHolds, PTL

\* A rule set that was validated never raises for a validated profile.
THEOREM NeverRaises == Spec => []AcceptedRulesNeverRaise
<1>1. Inductive => AcceptedRulesNeverRaise
  BY DEF Inductive, RulesInv, AcceptedRulesNeverRaise
<1> QED
  BY <1>1, InductiveHolds, PTL

\* What is decided of a profile holds, in two values, of every profile that
\* completes it.
THEOREM DecisionsAreTrue == Spec => []DecisionIsCertain
<1>1. Inductive => DecisionIsCertain
  <2> SUFFICES ASSUME Inductive, NEW i \in DOMAIN reports, Decided(reports[i]),
                      NEW full \in FullProfiles,
                      Extends(full, reports[i].profile)
               PROVE  Holds(full) <=> reports[i].decision = "eligible"
    BY DEF DecisionIsCertain
  <2>1. IsRuleSet(ruleSet) /\ 1 \in DOMAIN ruleSet
    BY Nested DEF Inductive, RulesInv
  <2>2. PICK list : IsResult(reports[i], list)
    BY DEF Inductive, ReportsInv
  <2>3. PICK st \in Solutions(reports[i].profile) : TRUE
    BY <2>1, SolutionsExist
  <2>4. st[1] \in Status /\ reports[i].decision = Decision[st[1]]
    BY <2>1, <2>2, <2>3 DEF IsResult, Solutions
  <2>5. PICK h : Truth(h, full) /\ (Holds(full) <=> h[1])
    BY <2>1, HoldsUnfolds
  <2>6. (st[1] = "passed" => h[1]) /\ (st[1] = "failed" => ~h[1])
    BY <2>1, <2>3, <2>5, KnownIsTrue
  <2> QED
    BY <2>4, <2>5, <2>6 DEF Decided, Decision, Status
<1> QED
  BY <1>1, InductiveHolds, PTL

\* What is decided of a profile, or of a rule for it, stays decided when facts
\* are added.
THEOREM DecisionsStand == Spec => []DecidedOutcomesStand
<1>1. Inductive => DecidedOutcomesStand
  <2> SUFFICES ASSUME Inductive,
                      NEW i \in DOMAIN reports, NEW j \in DOMAIN reports,
                      Extends(reports[j].profile, reports[i].profile)
               PROVE  /\ Decided(reports[i]) =>
                            reports[j].decision = reports[i].decision
                      /\ \A s \in {"passed", "failed"} :
                            Elements(reports[i].rules[s])
                              \subseteq Elements(reports[j].rules[s])
    BY DEF DecidedOutcomesStand
  <2>1. /\ RulesInv /\ Accepted
        /\ IsRuleSet(ruleSet) /\ 1 \in DOMAIN ruleSet
    BY Nested DEF Inductive, RulesInv
  <2>2. PICK li : IsResult(reports[i], li)
    BY DEF Inductive, ReportsInv
  <2>3. PICK lj : IsResult(reports[j], lj)
    BY DEF Inductive, ReportsInv
  <2>4. PICK si \in Solutions(reports[i].profile) : TRUE
    BY <2>1, SolutionsExist
  <2>5. PICK sj \in Solutions(reports[j].profile) : TRUE
    BY <2>1, SolutionsExist
  <2>6. \A n \in DOMAIN ruleSet :
          /\ si[n] \in Status /\ sj[n] \in Status
          /\ si[n] # "unknown" => sj[n] = si[n]
    BY <2>1, <2>4, <2>5, KnownStays DEF Solutions
  <2>7. Decided(reports[i]) => reports[j].decision = reports[i].decision
    <3>1. /\ reports[i].decision = Decision[si[1]]
          /\ reports[j].decision = Decision[sj[1]]
      BY <2>2, <2>3, <2>4, <2>5 DEF IsResult
    <3> QED
      BY <2>1, <2>6, <3>1 DEF Decided, Decision, Status
  <2>8. ASSUME NEW s \in {"passed", "failed"},
               NEW k \in DOMAIN Only(li, s)
        PROVE  \E l \in DOMAIN Only(lj, s) : Only(lj, s)[l] = Only(li, s)[k]
    <3>1. /\ k \in DOMAIN li /\ li[k].status = s /\ Only(li, s)[k] = li[k]
          /\ ListInv(li) /\ ListInv(lj)
      BY <2>2, <2>3 DEF Only, IsResult
    <3>2. PICK n \in DOMAIN ruleSet :
            /\ li[k] = Outcome(ruleSet[n], s)
            /\ li[k].rule_id = ruleSet[n].rule_id
      BY <2>1, <3>1, OutcomeOfOneRule
    <3>3. si[n] = s
      BY <2>2, <2>4, <3>1, <3>2 DEF IsResult, Agrees
    <3>4. PICK l \in DOMAIN lj : lj[l].rule_id = ruleSet[n].rule_id
      BY <2>3, <3>2 DEF IsResult, Done
    <3>5. lj[l].status = s
      BY <2>3, <2>5, <2>6, <3>2, <3>3, <3>4 DEF IsResult, Agrees
    <3>6. lj[l] = Outcome(ruleSet[n], s)
      BY <2>1, <3>1, <3>2, <3>4, <3>5, OutcomeOfOneRule
    <3> QED
      BY <3>1, <3>2, <3>4, <3>5, <3>6 DEF Only
  <2>9. \A s \in {"passed", "failed"} :
          reports[i].rules[s] = Only(li, s) /\ reports[j].rules[s] = Only(lj, s)
    BY <2>2, <2>3 DEF IsResult, Status
  <2> QED
    BY <2>7, <2>8, <2>9 DEF Elements
<1> QED
  BY <1>1, InductiveHolds, PTL

\* Each result tells of each rule once, and of a group after those of its rules
\* that have its status.
THEOREM ResultsAreComplete == Spec => []EveryRuleReportedOnce
<1>1. Inductive => EveryRuleReportedOnce
  <2> SUFFICES ASSUME Inductive, NEW i \in DOMAIN reports
               PROVE
        LET list(s) == reports[i].rules[s]
            Tells(s, k, n) == list(s)[k].rule_id = ruleSet[n].rule_id
        IN  /\ \A n \in DOMAIN ruleSet : \E s \in Status : \E k \in DOMAIN list(s) :
                  /\ Tells(s, k, n)
                  /\ \A t \in Status : \A l \in DOMAIN list(t) :
                        Tells(t, l, n) => t = s /\ l = k
            /\ \A s \in Status : \A k \in DOMAIN list(s) : \E n \in DOMAIN ruleSet :
                  /\ Tells(s, k, n)
                  /\ \A c \in Elements(ruleSet[n].children), l \in DOMAIN list(s) :
                        Tells(s, l, c) => l < k
    BY DEF EveryRuleReportedOnce
  <2>1. RulesInv /\ Accepted
    BY DEF Inductive, RulesInv
  <2>2. PICK list : IsResult(reports[i], list)
    BY DEF Inductive, ReportsInv
  <2>3. ListInv(list) /\ Done(list) = DOMAIN ruleSet
    BY <2>2 DEF IsResult
  <2>4. \A s \in Status :
          /\ DOMAIN reports[i].rules[s] = {k \in DOMAIN list : list[k].status = s}
          /\ \A k \in DOMAIN reports[i].rules[s] : reports[i].rules[s][k] = list[k]
    BY <2>2 DEF IsResult, Only
  <2>5. ASSUME NEW n \in DOMAIN ruleSet
        PROVE  \E s \in Status : \E k \in DOMAIN reports[i].rules[s] :
                 /\ reports[i].rules[s][k].rule_id = ruleSet[n].rule_id
                 /\ \A t \in Status : \A l \in DOMAIN reports[i].rules[t] :
                       reports[i].rules[t][l].rule_id = ruleSet[n].rule_id =>
                          t = s /\ l = k
    <3>1. PICK k \in DOMAIN list : list[k].rule_id = ruleSet[n].rule_id
      BY <2>3 DEF Done
    <3>2. PICK s \in Status : s = list[k].status
      BY <2>1, <2>3, <3>1, OutcomeOfOneRule
    <3>3. \A l \in DOMAIN list : list[l].rule_id = ruleSet[n].rule_id => l = k
      BY <2>3, <3>1 DEF ListInv
    <3> QED
      BY <2>4, <3>1, <3>2, <3>3
  <2>6. ASSUME NEW s \in Status, NEW k \in DOMAIN reports[i].rules[s]
        PROVE  \E n \in DOMAIN ruleSet :
                 /\ reports[i].rules[s][k].rule_id = ruleSet[n].rule_id
                 /\ \A c \in Elements(ruleSet[n].children),
                       l \in DOMAIN reports[i].rules[s] :
                       reports[i].rules[s][l].rule_id = ruleSet[c].rule_id => l < k
    <3>1. k \in DOMAIN list
      BY <2>4, <2>6
    <3>2. PICK n \in DOMAIN ruleSet : list[k].rule_id = ruleSet[n].rule_id
      BY <2>1, <2>3, <3>1, OutcomeOfOneRule
    <3>3. ASSUME NEW c \in Elements(Children(n)), NEW l \in DOMAIN list,
                 list[l].rule_id = ruleSet[c].rule_id
          PROVE  l < k
      <4>1. PICK m \in 1..k - 1 : list[m].rule_id = ruleSet[c].rule_id
        BY <2>3, <3>1, <3>2 DEF ListInv
      <4>2. m \in DOMAIN list /\ m < k
        BY <2>3, <3>1, <4>1 DEF ListInv
      <4> QED
        BY <2>3, <3>3, <4>1, <4>2 DEF ListInv
    <3> QED
      BY <2>4, <3>2, <3>3 DEF Children
  <2> QED
    BY <2>5, <2>6
<1> QED
  BY <1>1, InductiveHolds, PTL

\* The evaluator recurses no deeper than the validator lets a rule set be, and
\* gives no more outcomes than it lets it have rules.
THEOREM RecursionStaysBounded == Spec => []RecursionIsBounded
<1>1. Inductive => RecursionIsBounded
  <2> SUFFICES ASSUME Inductive
               PROVE  Len(stack) <= MaxRuleDepth /\ Len(outcomes) <= MaxRuleCount
    BY DEF RecursionIsBounded
  <2>1. RulesInv /\ PathInv /\ ListInv(outcomes) /\ IsRuleSet(ruleSet)
    BY DEF Inductive, RulesInv
  <2>2. Len(stack) <= MaxRuleDepth
    <3>1. CASE stack = <<>>
      BY <3>1, EligibilityAssumption
    <3>2. CASE stack # <<>>
      <4>1. Accepted /\ Len(stack) \in Nat \ {0} /\ stack[Len(stack)] \in Frames
        BY <2>1, <3>2, ElementOfSeq DEF PathInv, Accepted
      <4>2. /\ stack[Len(stack)].node \in DOMAIN ruleSet
            /\ Depths(ruleSet)[stack[Len(stack)].node] = Len(stack)
        BY <2>1, <4>1, DepthOfCalls DEF Frames
      <4> QED
        BY <2>1, <4>1, <4>2 DEF RulesInv, ValidSemantics
    <3> QED
      BY <3>1, <3>2
  <2>3. Len(outcomes) <= MaxRuleCount
    <3>1. CASE Accepted
      BY <2>1, <3>1, NoMoreThanRules
    <3>2. CASE ~Accepted
      BY <2>1, <3>2, EligibilityAssumption DEF RulesInv
    <3> QED
      BY <3>1, <3>2
  <2> QED
    BY <2>2, <2>3
<1> QED
  BY <1>1, InductiveHolds, PTL
=============================================================================
