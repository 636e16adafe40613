---------------------------- MODULE MCEligibility -----------------------------
(***************************************************************************)
(* Instances of Eligibility for TLC: trees of up to six rules with every   *)
(* operator, and rule sets with one thing wrong each.                      *)
(***************************************************************************)
EXTENDS Eligibility, TLC

Text(t) == <<"text", t>>
Number(n) == <<"number", n>>
Flag(b) == <<"flag", b>>
Float(n) == <<"float", n>>

MCNormal == [t \in {"up", "UP", "KA", "2", " ", ""} |->
                CASE t = "up" -> "UP" [] t = " " -> "" [] OTHER -> t]
MCAsBool == (Flag(TRUE) :> TRUE) @@ (Flag(FALSE) :> FALSE)
              @@ (Number(1) :> TRUE) @@ (Text("no") :> FALSE)
MCNumeral == ("1" :> 1) @@ ("2" :> 2)

MCFields == {"state_code", "annual_turnover", "is_registered"}

\* Every combination of facts, and some that are refused.
MCSubmissions ==
    [state_code : {Unknown, Text("up"), Text("KA")},
     annual_turnover : {Unknown, Text("2"), Number(3)},
     is_registered : {Unknown, Flag(TRUE), Flag(FALSE)}]
    \cup [state_code : {Text(" ")}, annual_turnover : {Number(-1), Float(1)},
          is_registered : {Unknown}]
    \cup [state_code : {Unknown}, annual_turnover : {Unknown},
          is_registered : {Number(1), Number(2), Text("no"), Text("up")}]

Leaf(id, operator, field, values) ==
    [rule_id |-> id, operator |-> operator, field |-> field,
     values |-> values, children |-> <<>>]
Group(id, operator, children) ==
    [rule_id |-> id, operator |-> operator, field |-> "", values |-> <<>>,
     children |-> children]

State(id) == Leaf(id, "equals", "state_code", <<Text("UP")>>)
Small(id) == Leaf(id, "less_than_or_equal", "annual_turnover", <<Text("2")>>)
Registered(id) == Leaf(id, "equals", "is_registered", <<Flag(TRUE)>>)
Exists(id) == Leaf(id, "exists", "annual_turnover", <<>>)
Between(id) == Leaf(id, "between", "annual_turnover", <<Text("1"), Number(2)>>)
Large(id) == Leaf(id, "greater_than_or_equal", "annual_turnover", <<Number(3)>>)
OneOf(id) == Leaf(id, "in", "state_code", <<Text("UP"), Text("up")>>)

\* outer(not a, inner(b, c)).
Tree(outer, inner, a, b, c) ==
    <<Group("1", outer, <<2, 3>>), Group("2", "not", <<4>>),
      Group("3", inner, <<5, 6>>), a, b, c>>

Trees ==
    {Tree(outer, inner, a, b, c) :
        outer \in {"all", "any"}, inner \in {"all", "any"},
        a \in {State("4"), Exists("4")},
        b \in {Small("5"), Large("5"), Between("5")},
        c \in {Registered("6"), OneOf("6")}}

Wrong ==
    {<<Leaf("1", "equals", "state_code", <<Flag(TRUE)>>)>>,
     <<Leaf("1", "equals", "is_registered", <<Number(1)>>)>>,
     <<Leaf("1", "less_than_or_equal", "state_code", <<Text("2")>>)>>,
     <<Leaf("1", "equals", "annual_turnover", <<Float(2)>>)>>,
     <<Leaf("1", "between", "annual_turnover", <<Number(3), Text("2")>>)>>,
     <<Leaf("1", "in", "annual_turnover", <<Text("2"), Number(2)>>)>>,
     <<Leaf("1", "in", "is_registered", <<Flag(TRUE), Number(1)>>)>>,
     <<Leaf("1", "in", "state_code", <<>>)>>,
     <<Group("1", "all", <<>>)>>,
     <<Group("1", "any", <<2, 3>>), State("2"), State("2")>>,
     <<Group("1", "not", <<2>>), Group("2", "not", <<3>>),
       Group("3", "not", <<4>>), State("4")>>,
     <<Group("1", "all", <<2, 3, 4, 5, 6, 7>>), State("2"), Small("3"),
       Exists("4"), Large("5"), OneOf("6"), Between("7")>>}

MCRuleSets == Trees \cup Wrong
=============================================================================
