------------------------------- MODULE MCQuery -------------------------------
EXTENDS Query

\* Single digits are enough for MaxI64 = 2.
OneDigit(n) == <<<<"0", "1", "2">>[n + 1]>>

Texts == {<<>>, <<"N">>, <<"\\", "N">>, <<"t", "tab">>}
KeyLiterals == {Null} \cup {parse_sql_value(n) : n \in 0..MaxI64}
TextLiterals == {Text(chars) : chars \in Texts}

\* Each column may be left out of the column list.
SomeInserts ==
    {[v |-> t] : t \in TextLiterals} \cup {[k |-> Null]}
    \cup {[k |-> n, v |-> Text(<<>>)] : n \in KeyLiterals}

KeyEquals(n) == Comparison("=", Column(Unqualified, "k"), Literal(parse_sql_value(n)))

SomeWheres == {NoFilter, KeyEquals(0), IsNull("k")}

SomeAssignments ==
    { <<[column |-> "k", add |-> TRUE, value |-> parse_sql_value(1)]>>,
      <<[column |-> "v", add |-> FALSE, value |-> Text(<<"N">>)]>>,
      <<[column |-> "k", add |-> FALSE, value |-> Null],
        [column |-> "k", add |-> TRUE, value |-> parse_sql_value(1)]>> }

SomeTargets ==
    { [columns |-> <<"k", "v">>, options |-> DefaultOptions],
      [columns |-> <<"v">>, options |-> DefaultOptions],
      [columns |-> <<"k", "v">>,
       options |-> [delimiter |-> "t", null_string |-> <<"N">>, header |-> FALSE]],
      [columns |-> <<"v">>,
       options |-> [delimiter |-> "N", null_string |-> <<>>, header |-> TRUE]] }

SomeFilters ==
    { IsNull("k"), IsNotNull("k"), KeyEquals(0), KeyEquals(2),
      Comparison("=", Literal(Integer("i64", 0)), Column(Unqualified, "k")),
      Comparison("<", Column(Unqualified, "k"), Literal(parse_sql_value(1))),
      Not(KeyEquals(0)),
      And(KeyEquals(0), Comparison("=", Column(Unqualified, "v"), Literal(Text(<<>>)))),
      Or(IsNull("k"), KeyEquals(1)) }

SameKey == Comparison("=", Column("a", "k"), Column("b", "k"))
SameKeyFlipped == Comparison("=", Column("b", "k"), Column("a", "k"))

SomeJoins ==
    {[alias |-> "b", type |-> type, on |-> on, using |-> {}] :
        type \in {"inner", "left"}, on \in {SameKey, SameKeyFlipped}}
    \cup {[alias |-> "b", type |-> "inner", on |-> NoFilter, using |-> {"k"}]}
    \cup {[alias |-> "b", type |-> "cross", on |-> NoFilter, using |-> {}]}
=============================================================================
