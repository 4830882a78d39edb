---------------------------- MODULE MCSearchPanel ----------------------------
(***************************************************************************)
(* An instance of SearchPanel for TLC: two sections, the second with no    *)
(* file for "a", and rows with and without children.                       *)
(***************************************************************************)
EXTENDS SearchPanel

mc_Chars == {"a", "b", "f", "A", "0", "2", "5", "_", " "}
mc_Lower == [c \in mc_Chars |-> IF c = "A" THEN "a" ELSE c]
mc_Code == [c \in mc_Chars |-> CASE c = "_" -> <<"_", "5", "f">>
                                 [] c = " " -> <<"_", "2", "0">>
                                 [] OTHER -> <<c>>]
mc_Texts == {<<>>, <<"a">>, <<" ", "A", "_">>}

Row(name, children) == [name |-> name, children |-> children]
mc_Sections ==
    << << [initial |-> "a", rows |-> <<Row(<<"a", "_">>, 2), Row(<<"a", "b">>, 0)>>] >>,
       << [initial |-> "b", rows |-> <<Row(<<"b">>, 0)>>] >> >>
=============================================================================
