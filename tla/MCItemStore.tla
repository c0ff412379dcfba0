----------------------------- MODULE MCItemStore -----------------------------
(***************************************************************************)
(* Two clients, each of a vault of its own, and a third vault that is only *)
(* ever a recipient.                                                       *)
(***************************************************************************)
EXTENDS ItemStore

CONSTANTS a, b, va, vb, vc

TheirVaults == [c \in {a, b} |-> IF c = a THEN va ELSE vb]

TheLists == {{vb}, {vc}}

Key(name) == <<"CharSequence", name>>

\* One of every type that JSON has, and one with what it has no type for.
List == <<"Iterable", <<<<"Boolean", TRUE>>, <<"null">>, <<"CharSequence", "s">>>>>>
Full == <<"Map", [k \in {Key("n"), Key("i"), Key("d"), Key("l")} |->
                    CASE k = Key("n") -> <<"Long", 1>>
                      [] k = Key("i") -> <<"Integer", 2>>
                      [] k = Key("d") -> <<"Double", 3>>
                      [] k = Key("l") -> List]>>
Odd == <<"Map", [k \in {Key("f"), Key("o"), <<"Other", "x">>} |->
                   CASE k = Key("f") -> <<"Float", 3>>
                     [] k = Key("o") -> <<"Other">>
                     [] OTHER -> <<"Long", 1>>]>>

TheMaps == {Full, Odd}
TheObjects ==
  TheMaps \cup {List, <<"null">>, <<"Boolean", TRUE>>, <<"CharSequence", "s">>, <<"Long", 1>>, <<"Integer", 2>>,
                <<"Double", 3>>, <<"Float", 3>>, <<"Other">>}
=============================================================================
