-------------------------------- MODULE JVar --------------------------------
(***************************************************************************)
(* The metadata of a cipher on its way between Java objects and jVar, the  *)
(* JSON values of libVES (jni_jvar.c).  A value is <<type, what it holds>>. *)
(* Floating point numbers are counted in halves: <<"Double", 3>> is 1.5.   *)
(***************************************************************************)
EXTENDS Integers, Sequences

\* The Java objects of this instance, with the elements of each; a key of a Map is
\* itself <<type, name>>.
CONSTANT Java

Null == <<"null">>

Integral == {"Long", "Integer", "Short", "Byte"}
Fractional == {"Double", "Float", "BigDecimal"}

\* Halves to a whole number, towards 0.
Whole(h) == IF h < 0 THEN -((-h) \div 2) ELSE h \div 2

\* Every Number that is not a Double goes through longValue(), a Float too.
Number(o) ==
  IF o[1] = "Double" THEN <<"float", o[2]>>
  ELSE <<"int", IF o[1] \in Fractional THEN Whole(o[2]) ELSE o[2]>>

\* Slips: a Double is taken for any Number; a scalar is passed on as it is.
Cut(o) ==
  IF o[1] = "Boolean" THEN <<"bool", o[2]>>
  ELSE IF o[1] \in Fractional THEN <<"int", Whole(o[2])>>
  ELSE IF o[1] \in Integral THEN <<"int", o[2]>>
  ELSE IF o[1] = "CharSequence" THEN <<"string", o[2]>> ELSE Null
Unconverted(o) == o

\* What is of no supported type, within a Map or an Iterable, reads back as null.
Scalar(o) ==
  IF o[1] = "Boolean" THEN <<"bool", o[2]>>
  ELSE IF o[1] \in Integral \cup Fractional THEN Number(o)
  ELSE IF o[1] = "CharSequence" THEN <<"string", o[2]>> ELSE Null

\* Entries of a Map whose keys are no strings are skipped.
ToJVar[o \in Java] ==
  IF o[1] = "Map"
  THEN <<"object", [n \in {k[2] : k \in {x \in DOMAIN o[2] : x[1] = "CharSequence"}} |->
                      ToJVar[o[2][<<"CharSequence", n>>]]]>>
  ELSE IF o[1] = "Iterable" THEN <<"array", [i \in DOMAIN o[2] |-> ToJVar[o[2][i]]]>>
  ELSE Scalar(o)

JVars == {ToJVar[o] : o \in Java} \cup {Null}

ToJava[j \in JVars] ==
  IF j[1] = "object"
  THEN <<"Map", [k \in {<<"CharSequence", n>> : n \in DOMAIN j[2]} |-> ToJava[j[2][k[2]]]]>>
  ELSE IF j[1] = "array" THEN <<"Iterable", [i \in DOMAIN j[2] |-> ToJava[j[2][i]]]>>
  ELSE IF j[1] = "bool" THEN <<"Boolean", j[2]>>
  ELSE IF j[1] = "int" THEN <<"Long", j[2]>>
  ELSE IF j[1] = "float" THEN <<"Double", j[2]>>
  ELSE IF j[1] = "string" THEN <<"CharSequence", j[2]>> ELSE Null

\* The objects that jVar has a type for, down to the last element.
Plain[o \in Java] ==
  CASE o[1] = "Map" -> \A k \in DOMAIN o[2] : k[1] = "CharSequence" /\ Plain[o[2][k]]
    [] o[1] = "Iterable" -> \A i \in DOMAIN o[2] : Plain[o[2][i]]
    [] OTHER -> o[1] \in {"null", "Boolean", "Double", "CharSequence"} \cup Integral

\* An object with every integer in it made a Long.
Widened[o \in Java] ==
  CASE o[1] = "Map" -> <<"Map", [k \in DOMAIN o[2] |-> Widened[o[2][k]]]>>
    [] o[1] = "Iterable" -> <<"Iterable", [i \in DOMAIN o[2] |-> Widened[o[2][i]]]>>
    [] o[1] \in Integral -> <<"Long", o[2]>>
    [] OTHER -> o

=============================================================================
