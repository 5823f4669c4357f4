------------------------------ MODULE MCTools ------------------------------
(* Instances of Tools for TLC. *)
EXTENDS Tools, Calculator

\* The calculator gives a text the value its grammar gives it.
CalculatorReads ==
    asked # None /\ asked.tool = "calculator" => Faithful(asked.expr, answer)

\* All of up to three tokens, and of up to five with one operator of each strength.
MCExpressions ==
    BoundedSeq(Tokens, 3) \cup BoundedSeq({"zero", "two", "-", "/", "^", "(", ")"}, 5)

\* Lower case: the letters a and b, and A whose lower case is a.
MCLower == [a |-> "a", b |-> "b", A |-> "a"]

\* Names that agree but for case, end in one another, or hold one another.
MCNames == {<<"a">>, <<"A">>, <<"b", "a">>, <<"A", "b">>, <<"b", "a", "b">>, <<"b", "A">>}
=============================================================================
