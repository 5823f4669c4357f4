----------------------------- MODULE Calculator -----------------------------
(***************************************************************************)
(* The calculator tool: mod calc of src/src-tauri/src/tools/mod.rs.  The   *)
(* parser evaluates while it descends; Meaning below is what the grammar   *)
(* gives the same text, with nothing said about how it is read.            *)
(*                                                                         *)
(* An expression is a sequence of tokens, a number being one.  An f64 is a *)
(* fraction n/d, infinity having d = 0; what f64 does to infinities and to *)
(* fractional exponents is not modelled.                                   *)
(***************************************************************************)
EXTENDS Integers, Sequences

Literal == [zero |-> 0, one |-> 1, two |-> 2]
Tokens == DOMAIN Literal \cup {"+", "-", "*", "/", "%", "^", "(", ")"}

Whole(k) == [n |-> k, d |-> 1]
Sign(k) == IF k < 0 THEN -1 ELSE 1
Abs(k) == Sign(k) * k
Over(a, b) == [n |-> a.n * b.d * Sign(b.n), d |-> a.d * Abs(b.n)]
\* The remainder has the sign of the dividend.
Rest(a, b) ==
    [n |-> Sign(a.n) * ((Abs(a.n) * b.d) % (Abs(b.n) * a.d)), d |-> a.d * b.d]
Power(a, b) ==
    IF b.n = 0 THEN Whole(1)
    ELSE IF b.n > 0 THEN [n |-> a.n ^ b.n, d |-> a.d ^ b.n]
    ELSE IF a.n = 0 THEN [n |-> 1, d |-> 0]
    ELSE [n |-> (Sign(a.n) * a.d) ^ (-b.n), d |-> Abs(a.n) ^ (-b.n)]

Apply(op, a, b) ==
    CASE op = "+" -> [n |-> a.n * b.d + b.n * a.d, d |-> a.d * b.d]
      [] op = "-" -> [n |-> a.n * b.d - b.n * a.d, d |-> a.d * b.d]
      [] op = "*" -> [n |-> a.n * b.n, d |-> a.d * b.d]
      [] op = "/" -> Over(a, b)
      [] op = "%" -> Rest(a, b)
      [] op = "^" -> Power(a, b)

Minus(a) == [a EXCEPT !.n = -@]
ByZero(op, b) == op \in {"/", "%"} /\ b.n = 0

----------------------------------------------------------------------------
(* The parser: each operator reads from position p on and returns what it  *)
(* found and where it stopped.                                             *)

Refused == [ok |-> FALSE, v |-> Whole(0), pos |-> 0]
Read(v, p) == [ok |-> TRUE, v |-> v, pos |-> p]
Peek(e, p) == IF p <= Len(e) THEN e[p] ELSE "end"

\* What an operator makes of what stands before and after it.
Combine(op, l, r) ==
    IF ~r.ok \/ ByZero(op, r.v) THEN Refused ELSE Read(Apply(op, l.v, r.v), r.pos)

RECURSIVE SumOf(_, _, _), ProductOf(_, _, _), PowerOf(_, _), UnaryOf(_, _)

Atom(e, p) ==
    IF Peek(e, p) \in DOMAIN Literal THEN Read(Whole(Literal[e[p]]), p + 1)
    ELSE IF Peek(e, p) = "("
    THEN LET v == SumOf(e, Refused, p + 1)
         IN IF v.ok /\ Peek(e, v.pos) = ")" THEN Read(v.v, v.pos + 1) ELSE Refused
    ELSE Refused

UnaryOf(e, p) ==
    CASE Peek(e, p) = "-" ->
            LET v == UnaryOf(e, p + 1) IN IF v.ok THEN Read(Minus(v.v), v.pos) ELSE v
      [] Peek(e, p) = "+" -> UnaryOf(e, p + 1)
      [] OTHER -> Atom(e, p)

\* (Mutant: left-associative.)
RECURSIVE PowerLeft(_, _, _)
PowerLeft(e, l, p) ==
    LET v == IF l.ok THEN Combine("^", l, UnaryOf(e, p)) ELSE UnaryOf(e, p)
    IN IF v.ok /\ Peek(e, v.pos) = "^" THEN PowerLeft(e, v, v.pos + 1) ELSE v
PowerOfLeft(e, p) == PowerLeft(e, Refused, p)

\* power: right-associative, over operands that have taken their signs.
PowerOf(e, p) ==
    LET base == UnaryOf(e, p)
    IN IF base.ok /\ Peek(e, base.pos) = "^" THEN Combine("^", base, PowerOf(e, base.pos + 1))
       ELSE base

\* term and expr go on from what they have, or begin at p.
ProductOf(e, l, p) ==
    LET v == IF l.ok THEN Combine(e[p - 1], l, PowerOf(e, p)) ELSE PowerOf(e, p)
    IN IF v.ok /\ Peek(e, v.pos) \in {"*", "/", "%"} THEN ProductOf(e, v, v.pos + 1) ELSE v

SumOf(e, l, p) ==
    LET v == IF l.ok THEN Combine(e[p - 1], l, ProductOf(e, Refused, p))
             ELSE ProductOf(e, Refused, p)
    IN IF v.ok /\ Peek(e, v.pos) \in {"+", "-"} THEN SumOf(e, v, v.pos + 1) ELSE v

\* eval: all of the text, or an error.
Eval(e) ==
    LET v == SumOf(e, Refused, 1)
    IN IF v.ok /\ v.pos = Len(e) + 1 THEN [ok |-> TRUE, v |-> v.v]
       ELSE [ok |-> FALSE, v |-> Whole(0)]

----------------------------------------------------------------------------
(* The grammar:                                                            *)
(*   sum     ::= product | sum AddOp product                               *)
(*   product ::= power   | product MulOp power                             *)
(*   power   ::= signed  | signed ^ power                                  *)
(*   signed  ::= atom    | AddOp signed                                    *)
(*   atom    ::= number  | ( sum )                                         *)
(* X(e, i, j) is the set of values tokens i..j have as an X.               *)

RECURSIVE Sum(_, _, _), Product(_, _, _), Raised(_, _, _), Signed(_, _, _)

Both(op, L, R) ==
    {[ok |-> l.ok /\ r.ok /\ ~ByZero(op, r.v),
      v |-> IF l.ok /\ r.ok /\ ~ByZero(op, r.v) THEN Apply(op, l.v, r.v) ELSE Whole(0)]
        : l \in L, r \in R}

At(e, i, j, ops) == {k \in i + 1 .. j - 1 : e[k] \in ops}

Bare(e, i, j) ==
    (IF i = j /\ e[i] \in DOMAIN Literal
     THEN {[ok |-> TRUE, v |-> Whole(Literal[e[i]])]} ELSE {})
    \cup (IF i + 1 < j /\ e[i] = "(" /\ e[j] = ")" THEN Sum(e, i + 1, j - 1) ELSE {})

Signed(e, i, j) ==
    Bare(e, i, j)
    \cup (IF i < j /\ e[i] = "+" THEN Signed(e, i + 1, j) ELSE {})
    \cup (IF i < j /\ e[i] = "-"
          THEN {[s EXCEPT !.v = Minus(@)] : s \in Signed(e, i + 1, j)} ELSE {})

Raised(e, i, j) ==
    Signed(e, i, j) \cup
    UNION {Both("^", Signed(e, i, k - 1), Raised(e, k + 1, j)) : k \in At(e, i, j, {"^"})}

Product(e, i, j) ==
    Raised(e, i, j) \cup
    UNION {Both(e[k], Product(e, i, k - 1), Raised(e, k + 1, j))
              : k \in At(e, i, j, {"*", "/", "%"})}

Sum(e, i, j) ==
    Product(e, i, j) \cup
    UNION {Both(e[k], Sum(e, i, k - 1), Product(e, k + 1, j)) : k \in At(e, i, j, {"+", "-"})}

Meaning(e) == IF e = <<>> THEN {} ELSE Sum(e, 1, Len(e))

\* The text has the one value the grammar gives it, and an error if it gives none or
\* divides by zero.
Faithful(e, answer) ==
    answer = IF \E m \in Meaning(e) : m.ok THEN CHOOSE m \in Meaning(e) : TRUE
             ELSE [ok |-> FALSE, v |-> Whole(0)]
=============================================================================
