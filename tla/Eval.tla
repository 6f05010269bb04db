------------------------------- MODULE Eval -------------------------------
(***************************************************************************)
(* The expression evaluator of SimpleScalar (eval.c), as the debugger uses *)
(* it (ident_evaluator in dlite.c): a recursive descent over the tokens of *)
(* a string with one token of lookahead, typed integer arithmetic, and     *)
(* identifiers that may name a statistic that is itself an expression.     *)
(*                                                                         *)
(* A text is a sequence of tokens; what the characters of a token are is   *)
(* left out, and so are float and double values.  A token is a record:     *)
(* [tok |-> "const", n |-> 4], [tok |-> "ident", name |-> "a"], or an      *)
(* operator, a parenthesis or "invalid" (a character of no token).         *)
(***************************************************************************)
EXTENDS Integers, Sequences

CONSTANTS
  Texts,         \* the token sequences that are evaluated
  Idents,        \* name -> [val |-> typed value], [formula |-> tokens], [dist |-> 0] for
                 \* a distribution or [counter |-> 0] for a counter of the simulator
  IntBits,       \* width of int; a quad is twice as wide
  AddrBits       \* width of md_addr_t: IntBits on PISA, 2 * IntBits on Alpha

VARIABLES
  LongBits,      \* width of long on the host
  text,          \* the expression
  result         \* <<>>, then <<[val, err, endp]>>

vars == <<LongBits, text, result>>

-----------------------------------------------------------------------------
(* Typed values, and the conversions between the types.                    *)

Bits(type) ==
  CASE type \in {"int", "uint"} -> IntBits
    [] type = "addr" -> AddrBits
    [] type \in {"qword", "sqword"} -> 2 * IntBits

Signed(type) == type \in {"int", "sqword"}

Smallest(type) == -(2 ^ (Bits(type) - 1))

\* eval_as_int() ... eval_as_qword(): the C cast.
Cast(type, v) ==
  LET m == 2 ^ Bits(type)
      u == v % m
  IN  IF Signed(type) /\ u >= m \div 2 THEN u - m ELSE u

Value(type, v) == [type |-> type, v |-> Cast(type, v)]

err_value == [type |-> "int", v |-> 0]

result_type(t1, t2) ==
  CASE "qword" \in {t1, t2} -> "qword"
    [] "qword" \notin {t1, t2} /\ "sqword" \in {t1, t2} -> "sqword"
    [] {t1, t2} \cap {"qword", "sqword"} = {} /\ "addr" \in {t1, t2} -> "addr"
    [] {t1, t2} \subseteq {"int", "uint"} /\ "uint" \in {t1, t2} -> "uint"
    [] OTHER -> "int"

Arith(Op(_, _), a, b) ==
  LET et == result_type(a.type, b.type)
  IN  Value(et, Op(Cast(et, a.v), Cast(et, b.v)))

f_add(a, b) == Arith(LAMBDA x, y : x + y, a, b)

f_sub(a, b) == Arith(LAMBDA x, y : x - y, a, b)

f_mult(a, b) == Arith(LAMBDA x, y : x * y, a, b)

\* Division truncates towards zero.
Quotient(x, y) ==
  LET Abs(z) == IF z < 0 THEN -z ELSE z
      q == Abs(x) \div Abs(y)
  IN  IF (x < 0) = (y < 0) THEN q ELSE -q

f_div(a, b) == Arith(Quotient, a, b)

\* The host traps when the smallest number is divided by -1.
Traps(a, b) ==
  LET et == result_type(a.type, b.type)
  IN  Signed(et) /\ Cast(et, a.v) = Smallest(et) /\ Cast(et, b.v) = -1

\* The type is widened where the operand's cannot hold the result.
f_neg(a) ==
  CASE a.type = "qword" -> Value("sqword", -a.v)
    [] a.type = "uint" -> IF a.v > 2 ^ (IntBits - 1) THEN Value("sqword", -a.v)
                          ELSE Value("int", -a.v)
    [] a.type = "int" /\ a.v = Smallest("int") -> Value("uint", -a.v)
    [] OTHER -> Value(a.type, -a.v)

f_eq_zero(a) == a.v = 0

\* A literal: the first conversion that reports no error.  strtol() and
\* strtoul() convert to long, which may be wider than the int assigned.
constant(n) ==
  CASE n < 2 ^ (LongBits - 1) -> Value("int", n)
    [] 2 ^ (LongBits - 1) <= n /\ n < 2 ^ LongBits -> Value("uint", n)
    [] 2 ^ LongBits <= n /\ n < 2 ^ (2 * IntBits - 1) -> Value("sqword", n)
    [] OTHER -> Value("qword", n)

-----------------------------------------------------------------------------
(* The token stream of evaluator es: p is the next token, tok_buf the last *)
(* one, peek_tok the kind of a token that was looked at and not taken.     *)

NewState(tokens) ==
  [text |-> tokens, p |-> 1, lastp |-> 1, tok_buf |-> [tok |-> "invalid"],
   peek_tok |-> "invalid", err |-> ""]

get_next_token(es) ==
  IF es.peek_tok # "invalid"
  THEN [tok |-> es.peek_tok, es |-> [es EXCEPT !.peek_tok = "invalid"]]
  ELSE IF es.p > Len(es.text) THEN [tok |-> "eof", es |-> es]
  ELSE [tok |-> es.text[es.p].tok,
        es |-> [es EXCEPT !.p = @ + 1, !.tok_buf = es.text[es.p]]]

\* A token that is invalid cannot be told from no token: it is skipped, and
\* the next look takes another one.
peek_next_token(es) ==
  IF es.peek_tok # "invalid" THEN [tok |-> es.peek_tok, es |-> es]
  ELSE LET n == get_next_token([es EXCEPT !.lastp = es.p])
       IN  [tok |-> n.tok, es |-> [n.es EXCEPT !.peek_tok = n.tok]]

Skip(es) == get_next_token(peek_next_token(es).es).es

Fail(es, err) == [es |-> [es EXCEPT !.err = err], val |-> err_value]

-----------------------------------------------------------------------------
(* The recursive descent.  Each returns the state of the evaluator and the *)
(* value, which is err_value as soon as there is an error.                 *)

RECURSIVE expr(_), term(_), factor(_)

\* eval_expr(): endp is behind the tokens that were used.
eval_expr(tokens) ==
  LET r == expr(NewState(tokens))
  IN  [val |-> r.val, err |-> r.es.err,
       endp |-> IF r.es.peek_tok # "invalid" THEN r.es.lastp ELSE r.es.p]

\* ident_evaluator(): a register or a symbol has a value; a statistic that is
\* a formula is evaluated by an evaluator of its own.  A formula that is
\* followed by more text yields 0 and no error; a distribution is an error.  A
\* counter is a statistic of class sc_sqword, which the switch has no case for:
\* panic() ends the simulator, also from within a formula.
ident_evaluator(es, name) ==
  IF name \notin DOMAIN Idents THEN Fail(es, "undefined variable")
  ELSE LET entry == Idents[name]
       IN  CASE "val" \in DOMAIN entry -> [es |-> es, val |-> entry.val]
             [] "formula" \in DOMAIN entry ->
                  LET r == eval_expr(entry.formula)
                  IN  IF r.err # "" THEN Fail(es, r.err)
                      ELSE [es |-> es, val |-> IF r.endp <= Len(entry.formula)
                                               THEN err_value ELSE r.val]
             [] "dist" \in DOMAIN entry -> Fail(es, "badly formed expression")
             [] "counter" \in DOMAIN entry -> Fail(es, "panic")

\* What follows the expression r of a parenthesis, up to the one that closes it.
Closed(r) ==
  IF r.es.err # "" THEN r
  ELSE IF peek_next_token(r.es).tok # ")"
       THEN Fail(peek_next_token(r.es).es, "unmatched parenthesis")
  ELSE [r EXCEPT !.es = Skip(@)]

Negated(r) == IF r.es.err # "" THEN r ELSE [r EXCEPT !.val = f_neg(@)]

\* es: after the token tok.
FactorAt(tok, es) ==
  CASE tok = "(" -> Closed(expr(es))
    [] tok = "-" -> Negated(factor(es))
    [] tok = "ident" -> ident_evaluator(es, es.tok_buf.name)
    [] tok = "const" -> [es |-> es, val |-> constant(es.tok_buf.n)]

factor(es) ==
  IF peek_next_token(es).tok \in {"(", "-", "ident", "const"}
  THEN FactorAt(peek_next_token(es).tok, Skip(es))
  ELSE Fail(peek_next_token(es).es, "expression term is missing")

\* The operation op on the value l and the outcome r of its right operand.
Combined(op, l, r) ==
  CASE r.es.err # "" -> r
    [] r.es.err = "" /\ op = "+" -> [r EXCEPT !.val = f_add(l, @)]
    [] r.es.err = "" /\ op = "-" -> [r EXCEPT !.val = f_sub(l, @)]
    [] r.es.err = "" /\ op = "*" -> [r EXCEPT !.val = f_mult(l, @)]
    [] r.es.err = "" /\ op = "/" ->
         IF f_eq_zero(r.val) THEN Fail(r.es, "divide by zero")
         ELSE IF Traps(l, r.val) THEN Fail(r.es, "trap")
         ELSE [r EXCEPT !.val = f_div(l, @)]

\* The left operand l, and if one of the operators follows it, the operation on
\* what Operand finds behind that.
Chain(l, operators, Operand(_)) ==
  IF l.es.err # "" THEN l
  ELSE IF peek_next_token(l.es).tok \in operators
       THEN Combined(peek_next_token(l.es).tok, l.val, Operand(Skip(l.es)))
  ELSE [l EXCEPT !.es = peek_next_token(@).es]

term_one_product(es) == Chain(factor(es), {"*", "/"}, factor)

term(es) == Chain(factor(es), {"*", "/"}, term)

expr(es) == Chain(term(es), {"+", "-"}, expr)

-----------------------------------------------------------------------------
(* One call of eval_expr() on every text, on a 32-bit and a 64-bit host.   *)

Init ==
  /\ LongBits \in {IntBits, 2 * IntBits}
  /\ text \in Texts
  /\ result = <<>>

Evaluate ==
  /\ result = <<>>
  /\ result' = <<eval_expr(text)>>
  /\ UNCHANGED <<LongBits, text>>

Next == Evaluate

Spec == Init /\ [][Next]_vars

-----------------------------------------------------------------------------
(* The grammar of the debugger's help text (dlite.c, dlite_help_tail), as  *)
(* the set of values the tokens i .. j of a text have under each of its    *)
(* rules: empty if they cannot be derived or the value is not defined.     *)

RECURSIVE ExprValues(_, _, _), FactorValues(_, _, _), TermValues(_, _, _)

IdentValues(name) ==
  IF name \notin DOMAIN Idents THEN {}
  ELSE CASE "val" \in DOMAIN Idents[name] -> {Idents[name].val}
         [] "formula" \in DOMAIN Idents[name] ->
              ExprValues(Idents[name].formula, 1, Len(Idents[name].formula))
         [] OTHER -> {}

TermValues(s, i, j) ==
  IF i > j THEN {}
  ELSE CASE s[i].tok = "(" /\ s[j].tok = ")" -> ExprValues(s, i + 1, j - 1)
         [] s[i].tok = "-" -> {f_neg(v) : v \in TermValues(s, i + 1, j)}
         [] s[i].tok = "const" /\ i = j -> {constant(s[i].n)}
         [] s[i].tok = "ident" /\ i = j -> IdentValues(s[i].name)
         [] OTHER -> {}

FactorValues(s, i, j) ==
  TermValues(s, i, j) \cup
  UNION {LET A == TermValues(s, i, k - 1)
             B == FactorValues(s, k + 1, j)
         IN  CASE s[k].tok = "*" -> {f_mult(a, b) : a \in A, b \in B}
               [] s[k].tok = "/" ->
                    {f_div(p[1], p[2]) : p \in {q \in A \X B : q[2].v # 0 /\ ~Traps(q[1], q[2])}}
               [] OTHER -> {} : k \in i + 1 .. j - 1}

ExprValues(s, i, j) ==
  FactorValues(s, i, j) \cup
  UNION {LET A == FactorValues(s, i, k - 1)
             B == ExprValues(s, k + 1, j)
         IN  CASE s[k].tok = "+" -> {f_add(a, b) : a \in A, b \in B}
               [] s[k].tok = "-" -> {f_sub(a, b) : a \in A, b \in B}
               [] OTHER -> {} : k \in i + 1 .. j - 1}

\* Texts the grammar says nothing about: the evaluator skips an invalid token,
\* and takes a formula with text behind it for 0.
Regular(s) ==
  \A i \in DOMAIN s :
    /\ s[i].tok # "invalid"
    /\ s[i].tok = "ident" /\ s[i].name \in DOMAIN Idents =>
         LET entry == Idents[s[i].name]
         IN  "formula" \in DOMAIN entry =>
               eval_expr(entry.formula).err # "" \/ IdentValues(s[i].name) # {}

RECURSIVE NamesCounter(_)

\* The tokens name a counter, or a formula that is read up to one.
NamesCounter(s) ==
  \E i \in DOMAIN s :
    /\ s[i].tok = "ident" /\ s[i].name \in DOMAIN Idents
    /\ LET entry == Idents[s[i].name]
       IN  \/ "counter" \in DOMAIN entry
           \/ /\ "formula" \in DOMAIN entry
              /\ NamesCounter(SubSeq(entry.formula, 1, eval_expr(entry.formula).endp - 1))

\* The evaluator agrees with the grammar the debugger documents, right
\* associativity included: a text of the grammar is used up and has its value,
\* and when no error is reported the text up to endp is of the grammar and has
\* the value returned.  The grammar gives a counter no value, and the simulator
\* is ended by a panic exactly when the text that was used names one, directly
\* or through a formula.  Negation is exact for int and unsigned operands, and on
\* a host whose long is an int a literal denotes its number, if a quad holds it.
EvaluatorFollowsGrammar ==
  result # <<>> /\ Regular(text) =>
    LET r == result[1]
        V == ExprValues(text, 1, Len(text))
    IN  /\ V # {} => r.err = "" /\ V = {r.val} /\ r.endp = Len(text) + 1
        /\ r.err = "" => ExprValues(text, 1, r.endp - 1) = {r.val}
        /\ r.err = "panic" <=> NamesCounter(SubSeq(text, 1, r.endp - 1))
        /\ LongBits = IntBits =>
             /\ \A n \in 0 .. 2 ^ (2 * IntBits) - 1 :
                  text = <<[tok |-> "const", n |-> n]>> => r.val.v = n
             /\ \A n \in 0 .. 2 ^ (2 * IntBits - 1) :
                  text = <<[tok |-> "-"], [tok |-> "const", n |-> n]>> => r.val.v = -n
=============================================================================
