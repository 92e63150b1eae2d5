---------------------------- MODULE IROpsMeaning ----------------------------
(***************************************************************************)
(* What the operations of the IR compute, as the comments of ir/op.h say,  *)
(* beside what the operators and conversions of the language mean.  A      *)
(* state is one question to the tables.                                    *)
(*                                                                         *)
(* The widths are scaled: 8, 16, 32 and 64 bits are 2, 3, 5 and 7, and the *)
(* significands of f32 and f64, which hold every 16 and every 32 bit       *)
(* integer but not every one of 32 and 64, are 3 and 5.                    *)
(***************************************************************************)
EXTENDS IROps, Bitwise

VARIABLE asked

Nothing == [kind |-> "none"]
Questions ==
  [kind : {"operator"}, tok : OpTokens, type1 : NumericTypes, type2 : NumericTypes \cup {"nil"}]
  \cup {q \in [kind : {"conversion"}, from : NumericTypes, to : NumericTypes] : q.from # q.to}

OpsInit == asked = Nothing
Ask == asked = Nothing /\ asked' \in Questions

Answer == IF asked.kind = "operator" THEN IROpFromAST(asked.tok, asked.type1, asked.type2)
          ELSE IROpConvertType(asked.from, asked.to)
Answered(kind) == asked.kind = kind /\ Answer \notin {OpNil, <<"assert">>}

-----------------------------------------------------------------------------
(* Numbers and their bits.                                                  *)
Bits(w)  == CASE w = 0 -> 1 [] w = 8 -> 2 [] w = 16 -> 3 [] w = 32 -> 5 [] w = 64 -> 7
Words(w) == 0 .. 2^Bits(w) - 1
Wrap(w, x) == x % 2^Bits(w)
Read(sign, w, x) == IF sign = "S" /\ x >= 2^(Bits(w) - 1) THEN x - 2^Bits(w) ELSE x
Truth(p) == IF p THEN 1 ELSE 0
Power(y) == 2^(IF y < Bits(64) THEN y ELSE Bits(64))     \* further on nothing is left to shift

\* Division is truncated toward zero.
Divided(x, y) == LET q == (IF x < 0 THEN -x ELSE x) \div (IF y < 0 THEN -y ELSE y) IN
                 IF (x < 0) = (y < 0) THEN q ELSE -q

\* What an operation gives for the words x and y.
Computed(op, x, y) ==
  LET w == op[3]
      a == Read(op[2], w, x)
      b == Read(op[2], w, y) IN
  CASE op[1] = "Add" -> Wrap(w, x + y)
    [] op[1] = "Sub" -> Wrap(w, x - y)
    [] op[1] = "Mul" -> Wrap(w, x * y)
    [] op[1] = "Div" -> Wrap(w, Divided(a, b))
    [] op[1] = "And" -> x & y
    [] op[1] = "Or"  -> x | y
    [] op[1] = "ShL" -> Wrap(w, x * Power(y))
    [] op[1] = "ShR" -> Wrap(w, a \div Power(y))
    [] op[1] = "Eq"  -> Truth(x = y)
    [] op[1] = "NEq" -> Truth(x # y)
    [] op[1] = "Less" -> Truth(a < b)
    [] op[1] = "LEq" -> Truth(a <= b)
    [] op[1] = "Greater" -> Truth(a > b)
    [] op[1] = "GEq" -> Truth(a >= b)
    [] op[1] = "Neg" -> Wrap(w, -x)
    [] op[1] = "Compl" -> 2^Bits(w) - 1 - x
    [] op[1] = "Not" -> 1 - x

\* What an operator means for the numbers a and b.
MeaningOf(tok, a, b) ==
  CASE tok = "Plus"  -> a + b
    [] tok = "Minus" -> a - b
    [] tok = "Star"  -> a * b
    [] tok = "Slash" -> Divided(a, b)
    [] tok = "Shl"   -> a * Power(b)
    [] tok = "Shr"   -> a \div Power(b)
    [] tok = "Hat"   -> -a - 1
    [] tok = "Excalm" -> 1 - a
    [] tok = "Eq"    -> Truth(a = b)
    [] tok = "NEq"   -> Truth(a # b)
    [] tok = "Lt"    -> Truth(a < b)
    [] tok = "LEq"   -> Truth(a <= b)
    [] tok = "Gt"    -> Truth(a > b)
    [] tok = "GEq"   -> Truth(a >= b)

Compares(tok) == tok \in {"Eq", "NEq", "Lt", "LEq", "Gt", "GEq"}

\* The numbers of a type, doubled, so that floats have halves; the largest
\* float is larger than any integer.
IntegersOf(t) == {2 * Read(SignOf(t), WidthOf(t), x) : x \in Words(WidthOf(t))}
Significand(t) == IF t = "f32" THEN 3 ELSE 5
FloatsOf(t) == LET m == {x * 2^e : x \in 0 .. 2^Significand(t) - 1, e \in 0 .. 6} IN m \cup {-x : x \in m}
Numbers(t) == IF SignOf(t) = "F" THEN FloatsOf(t) ELSE IntegersOf(t)

\* The number a conversion makes of a number that is one of the new type too.
Made(op, to, x) ==
  IF "F" \in {op[2], op[4]} THEN x
  ELSE 2 * Read(SignOf(to), WidthOf(to), Wrap(op[5], Read(op[2], op[3], Wrap(op[3], x \div 2))))

Keeps(op, from, to) == \A x \in Numbers(from) \cap Numbers(to) : Made(op, to, x) = x

-----------------------------------------------------------------------------
Chosen(op, tok, type1, type2) ==
  LET u == IF type2 = "nil" \/ tok \notin {"Shl", "Shr"} THEN type1 ELSE type2
      out == OutputType(op) IN
  /\ \A x \in Words(WidthOf(type1)), y \in Words(WidthOf(u)) :
       LET a == Read(SignOf(type1), WidthOf(type1), x)
           b == Read(SignOf(u), WidthOf(u), y) IN
       CASE type2 = "nil" /\ tok = "Minus" -> Computed(op, x, 0) = Wrap(WidthOf(type1), -a)
         [] type2 # "nil" /\ tok = "And"   -> Computed(op, x, y) = x & y
         [] type2 # "nil" /\ tok = "Pipe"  -> Computed(op, x, y) = x | y
         [] tok = "Slash" /\ y = 0         -> TRUE
         [] Compares(tok)                  -> Computed(op, x, y) = MeaningOf(tok, a, b)
         [] OTHER                          -> Computed(op, x, y) = Wrap(WidthOf(type1), MeaningOf(tok, a, b))
  /\ IF Compares(tok) \/ type1 = "bool" THEN out = "bool"
     ELSE out = "param1" \/ (WidthOf(out) = WidthOf(type1) /\ SignOf(out) = SignOf(type1))

(* For every operator and integer or boolean operands for which            *)
(* IROpFromAST has an operation: it gives the bits of what the operator    *)
(* means for the numbers the operands are, the second read as one of the   *)
(* type of the first unless it is the amount of a shift; and the type that *)
(* IROpInfo tells of its result is bool for a comparison, else one as wide *)
(* and signed as the first operand.  (& and | have no meaning but on bits.) *)
OperatorsMean ==
  Answered("operator") /\ SignOf(asked.type1) # "F" => Chosen(Answer, asked.tok, asked.type1, asked.type2)

(* A conversion that keeps the sign, or is from or to a float, keeps every *)
(* number that both types have, and IROpFlagLossy is set if and only if    *)
(* the new type lacks a number of the old one.                             *)
ConversionsKeep ==
  /\ Answered("conversion")
  /\ TypeCodeIsSigned(asked.from) = TypeCodeIsSigned(asked.to) \/ "F" \in {SignOf(asked.from), SignOf(asked.to)}
  => /\ Keeps(Answer, asked.from, asked.to)
     /\ IsLossy(Answer) <=> ~(Numbers(asked.from) \subseteq Numbers(asked.to))

(* Whatever operation the tables choose, it computes what was asked for.    *)
OperationsMean == OperatorsMean /\ ConversionsKeep
=============================================================================
