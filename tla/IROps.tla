-------------------------------- MODULE IROps --------------------------------
(***************************************************************************)
(* types.h, ir/op.h, ir/op.c and ir/ir-ast.c: the numeric types, the       *)
(* operations of the IR, and the tables that choose an operation for an    *)
(* operator and its operands or for a conversion.                          *)
(*                                                                         *)
(* An operation is named by its class, by how it takes the bits of its     *)
(* operands (S signed, U unsigned, I either, F float, B boolean) and by    *)
(* their widths: OpShRS8x16 is <<"ShR", "S", 8, 16>>, OpConvU16to32 is     *)
(* <<"Conv", "U", 16, "U", 32>>.  The tables are generated by a program,   *)
(* gen_ops.py, row by row; here is what all rows of a kind have in common. *)
(***************************************************************************)
EXTENDS Integers, Sequences

\* The numeric types in the order of their codes, which index the tables.
TypeCodes == <<"bool", "i8", "u8", "i16", "u16", "i32", "u32", "i64", "u64", "f32", "f64", "int", "uint">>
NumericTypes == {TypeCodes[k] : k \in DOMAIN TypeCodes}
CodeOf(t) == CHOOSE k \in DOMAIN TypeCodes : TypeCodes[k] = t

\* TypeCodeFlags: the bytes a value has, 0 where it is not said.
SizeFlag(t) == CASE t \in {"i8", "u8"} -> 1 [] t \in {"i16", "u16"} -> 2 [] t \in {"i32", "u32", "f32"} -> 4
                 [] t \in {"i64", "u64", "f64"} -> 8 [] OTHER -> 0
TypeCodeIsInt(t)    == t \in NumericTypes \ {"bool", "f32", "f64"}
TypeCodeIsSigned(t) == t \in {"i8", "i16", "i32", "i64", "f32", "f64", "int"}

\* In the tables int is i32 and uint is u32.
WidthOf(t) == IF t \in {"int", "uint"} THEN 32 ELSE 8 * SizeFlag(t)
SignOf(t)  == CASE t = "bool" -> "B" [] t \in {"f32", "f64"} -> "F"
                [] TypeCodeIsInt(t) -> IF TypeCodeIsSigned(t) THEN "S" ELSE "U"

OpNil == <<"Nil">>
IROpConstFromAST(t) ==
  <<"Const", CASE t = "bool" -> "B" [] TypeCodeIsInt(t) -> "I" [] SignOf(t) = "F" -> "F", WidthOf(t)>>

-----------------------------------------------------------------------------
(* IROpFromAST.                                                             *)
Agnostic == [Star |-> "Mul", And |-> "And", Plus |-> "Add", Minus |-> "Sub", Pipe |-> "Or", Eq |-> "Eq", NEq |-> "NEq"]
Signful  == [Slash |-> "Div", Lt |-> "Less", LEq |-> "LEq", Gt |-> "Greater", GEq |-> "GEq"]
OnFloats == [Star |-> "Mul", Slash |-> "Div", Plus |-> "Add", Minus |-> "Sub", Eq |-> "Eq", NEq |-> "NEq",
             Lt |-> "Less", LEq |-> "LEq", Gt |-> "Greater", GEq |-> "GEq"]
OnBooleans == [And |-> "And", Pipe |-> "Or", Eq |-> "Eq", NEq |-> "NEq"]
OnOne    == [Minus |-> "Neg", Hat |-> "Compl"]
OpTokens == DOMAIN Agnostic \cup DOMAIN Signful \cup {"Shl", "Shr", "Hat", "Excalm"}

BoolOp(tok, type2) ==
  CASE type2 = "nil" /\ tok = "Excalm" -> <<"Not", "B", 0>>
    [] type2 = "bool" /\ tok \in DOMAIN OnBooleans -> <<OnBooleans[tok], "B", 0>>
    [] OTHER -> OpNil

UnaryOp(tok, type1) ==
  CASE TypeCodeIsInt(type1) /\ tok \in DOMAIN OnOne -> <<OnOne[tok], "I", WidthOf(type1)>>
    [] SignOf(type1) = "F" /\ tok = "Minus" -> <<"Neg", "F", WidthOf(type1)>>
    [] OTHER -> OpNil

\* The operations that look at the sign want operands of one; for the others
\* it is enough that the operands have one width.
SameWidthOp(tok, type1, type2) ==
  CASE tok \in DOMAIN Agnostic -> <<Agnostic[tok], "I", WidthOf(type1)>>
    [] tok \in DOMAIN Signful /\ SignOf(type1) = SignOf(type2) -> <<Signful[tok], SignOf(type1), WidthOf(type1)>>
    [] OTHER -> OpNil

\* A shift is by an unsigned amount of any width.
ShiftOpLogical(tok, type1, type2) ==                           \* zeros come in (mutant)
  IF SignOf(type2) = "U" THEN <<IF tok = "Shl" THEN "ShL" ELSE "ShR", "U", WidthOf(type1), WidthOf(type2)>> ELSE OpNil
ShiftOp(tok, type1, type2) ==
  CASE SignOf(type2) = "U" /\ tok = "Shl" -> <<"ShL", "I", WidthOf(type1), WidthOf(type2)>>
    [] SignOf(type2) = "U" /\ tok = "Shr" -> <<"ShR", SignOf(type1), WidthOf(type1), WidthOf(type2)>>
    [] OTHER -> OpNil

IntOp(tok, type1, type2) ==
  CASE tok \in {"Shl", "Shr"} -> ShiftOp(tok, type1, type2)
    [] tok \notin {"Shl", "Shr"} /\ WidthOf(type1) = WidthOf(type2) -> SameWidthOp(tok, type1, type2)
    [] OTHER -> OpNil

FloatOp(tok, type1, type2) ==
  IF type1 = type2 /\ tok \in DOMAIN OnFloats THEN <<OnFloats[tok], "F", WidthOf(type1)>> ELSE OpNil

IROpFromAST(tok, type1, type2) ==
  CASE type1 \notin NumericTypes \/ type2 \notin NumericTypes \cup {"nil"} -> <<"assert">>
    [] type1 = "bool" -> BoolOp(tok, type2)
    [] type1 \in NumericTypes \ {"bool"} /\ type2 = "nil" -> UnaryOp(tok, type1)
    [] TypeCodeIsInt(type1) /\ type2 \in NumericTypes ->
         IF TypeCodeIsInt(type2) THEN IntOp(tok, type1, type2) ELSE OpNil
    [] OTHER -> FloatOp(tok, type1, type2)

-----------------------------------------------------------------------------
(* IROpConvertType.  Integers grow with their own sign, are cut whatever   *)
(* their sign, and become floats and back only from 32 bits on.            *)
OpConv(sign1, t1, sign2, t2) == <<"Conv", sign1, WidthOf(t1), sign2, WidthOf(t2)>>

ExtensionUnsigned(t1, t2) == OpConv("U", t1, "U", t2)          \* zeros come in (mutant)
Extension(t1, t2)  == IF SignOf(t1) = SignOf(t2) THEN OpConv(SignOf(t1), t1, SignOf(t2), t2) ELSE OpNil
Truncation(t1, t2) == OpConv("I", t1, "I", t2)

FloatConv(t1, t2) ==
  CASE SignOf(t1) = "F" /\ SignOf(t2) = "F" /\ t1 # t2 -> OpConv("F", t1, "F", t2)
    [] SignOf(t1) = "F" /\ TypeCodeIsInt(t2) /\ WidthOf(t2) >= 32 -> OpConv("F", t1, SignOf(t2), t2)
    [] TypeCodeIsInt(t1) /\ WidthOf(t1) >= 32 /\ SignOf(t2) = "F" -> OpConv(SignOf(t1), t1, "F", t2)
    [] OTHER -> OpNil

IROpConvMap(t1, t2) ==
  LET signs == {SignOf(t1), SignOf(t2)} IN
  CASE "B" \in signs -> OpNil
    [] "F" \in signs /\ "B" \notin signs -> FloatConv(t1, t2)
    [] signs \subseteq {"S", "U"} /\ WidthOf(t1) < WidthOf(t2) -> Extension(t1, t2)
    [] signs \subseteq {"S", "U"} /\ WidthOf(t1) > WidthOf(t2) -> Truncation(t1, t2)
    [] OTHER -> OpNil

\* Signed and unsigned integers of one width are neighbours among the codes;
\* int and uint come after all of those.
TypeCodeIntSignedCounterpart(t) ==
  IF ~(CodeOf("i8") <= CodeOf(t) /\ CodeOf(t) <= CodeOf("u64")) THEN "assert"
  ELSE TypeCodes[IF TypeCodeIsSigned(t) THEN CodeOf(t) + 1 ELSE CodeOf(t) - 1]

\* An integer that grows and changes its sign is taken to have the other sign
\* before it grows.
Reinterpreted(from, to) ==
  LET other == TypeCodeIntSignedCounterpart(from) IN
  IF other = "assert" THEN <<"assert">> ELSE IROpConvMap(other, to)

IROpConvertType(from, to) ==
  CASE from = to \/ ~({from, to} \subseteq NumericTypes) -> <<"assert">>
    [] from # to /\ {from, to} \subseteq NumericTypes ->
       IF /\ IROpConvMap(from, to) = OpNil
          /\ TypeCodeIsInt(from) /\ TypeCodeIsInt(to)
          /\ TypeCodeIsSigned(from) # TypeCodeIsSigned(to)
          /\ SizeFlag(from) < SizeFlag(to)
       THEN Reinterpreted(from, to)
       ELSE IROpConvMap(from, to)

-----------------------------------------------------------------------------
(* IROpInfo: the type of the result, param1 where it is that of the first  *)
(* operand, and the flag of what may lose a number: of the conversions,    *)
(* those that cut, and those to and from floats but for three.             *)
Comparisons == {"Eq", "NEq", "Less", "Greater", "LEq", "GEq"}
IntOfWidth(sign, w) == CHOOSE t \in NumericTypes \ {"int", "uint"} : SignOf(t) = sign /\ WidthOf(t) = w
FloatOfWidth(w) == CHOOSE t \in {"f32", "f64"} : WidthOf(t) = w
TypeOfWidth(sign, w) == CASE sign = "I" -> "param1" [] sign = "F" -> FloatOfWidth(w)
                          [] sign \in {"S", "U"} -> IntOfWidth(sign, w)

OutputType(op) ==
  CASE op[1] = "Conv" -> TypeOfWidth(op[4], op[5])
    [] op[1] \in Comparisons \/ op[2] = "B" -> "bool"
    [] OTHER -> TypeOfWidth(op[2], op[3])

ExactConvs == {<<"Conv", "S", 32, "F", 64>>, <<"Conv", "U", 32, "F", 64>>, <<"Conv", "F", 32, "F", 64>>}
IsLossy(op) == op[1] = "Conv" /\ op \notin ExactConvs /\ {op[2], op[4]} \cap {"I", "F"} # {}
=============================================================================
