------------------------------ MODULE Scanner ------------------------------
(***************************************************************************)
(* The scanner (src/src/co/parse/scan.c): from the bytes of a source to     *)
(* tokens, with the semicolons and braces that line breaks and indentation  *)
(* stand for.                                                              *)
(*                                                                         *)
(* A source is a sequence of characters, one of each kind that the scanner  *)
(* tells apart.  One action is one pass of ScannerNext: it ends in a token, *)
(* or in "goto scan_again" after a comment.  Where tokens are reported      *)
(* (lines and columns) and the list of comments are left out.              *)
(***************************************************************************)
EXTENDS Integers, Sequences, FiniteSets

CONSTANTS Source      \* the sources

ASSUME ScannerAssumption == Source # {} /\ \A s \in Source : s \in Seq(STRING)

VARIABLES body,        \* the source
          inp,         \* the index of the next character
          linestart,   \* that of the first of its line
          indent,      \* the level of indentation: its column and whether it is a block
          indentDst,   \* what it is to unwind to
          indentStack, \* the levels around it
          insertSemi,  \* a line break here ends a statement
          toks         \* history: the tokens, with the index of their first character

scanVars == <<body, inp, linestart, indent, indentDst, indentStack, insertSemi, toks>>

-----------------------------------------------------------------------------
(* Characters                                                               *)

White == {" ", "\n"}
Letters == {"w", "k", "$"}         \* of which "k" is a keyword that no statement ends with
Digits == {"1"}
Unicode == {"u"}                   \* not below RuneSelf
Ident == {"w", "k", "1", "+", "-"} \* CH_IDENT

inend == Len(body) + 1
At(i) == IF i < inend THEN body[i] ELSE ""

\* The end of the run of characters in C that begins at i.
RunEnd(i, C) == CHOOSE j \in i .. inend : /\ \A k \in i .. j-1 : body[k] \in C
                                          /\ At(j) \notin C

-----------------------------------------------------------------------------
(* Tokens                                                                   *)

\* Operators of two characters, and what they are alone.  ">=" is TLEq.
Operators2 ==
  {<<"-", ">", "TArr">>, <<"-", "-", "TMinusMinus">>, <<"-", "=", "TMinusAssign">>,
   <<"+", "+", "TPlusPlus">>, <<"+", "=", "TPlusAssign">>,
   <<"&", "&", "TAndAnd">>, <<"&", "=", "TAndAssign">>,
   <<"|", "|", "TPipePipe">>, <<"|", "=", "TPipeAssign">>,
   <<"/", "=", "TSlashAssign">>, <<"!", "=", "TNEq">>, <<"%", "=", "TPercentAssign">>,
   <<"*", "=", "TStarAssign">>, <<"=", "=", "TEq">>, <<"^", "=", "THatAssign">>,
   <<"~", "=", "TTildeAssign">>, <<"<", "=", "TLEq">>, <<"<", "<", "TShl">>,
   <<">", "=", "TLEq">>, <<">", ">", "TShr">>}
Operators1 ==
  {<<"-", "TMinus">>, <<"+", "TPlus">>, <<"&", "TAnd">>, <<"|", "TPipe">>, <<"/", "TSlash">>,
   <<"!", "TExcalm">>, <<"%", "TPercent">>, <<"*", "TStar">>, <<"=", "TAssign">>,
   <<"^", "THat">>, <<"~", "TTilde">>, <<"<", "TLt">>, <<">", "TGt">>,
   <<"(", "TLParen">>, <<")", "TRParen">>, <<"{", "TLBrace">>, <<"}", "TRBrace">>,
   <<"[", "TLBrack">>, <<"]", "TRBrack">>, <<",", "TComma">>, <<";", "TSemi">>,
   <<":", "TColon">>, <<".", "TDot">>}

\* The next character is seen only if there is one after it.
nextc(i) == IF i + 2 < inend THEN At(i+1) ELSE ""

\* A shift may be followed by "=", seen only if there is a character after it.
Shift(i, tok) ==
  IF i + 3 < inend /\ At(i+2) = "="
  THEN [tok |-> IF tok = "TShl" THEN "TShlAssign" ELSE "TShrAssign", end |-> i + 3]
  ELSE [tok |-> tok, end |-> i + 2]

Operator(i) ==
  LET two == {o \in Operators2 : o[1] = At(i) /\ o[2] = nextc(i)}
      one == {o \in Operators1 : o[1] = At(i)}
      tok == (CHOOSE o \in two : TRUE)[3]
  IN IF two = {} THEN [tok |-> (CHOOSE o \in one : TRUE)[2], end |-> i + 1]
     ELSE IF tok \in {"TShl", "TShr"} THEN Shift(i, tok)
     ELSE [tok |-> tok, end |-> i + 2]

\* sname and snameuni: a name goes on with characters of both.
Name(i) ==
  LET end == RunEnd(i + 1, Ident \cup Unicode)
  IN [tok |-> IF At(i) = "k" /\ end = i + 1 THEN "TKeyword" ELSE "TId", end |-> end]

snumber(i) == [tok |-> "TIntLit", end |-> RunEnd(i + 1, Digits)]

\* An invalid character is reported; the parser takes TNone for the end.
Invalid(i) == [tok |-> "TNone", end |-> i + 1]

Token(i) ==
  IF At(i) \in Letters \cup Unicode THEN Name(i)
  ELSE IF At(i) \in Digits THEN snumber(i)
  ELSE IF \E o \in Operators1 : o[1] = At(i) THEN Operator(i)
  ELSE Invalid(i)

EndsStatement == {"TId", "TIntLit", "TPlusPlus", "TMinusMinus", "TRParen", "TRBrace", "TRBrack"}

\* The end of a comment that begins at i: of the line, or of the block.
scomment(i) == CHOOSE j \in i+2 .. inend : /\ \A k \in i+2 .. j-1 : body[k] # "\n"
                                           /\ At(j) \in {"\n", ""}
scomment_block(i) ==
  LET E == {j \in i+3 .. inend-1 : body[j-1] = "*" /\ body[j] = "/"}
  IN IF E = {} THEN inend ELSE (CHOOSE j \in E : \A k \in E : j <= k) + 1

-----------------------------------------------------------------------------
(* Indentation                                                              *)

Level == [indent |-> indent, stack |-> indentStack]

indent_push(l, dst) == [indent |-> dst, stack |-> Append(l.stack, l.indent)]

indent_pop(l, dst) ==
  IF l.stack = <<>> THEN [indent |-> dst, stack |-> <<>>]
  ELSE [indent |-> l.stack[Len(l.stack)], stack |-> SubSeq(l.stack, 1, Len(l.stack) - 1)]

\* Levels that remain to be closed; one a pass.
Unwinding == indent.n > indentDst.n

Unwound == IF Unwinding THEN indent_pop(Level, indentDst) ELSE Level

\* After the blanks.
Next1 == RunEnd(inp, White)
Breaks == {i \in inp .. Next1-1 : body[i] = "\n"}
LineStart == IF Breaks = {} THEN linestart ELSE (CHOOSE i \in Breaks : \A j \in Breaks : j <= i) + 1
AtLineStart == inp = linestart \/ Breaks # {}

Dst == IF AtLineStart THEN [n |-> Next1 - LineStart, isblock |-> insertSemi] ELSE indentDst
Deeper == AtLineStart /\ Dst.n > Unwound.indent.n
Shallower == AtLineStart /\ Dst.n < Unwound.indent.n

ClosesBlock == Shallower /\ Unwound.indent.isblock

\* Mutation of Settled: a level that is no block stays.
SettledKept == IF Deeper THEN indent_push(Unwound, Dst)
               ELSE IF ClosesBlock THEN indent_pop(Unwound, Dst) ELSE Unwound

\* The level the line is at.
Settled == IF Deeper THEN indent_push(Unwound, Dst)
           ELSE IF Shallower THEN indent_pop(Unwound, Dst) ELSE Unwound

-----------------------------------------------------------------------------
(* ScannerNext                                                              *)

Going == \A k \in DOMAIN toks : toks[k].tok # "TNone"

Produce(tok, i) == toks' = Append(toks, [tok |-> tok, at |-> i])

Levels(l, dst) == indent' = l.indent /\ indentStack' = l.stack /\ indentDst' = dst

\* "unwind >1-level indent"
UnwindBlock ==
  /\ Going /\ Unwinding /\ indent.isblock
  /\ Levels(Unwound, indentDst)
  /\ Produce("TRBrace", 0)
  /\ UNCHANGED <<body, inp, linestart, insertSemi>>

\* What is not ended by that goes on behind the blanks.
Past == Going /\ ~(Unwinding /\ indent.isblock)
SkipBlanks == inp' = Next1 /\ linestart' = LineStart /\ UNCHANGED body

\* "increase in indentation"
OpenBlock ==
  /\ Past /\ Deeper /\ insertSemi
  /\ SkipBlanks
  /\ Levels(Settled, Dst)
  /\ insertSemi' = FALSE
  /\ Produce("TLBrace", 0)

\* "decrease in indentation": of the first level, the others unwind later.
CloseBlock ==
  /\ Past /\ ClosesBlock
  /\ SkipBlanks
  /\ Levels(Settled, Dst)
  /\ insertSemi' = FALSE
  /\ Produce("TRBrace", 0)

EndStatement ==
  /\ Past /\ AtLineStart /\ ~Deeper /\ ~ClosesBlock /\ insertSemi
  /\ SkipBlanks
  /\ Levels(Settled, Dst)
  /\ insertSemi' = FALSE
  /\ Produce("TSemi", 0)

\* Otherwise the line break means nothing.
Continues == Past /\ (AtLineStart => ~insertSemi /\ ~ClosesBlock)

\* At the end of the source one level is closed in a call.
Eof ==
  LET dst == [Dst EXCEPT !.n = 0]
      open == Settled.indent.n > 0
      isblock == open /\ Settled.indent.isblock
  IN /\ Continues /\ Next1 = inend
     /\ SkipBlanks
     /\ Levels(IF open THEN indent_pop(Settled, dst) ELSE Settled, dst)
     /\ insertSemi' = FALSE
     /\ Produce(IF isblock THEN "TRBrace" ELSE IF insertSemi THEN "TSemi" ELSE "TNone", 0)

Comment(i) == At(i) = "/" /\ nextc(i) \in {"/", "*"}

ScanToken ==
  LET t == Token(Next1)
  IN /\ Continues /\ Next1 < inend /\ ~Comment(Next1)
     /\ inp' = t.end /\ linestart' = LineStart
     /\ Levels(Settled, Dst)
     /\ insertSemi' = (t.tok \in EndsStatement)
     /\ Produce(t.tok, Next1)
     /\ UNCHANGED body

\* Line breaks in a comment begin lines, and are no line starts.
ScanComment ==
  LET end == IF nextc(Next1) = "/" THEN scomment(Next1) ELSE scomment_block(Next1)
      breaks == {j \in Next1 .. end-1 : body[j] = "\n"}
  IN /\ Continues /\ Next1 < inend /\ Comment(Next1)
     /\ inp' = end
     /\ linestart' = IF breaks = {} THEN LineStart
                     ELSE (CHOOSE j \in breaks : \A b \in breaks : b <= j) + 1
     /\ Levels(Settled, Dst)
     /\ UNCHANGED <<body, insertSemi, toks>>

ScannerInit ==
  /\ body \in Source
  /\ inp = 1 /\ linestart = 1
  /\ indent = [n |-> 0, isblock |-> FALSE] /\ indentDst = indent
  /\ indentStack = <<>>
  /\ insertSemi = FALSE
  /\ toks = <<>>

ScannerNext ==
  UnwindBlock \/ OpenBlock \/ CloseBlock \/ EndStatement \/ Eof \/ ScanToken \/ ScanComment

-----------------------------------------------------------------------------
(* Properties: blocks as the manual and the tests have them, by looking at  *)
(* the lines that are not empty, each known by its first character.         *)

Lines == {i \in 1 .. Len(body) : /\ body[i] \notin White
                                 /\ \E b \in 0 .. i-1 : /\ b = 0 \/ body[b] = "\n"
                                                        /\ \A j \in b+1 .. i-1 : body[j] = " "}
LineOf(p) == CHOOSE i \in Lines : i <= p /\ \A j \in Lines : j <= p => j <= i
Above(i) == {j \in Lines : j < i}
Col(i) == CHOOSE n \in 0 .. i-1 : /\ \A j \in i-n .. i-1 : body[j] = " "
                                  /\ i = n + 1 \/ body[i-n-1] = "\n"

Below(j) == LET B == {i \in Lines : i > j}
            IN IF B = {} THEN 0 ELSE Col(CHOOSE i \in B : \A k \in B : i <= k)

\* The line ends with a token that a semicolon may follow.
Ends(i) == \E k \in DOMAIN toks : /\ toks[k].at >= i /\ LineOf(toks[k].at) = i
                                  /\ toks[k].tok \in EndsStatement
                                  /\ \A l \in k+1 .. Len(toks) :
                                       toks[l].at = 0 \/ LineOf(toks[l].at) # i

\* A line that is further in than the one before, and one that opens a block.
Grows(i) == IF Above(i) = {} THEN Col(i) > 0 ELSE Col(i) > Col(LineOf(i-1))
Opens(i) == Grows(i) /\ Above(i) # {} /\ Ends(LineOf(i-1))

\* Line j is as far in as i, with all lines between.
Within(i, j) == i <= j /\ \A m \in Lines : i <= m /\ m <= j => Col(m) >= Col(i)

BlocksAt(j) == {i \in Lines : Opens(i) /\ Within(i, j)}

\* What column c closes of the indentations that line j is in.
Closed(j, c) == {i \in Lines : Grows(i) /\ Within(i, j) /\ Col(i) > c}

\* A line further out is at the column of a line it may belong to, and of
\* what it closes only the innermost may be an indentation that opened no block.
Regular(j, c) ==
  LET closed == Closed(j, c)
      inner == CHOOSE i \in closed : \A k \in closed : k <= i
  IN c < Col(j) =>
       /\ c = 0 \/ \E i \in Lines : Within(i, j) /\ Col(i) = c
       /\ \A i \in closed \ {inner} : Opens(i)
       /\ Opens(inner) \/ Ends(j) \/ closed = {inner}

\* Without braces of its own, comments of several lines, and invalid characters.
Plain == /\ \A i \in DOMAIN body : body[i] \notin {"{", "}", "#"}
         /\ \A i \in 1 .. Len(body)-1 : <<body[i], body[i+1]>> # <<"/", "*">>

Count(n, tok) == Cardinality({k \in 1 .. n : toks[k].tok = tok})
Depth(n) == Count(n, "TLBrace") - Count(n, "TRBrace")

\* "if the indentation of the following line is greater ... an opening curly
\* brace is inserted", and one that closes "for each recorded automatic
\* block": every token is in as many braces as blocks of lines, no statement
\* runs into the next line, and at the end all blocks are closed; whatever
\* continuation lines, comments and empty lines there are between, as long
\* as no line closes a continuation together with what is around it.
BlocksFollowIndent ==
  ~Going /\ Plain /\ (\A j \in Lines : Regular(j, Below(j)))
  => /\ Depth(Len(toks)) = 0
     /\ \A k \in DOMAIN toks : toks[k].at > 0 =>
          /\ Depth(k) = Cardinality(BlocksAt(LineOf(toks[k].at)))
          /\ \A l \in k+1 .. Len(toks) :
               toks[l].at > 0 /\ LineOf(toks[l].at) # LineOf(toks[k].at) /\ Ends(LineOf(toks[k].at))
               => \E m \in k+1 .. l-1 : toks[m].at = 0
=============================================================================
