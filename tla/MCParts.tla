------------------------------ MODULE MCParts ------------------------------
(* Model checking of the sequential parts, the lists of the runtime and the  *)
(* tables of IR operations, in one run: every behaviour chooses a part and   *)
(* moves that part only.                                                     *)
EXTENDS HashMap, TaskLists, StealOrder, RBTree, Scanner, IROpsMeaning, TLC

VARIABLE part

\* Hash map keys are numbers and hash to themselves, so that the cfg chooses
\* which of them meet in a bucket.
MCHash(k) == k

\* Keys of the tree: hashes that differ, and keys of one hash that differ in
\* length, in bytes, or in both.
MCTreeKeys == {<<h, 1>> : h \in {1, 2, 4, 5, 6}} \cup {<<3, 2>>, <<3, 1, 1>>, <<3, 1, 2>>, <<3, 3, 1>>}

\* Lines of the sources: what they are indented by and what they say.
Blank(n) == [i \in 1 .. n |-> " "]
MCLines(I, T) == {Blank(n) \o t \o <<"\n">> : n \in I, t \in T}
Ending == <<"w">>
Going_on == <<"w", " ", "*">>

\* Four lines under a first, that end statements or go on; three lines with
\* comments, empty lines and other ends, and the last one without a line
\* break; and every operator with every end of a line or of the source.
MCSources ==
  LET two == MCLines(0 .. 3, {Ending, Going_on})
      other == MCLines(0 .. 2, {Ending, Going_on, <<"/", "/", "w">>, <<>>, <<"1", " ", "+", "+">>})
      ops == {o[1] \o o[2] : o \in {<<<<p[1], p[2]>>, e>> : p \in Operators2,
                                     e \in {<<>>, <<"\n">>, <<"=">>, <<"=", "\n">>, <<"w">>}}}
             \cup {<<p[1]>> \o e : p \in Operators1, e \in {<<>>, <<"\n">>, <<"w", "\n">>}}
      texts == {<<"k">>, <<"u", "w">>, <<"w", "u", "1">>, <<"$", "u">>, <<"#">>, <<"w", ")">>,
                <<"w", "/", "*", "\n", "*", "/", "w">>, <<"/", "*", "/", "\n", "w">>,
                <<"/", "*", "*", "/">>, <<"{", "\n", "w", "}">>, <<"k", "k", "-", "1">>}
  IN {Ending} \cup {Ending \o <<"\n">> \o a \o b \o c \o d : a \in two, b \in two, c \in two,
                                                d \in MCLines(0 .. 1, {Ending})}
     \cup {Ending \o <<"\n">> \o a \o b \o c : a \in other, b \in other,
                                                c \in {<<>>, Ending, <<"w", "\n">>}}
     \cup {<<"w", " ">> \o o : o \in ops}
     \cup {<<"w", "\n", " ">> \o t \o e : t \in texts, e \in {<<>>, <<"\n">>, <<"\n", "w">>}}

Symmetry == Permutations(Val) \cup Permutations(Proc)

Start == /\ part \in {"map", "lists", "order", "tree", "scanner", "ops"}
         /\ Init /\ ListInit
         /\ IF part = "order" THEN OrderInit ELSE OrderInit /\ junk = 0
         /\ TreeInit
         /\ ScannerInit
         /\ OpsInit
         /\ part # "scanner" => body = <<"w">>

Step ==
  /\ UNCHANGED part
  /\ \/ /\ part = "map" /\ Next
        /\ UNCHANGED <<listVars, orderVars, treeVars, scanVars, asked>>
     \/ /\ part = "lists" /\ ListNext
        /\ UNCHANGED <<vars, orderVars, treeVars, scanVars, asked>>
     \/ /\ part = "order" /\ OrderNext
        /\ UNCHANGED <<vars, listVars, treeVars, scanVars, asked>>
     \/ /\ part = "tree" /\ TreeNext
        /\ UNCHANGED <<vars, listVars, orderVars, scanVars, asked>>
     \/ /\ part = "scanner" /\ ScannerNext
        /\ UNCHANGED <<vars, listVars, orderVars, treeVars, asked>>
     \/ /\ part = "ops" /\ Ask
        /\ UNCHANGED <<vars, listVars, orderVars, treeVars, scanVars>>

PartsSpec == Start /\ [][Step]_<<part, vars, listVars, orderVars, treeVars, scanVars, asked>>
=============================================================================
