----------------------------- MODULE MCRunQueue -----------------------------
(* Model checking of RunQueue: tasks and processors are interchangeable,    *)
(* and states that differ in locals nobody reads again are one state.       *)
EXTENDS RunQueue, TLC

Symmetry == Permutations(P) \cup Permutations(T)

Grabbing == {"grabhead", "grabtail", "copy", "grabcas", "grabnext", "grabnextcas"}

\* The locals of p that its code still reads before it writes them.
LiveLocals(p) ==
  <<tp[p],
    IF pc[p] \in {"casnext", "getnextcas", "grabnextcas"} THEN old[p] ELSE NULL,
    IF pc[p] \in Grabbing THEN <<victim[p], last[p]>> ELSE <<>>,
    IF pc[p] \in {"put", "getheadcas", "grabtail", "copy", "grabcas"} THEN h[p] ELSE 0,
    IF pc[p] \in {"copy", "grabcas", "stolen"} THEN n[p] ELSE 0,
    IF pc[p] = "copy" THEN k[p] ELSE 0>>

LiveObserver(m) ==
  CASE opc[m] \in {"idle", "nonempty"} -> <<>>
    [] opc[m] = "empty" -> <<empty[m]>>
    [] opc[m] = "tail" -> <<ov[m], oh[m], empty[m]>>
    [] opc[m] = "next" -> <<ov[m], oh[m], ot[m], empty[m]>>
    [] opc[m] = "check" -> <<ov[m], oh[m], ot[m], on[m], empty[m]>>

View == <<queueVars, taskVars, pc, [p \in P |-> LiveLocals(p)],
          opc, [m \in Observer |-> LiveObserver(m)]>>
=============================================================================
