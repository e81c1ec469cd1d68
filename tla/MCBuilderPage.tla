--------------------------- MODULE MCBuilderPage ---------------------------
(***************************************************************************)
(* Instances of BuilderPage for TLC: two rows whose builds last, with a    *)
(* lost call; one build, with a lost call; and one disk that is built      *)
(* twice, so that a Cancel of its first build may be reported in the       *)
(* second.                                                                 *)
(***************************************************************************)
EXTENDS BuilderPage

CONSTANTS First, Second

MCDisks == {First, Second}
Only(n) == [d \in MCDisks |-> IF d = First THEN n ELSE 0]

TwoRows ==
  [running |-> MCDisks, lasting |-> MCDisks, runs |-> [d \in MCDisks |-> 1],
   late |-> Only(0), faults |-> 1]
OneBuild ==
  [running |-> {}, lasting |-> {}, runs |-> Only(1), late |-> Only(1), faults |-> 1]
TwoBuilds ==
  [running |-> {First}, lasting |-> {}, runs |-> Only(2), late |-> Only(1), faults |-> 0]

MCBounds == {TwoRows, OneBuild, TwoBuilds}
=============================================================================
