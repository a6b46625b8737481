----------------------------- MODULE MCSuiteRun -----------------------------
(* Instances of SuiteRun for TLC. *)
EXTENDS SuiteRun

Simple(x) == [complex |-> FALSE, units |-> 0, excluded |-> x]
Complex(n, x) == [complex |-> TRUE, units |-> n, excluded |-> x]

(* No case at all, each kind alone and in both orders, a case left out by   *)
(* -s, and complex cases of none, one and three subunits.                   *)
SmallSuites ==
  {<<>>, <<Simple(FALSE), Complex(3, FALSE)>>, <<Complex(2, FALSE), Simple(TRUE)>>,
   <<Complex(0, FALSE), Simple(FALSE), Complex(1, FALSE)>>,
   <<Simple(TRUE), Simple(FALSE)>>}

ComplexLeftOut == {<<Simple(FALSE), Complex(2, TRUE)>>}

AllVerdicts == {"PASS", "SKIP", "FAIL"}
=============================================================================
