------------------------------ MODULE CaseLife ------------------------------
(***************************************************************************)
(* What the run loop is promised of _gtu_test_case_run(), whatever bodies   *)
(* and messages do meanwhile: cases are run one at a time, each once; each  *)
(* gets one verdict, and is disposed of after that and before the next one. *)
(* Only the end of the process interferes.                                  *)
(***************************************************************************)
CONSTANTS Cases, NoCase

VARIABLES
  running,  \* the case that is being run
  verdict,  \* what each case came to
  gone,     \* the cases that have been disposed of
  over      \* the process has ended

vars == <<running, verdict, gone, over>>

Init ==
  /\ running = NoCase
  /\ verdict = [c \in Cases |-> "INVALID"]
  /\ gone = {}
  /\ over = FALSE

Begin(c) ==
  /\ ~over
  /\ running = NoCase
  /\ verdict[c] = "INVALID"
  /\ running' = c
  /\ UNCHANGED <<verdict, gone, over>>

Decide(c) ==
  /\ ~over
  /\ running = c
  /\ verdict[c] = "INVALID"
  /\ \E v \in {"PASS", "SKIP", "FAIL"} : verdict' = [verdict EXCEPT ![c] = v]
  /\ UNCHANGED <<running, gone, over>>

Finish(c) ==
  /\ ~over
  /\ running = c
  /\ verdict[c] # "INVALID"
  /\ gone' = gone \cup {c}
  /\ running' = NoCase
  /\ UNCHANGED <<verdict, over>>

End ==
  /\ ~over
  /\ over' = TRUE
  /\ UNCHANGED <<running, verdict, gone>>

Next == End \/ \E c \in Cases : Begin(c) \/ Decide(c) \/ Finish(c)

Spec == Init /\ [][Next]_vars
=============================================================================
