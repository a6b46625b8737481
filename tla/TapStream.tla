------------------------------ MODULE TapStream ------------------------------
(***************************************************************************)
(* What the harness is promised of a test program: a stream with one plan,  *)
(* or the plan given up for good; results, which come after one or the      *)
(* other; "Bail out!" at most once, and nothing after it; and an end, which *)
(* is no success before it is known what has become of the plan.            *)
(***************************************************************************)
EXTENDS Naturals, Sequences

VARIABLES plan,      \* the plans written: none or one
          givenUp,   \* there will be no plan
          results,   \* how many result lines there are
          bailedOut, \* "Bail out!" was written
          end        \* "open", "success" or "failure"

vars == <<plan, givenUp, results, bailedOut, end>>

(* A program that only lists its tests has given up its plan from the start. *)
Init ==
  /\ plan = <<>> /\ givenUp \in BOOLEAN
  /\ results = 0
  /\ bailedOut = FALSE
  /\ end = "open"

Settled == plan # <<>> \/ givenUp
Listening == end = "open" /\ ~bailedOut

Plan ==
  /\ Listening /\ ~Settled
  /\ plan' \in Seq(Nat) /\ Len(plan') = 1
  /\ UNCHANGED <<givenUp, results, bailedOut, end>>

GiveUp ==
  /\ Listening /\ ~Settled
  /\ givenUp' = TRUE
  /\ UNCHANGED <<plan, results, bailedOut, end>>

Result ==
  /\ Listening /\ Settled
  /\ results' = results + 1
  /\ UNCHANGED <<plan, givenUp, bailedOut, end>>

BailOut ==
  /\ Listening /\ Settled
  /\ bailedOut' = TRUE
  /\ UNCHANGED <<plan, givenUp, results, end>>

End ==
  /\ end = "open"
  /\ \/ end' = "success" /\ Settled
     \/ end' = "failure"
  /\ UNCHANGED <<plan, givenUp, results, bailedOut>>

Next == Plan \/ GiveUp \/ Result \/ BailOut \/ End

Spec == Init /\ [][Next]_vars
=============================================================================
