-------------------------- MODULE SuiteRun_proofs --------------------------
(***************************************************************************)
(* Theorems about SuiteRun, for any suites, workers and verdicts.           *)
(***************************************************************************)
EXTENDS SuiteRun, SequenceTheorems, FiniteSetTheorems, TLAPS

(* The places of run_test() with a case under way. *)
InTest == {"body", "dispose", "units", "number", "print"}

(* How a thread means to leave is settled before it gets on its way, and    *)
(* the plan is settled before anything is made of that.                     *)
EndOK ==
  /\ pc[Main] # "user"
  /\ \A t \in Workers : /\ pc[t] \in EndPlace \cup {"user", "finding", "stuck"}
                        /\ leaving[t].how # "exit"
  /\ \A t \in Threads :
       /\ pc[t] \notin EndPlace => leaving[t].how = "stay"
       /\ pc[t] \in EndPlace => leaving[t].how # "stay"
       /\ pc[t] \in {"bail", "bailing", "abort"} => leaving[t].how \in {"bail", "trap"}
       /\ pc[t] \in {"bailing", "abort"} => once = "done"
       /\ pc[t] \in {"exiting", "atexit"} =>
            leaving[t].how = "exit" \/ (leaving[t].how = "bail" /\ once = "done")
       /\ pc[t] = "exit" => once = "done" \/ leaving[t].how = "refuse"
       /\ leaving[t].how = "refuse" => leaving[t].status = 1
  /\ bail # "none" => stdout # Free /\ once = "done"
  /\ proc = "exited" /\ status = 0 => once = "done"

(* The plan. *)
PlanOK ==
  /\ pc[Main] = "planning" <=> once = "busy"
  /\ once # "done" => plans = <<>>
  /\ Len(plans) <= 1
  /\ once = "done" /\ plans = <<>> => listOnly \/ Quitting
  /\ listOnly => once = "done" /\ plans = <<>>
  /\ pc[Main] \in {"next"} \cup InTest => once = "done"
  /\ pc[Main] \in InTest \/ outer # NoRun \/ Written > 0 => once = "done" /\ ~listOnly
  /\ proc = "exited" => once = "done" \/ Quitting

(* The run that waits for another one.  Within a body the other one gets as *)
(* far as the first body it would execute.                                  *)
WaitingOK ==
  outer # NoRun =>
    /\ outer.ix \in 1..Len(tests)
    /\ outer.back = "dispose" => outer.ix \in done /\ outer.unit = 0
    /\ outer.back = "body" =>
         /\ outer.ix \notin done
         /\ outer.unit = 0 => ~tests[outer.ix].complex
         /\ outer.unit > 0 => /\ tests[outer.ix].complex
                              /\ outer.unit <= tests[outer.ix].units
                              /\ outer.verdict # "FAIL"
         /\ pc[Main] \notin {"body", "dispose"}
         /\ pc[Main] = "units" => unit = 1
         /\ pc[Main] \in {"number", "print"} => unit = 0

(* The run that is going on. *)
RunOK ==
  /\ pc[Main] \in InTest => ix <= Len(tests)
  /\ pc[Main] \in {"body", "units"} => ix \notin done
  /\ pc[Main] \in {"number", "print"} /\ unit > 0 => ix \notin done
  /\ pc[Main] = "dispose" => ix \in done /\ unit = 0
  /\ pc[Main] \in {"program", "plan", "planning", "next"} => unit = 0 /\ verdict = "INVALID"
  /\ pc[Main] = "units" => unit > 0 /\ tests[ix].complex
  /\ pc[Main] = "units" /\ unit = 1 => verdict = "INVALID"
  /\ pc[Main] \in {"body", "number", "print"} /\ unit > 0 =>
       tests[ix].complex /\ unit <= tests[ix].units
  /\ pc[Main] = "body" /\ unit = 0 => ~tests[ix].complex
  /\ pc[Main] = "body" /\ unit > 0 => verdict # "FAIL"

(* The inductive invariant. *)
IInv == TypeOK /\ EndOK /\ PlanOK /\ RunOK /\ WaitingOK

(* A suite has a number of lines, and a plan announces it. *)
LEMMA LinesFinite ==
  ASSUME NEW suite \in Seq(Test)
  PROVE  IsFiniteSet(UNION {LinesOf(suite, i) : i \in DOMAIN suite})
<1> DEFINE D == 1..Len(suite)
           f == [i \in D |-> LinesOf(suite, i)]
           L == {LinesOf(suite, i) : i \in D}
<1>0. DOMAIN suite = D /\ Len(suite) \in Nat
  BY LenProperties
<1>1. \A i \in D : Lines(suite[i]) \in Nat
  <2>1. \A i \in D : suite[i] \in Test
    BY ElementOfSeq
  <2> QED
    BY <2>1 DEF Lines, Test
<1>2. ASSUME NEW i \in D
      PROVE  IsFiniteSet(LinesOf(suite, i))
  <2>1. IsFiniteSet({i})
    BY FS_Singleton
  <2>2. IsFiniteSet(1..Lines(suite[i]))
    BY <1>1, FS_Interval
  <2>3. IsFiniteSet({i} \X (1..Lines(suite[i])))
    BY <2>1, <2>2, FS_Product
  <2> QED
    BY <2>3 DEF LinesOf
<1>3. IsFiniteSet(D)
  BY <1>0, FS_Interval
<1>4. f \in Surjection(D, L)
  <2>1. f \in [D -> L] /\ \A l \in L : \E i \in D : f[i] = l
    OBVIOUS
  <2> QED
    BY <2>1 DEF Surjection
<1>5. IsFiniteSet(L)
  <2> HIDE DEF f, L
  <2> QED
    BY <1>3, <1>4, FS_Surjection
<1>6. \A l \in L : IsFiniteSet(l)
  BY <1>2
<1>7. IsFiniteSet(UNION L)
  <2> HIDE DEF L
  <2> QED
    BY <1>5, <1>6, FS_UNION
<1> QED
  BY <1>0, <1>7

LEMMA PlanSizeType ==
  ASSUME NEW suite \in Seq(Test)
  PROVE  PlanSize(suite) \in Nat
BY LinesFinite, FS_CardinalityType DEF PlanSize

Place == StartPlace \cup MainPlace \cup EndPlace \cup {"user", "stuck"}
Departure == [how: {"stay", "exit", "bail", "trap", "refuse"}, status: Nat]

(* A thread that moves, or goes for exit(), stays within the types. *)
LEMMA MoveTypes ==
  ASSUME TypeOK, NEW t \in Threads
  PROVE  /\ \A p \in Place : Goto(t, p) => pc' \in [Threads -> Place]
         /\ \A d \in Departure : leaving' = [leaving EXCEPT ![t] = d]
                                  => leaving' \in [Threads -> Departure]
         /\ \A code \in Nat : CallExit(t, code) =>
              /\ pc' \in [Threads -> Place]
              /\ leaving' \in [Threads -> Departure]
<1>1. pc \in [Threads -> Place] /\ leaving \in [Threads -> Departure]
  BY DEF TypeOK, Place, Departure
<1>2. \A p \in Place : Goto(t, p) => pc' \in [Threads -> Place]
  BY <1>1 DEF Goto
<1>3. \A d \in Departure : leaving' = [leaving EXCEPT ![t] = d]
                           => leaving' \in [Threads -> Departure]
  BY <1>1
<1>4. \A code \in Nat : [how |-> "exit", status |-> code] \in Departure
  BY DEF Departure
<1>5. "exiting" \in Place
  BY DEF Place, EndPlace
<1> QED
  BY <1>2, <1>3, <1>4, <1>5 DEF CallExit

(* The status a parent gets. *)
LEMMA StatusType ==
  ASSUME NEW n \in Nat
  PROVE  ExitStatus(n) \in 0..255
BY DEF ExitStatus

(* A line that is written. *)
LEMMA LineType ==
  ASSUME TypeOK, WriteLine
  PROVE  lines' \in [ok: Nat, notOk: Nat]
<1>0. lines \in [ok: Nat, notOk: Nat]
  BY DEF TypeOK
<1>1. /\ [lines EXCEPT !.notOk = @ + 1] \in [ok: Nat, notOk: Nat]
      /\ [lines EXCEPT !.ok = @ + 1] \in [ok: Nat, notOk: Nat]
  BY <1>0
<1> QED
  BY <1>1 DEF WriteLine

(* The parts of the state that most steps leave alone. *)
LEMMA TypeStep ==
  ASSUME TypeOK, RunOK, WaitingOK, Next
  PROVE  TypeOK'
<1> USE DEF TypeOK, inputVars, loopVars, nestVars, sharedVars, procVars, output,
            At, Goto
<1>0. /\ Main \in Threads /\ Workers \subseteq Threads
      /\ tests \in Seq(Test) /\ Len(tests) \in Nat
      /\ DOMAIN tests = 1..Len(tests)
  BY SuiteAssumption, LenProperties DEF Threads
<1>1. CASE CallRun
  BY ZenonT(60), <1>1 DEF CallRun, MainPlace
<1>2. CASE EnterPlan
  BY ZenonT(60), <1>2 DEF EnterPlan, MainPlace
<1>3. CASE PrintPlan
  <2>1. PlanSize(tests) \in Nat
    BY <1>0, PlanSizeType
  <2>2. plans' \in Seq(Nat)
    BY <1>3, <2>1, AppendProperties DEF PrintPlan
  <2> QED
    <3>1. CASE PlanSize(tests) = 0
      <4>1. CallExit(Main, 0)
        BY <1>3, <3>1 DEF PrintPlan
      <4>2. pc' \in [Threads -> Place] /\ leaving' \in [Threads -> Departure]
        BY <1>0, <4>1, MoveTypes
      <4> QED
        BY <1>0, <1>3, <2>2, <4>2 DEF PrintPlan, Place, Departure
    <3>2. CASE PlanSize(tests) # 0
      BY <1>0, <1>3, <2>2, <3>2 DEF PrintPlan, MainPlace
    <3> QED
      BY <3>1, <3>2
<1>4. CASE PassTest
  BY <1>0, <1>4 DEF PassTest, AtTest
<1>5. CASE ListPath
  BY <1>0, <1>5 DEF ListPath, AtTest
<1>6. CASE RunTest
  <2>1. pc' \in [Threads -> Place]
    BY <1>0, <1>6 DEF RunTest, ExecInner, Place, MainPlace
  <2>2. proc' \in {proc, "aborted"} /\ unit' \in Nat /\ verdict' \in Verdict
    BY <1>6 DEF RunTest, ExecInner, Verdict
  <2> QED
    BY <1>0, <1>6, <2>1, <2>2 DEF RunTest, Place
<1>7. CASE NextUnit
  BY ZenonT(60), <1>0, <1>7 DEF NextUnit, ExecInner, MainPlace
<1>8. CASE Body
  <2>1. ix \in 1..Len(tests)
    BY <1>0, <1>8 DEF Body, RunOK, InTest
  <2>2. verdict' \in Verdict
    BY <1>8, SuiteAssumption DEF Body, Verdict
  <2>3. pc' \in [Threads -> Place]
    BY <1>0, <1>8, MoveTypes DEF Body, Place, MainPlace
  <2>4. done' \subseteq 1..Len(tests)
    BY <1>8, <2>1 DEF Body
  <2> QED
    BY <1>0, <1>8, <2>2, <2>3, <2>4 DEF Body, Place
<1>9. CASE Dispose
  BY <1>0, <1>9 DEF Dispose, MainPlace
<1>10. CASE AfterUnits
  <2>1. ix \in 1..Len(tests)
    BY <1>0, <1>10 DEF AfterUnits, RunOK, InTest
  <2>2. verdict' \in Verdict
    BY <1>10 DEF AfterUnits, Summary, Verdict
  <2>3. pc' \in [Threads -> Place]
    BY <1>0, <1>10, MoveTypes DEF AfterUnits, Place, MainPlace
  <2> QED
    BY <1>0, <1>10, <2>1, <2>2, <2>3 DEF AfterUnits, Place
<1>11. CASE NumberResult
  BY <1>0, <1>11 DEF NumberResult, MainPlace
<1>12. CASE PrintUnit
  <2>1. lines' \in [ok: Nat, notOk: Nat]
    BY <1>12, LineType DEF PrintUnit
  <2> QED
    BY <1>0, <1>12, <2>1 DEF PrintUnit, MainPlace
<1>13. CASE PrintResult
  <2>1. lines' \in [ok: Nat, notOk: Nat]
    BY <1>13, LineType DEF PrintResult
  <2>2. ix \in 1..Len(tests)
    BY <1>0, <1>13 DEF PrintResult, RunOK, InTest
  <2>3. pc' \in [Threads -> Place]
    BY <1>0, <1>13, MoveTypes DEF PrintResult, Place, MainPlace
  <2> QED
    BY SMTT(60), <1>0, <1>13, <2>1, <2>2, <2>3 DEF PrintResult, Place, Verdict
<1>14. CASE ReturnFromRun
  <2>1. CASE outer = NoRun
    <3>1. CallExit(Main, nFailed)
      BY <1>14, <2>1 DEF ReturnFromRun
    <3>2. pc' \in [Threads -> Place] /\ leaving' \in [Threads -> Departure]
      BY <1>0, <3>1, MoveTypes
    <3> QED
      BY <1>0, <1>14, <2>1, <3>2 DEF ReturnFromRun, Place, Departure
  <2>2. CASE outer # NoRun
    <3>1. outer \in WaitingRun /\ outer.ix \in 1..Len(tests)
      BY <2>2 DEF WaitingOK
    <3>2. pc' \in [Threads -> Place]
      BY <1>0, <1>14, <2>2, <3>1, MoveTypes DEF ReturnFromRun, WaitingRun, Place, MainPlace
    <3> QED
      BY <1>0, <1>14, <2>2, <3>1, <3>2 DEF ReturnFromRun, WaitingRun, Place
  <2> QED
    BY <2>1, <2>2
<1>15. CASE EndProgram
  <2>1. pc' \in [Threads -> Place] /\ leaving' \in [Threads -> Departure]
    BY <1>0, <1>15, MoveTypes DEF EndProgram
  <2> QED
    BY <1>0, <1>15, <2>1 DEF EndProgram, Place, Departure
<1>16. CASE CallRunWithin
  BY <1>0, <1>16 DEF CallRunWithin, InUserCode, WaitingRun, MainPlace, Verdict
<1>17. CASE RefuseRun
  BY SMTT(60), <1>0, <1>17 DEF RefuseRun, EndPlace
<1>18. CASE AssertOutside
  BY <1>0, <1>18 DEF AssertOutside
<1>19. ASSUME NEW t \in Threads, BailOut(t)
       PROVE  TypeOK'
  BY <1>0, <1>19 DEF BailOut, EndPlace
<1>20. ASSUME NEW t \in Threads, EndStep(t)
       PROVE  TypeOK'
  <2>1. CASE DisablePlan(t)
    BY <1>0, <2>1 DEF DisablePlan, EndPlace
  <2>2. CASE SayBailOut(t)
    BY <1>0, <2>2 DEF SayBailOut, EndPlace
  <2>3. CASE Abort(t)
    BY <1>0, <2>3 DEF Abort
  <2>4. CASE UserAtexit(t)
    BY <1>0, <2>4 DEF UserAtexit, EndPlace
  <2>5. CASE LogEmptyPlan(t)
    <3>1. plans' \in Seq(Nat)
      <4>1. Append(plans, 0) \in Seq(Nat)
        BY AppendProperties
      <4> QED
        BY <2>5, <4>1 DEF LogEmptyPlan
    <3>2. leaving' \in [Threads -> Departure]
      <4>1. [leaving[t] EXCEPT !.status = 0] \in Departure
        BY ZenonT(60), <1>20 DEF Departure
      <4>2. \/ leaving' = leaving
            \/ leaving' = [leaving EXCEPT ![t] = [leaving[t] EXCEPT !.status = 0]]
        BY <2>5 DEF LogEmptyPlan
      <4> QED
        BY <1>20, <4>1, <4>2 DEF Departure
    <3>3. pc' \in [Threads -> Place]
      BY <1>20, <2>5, MoveTypes DEF LogEmptyPlan, Place, EndPlace
    <3> QED
      BY ZenonT(60), <1>0, <2>5, <3>1, <3>2, <3>3 DEF LogEmptyPlan, Place, Departure
  <2>6. CASE Exit(t)
    <3>1. leaving[t].status % 256 \in 0..255
      <4>1. leaving[t].status \in Nat
        BY <1>20
      <4> QED
        BY <4>1, StatusType DEF ExitStatus
    <3> QED
      BY <1>0, <2>6, <3>1 DEF Exit, ExitStatus
  <2> QED
    BY <1>20, <2>1, <2>2, <2>3, <2>4, <2>5, <2>6 DEF EndStep
<1>21. CASE Stop
  BY <1>21 DEF Stop, vars
<1> QED
  BY <1>1, <1>2, <1>3, <1>4, <1>5, <1>6, <1>7, <1>8, <1>9, <1>10, <1>11, <1>12,
     <1>13, <1>14, <1>15, <1>16, <1>17, <1>18, <1>19, <1>20, <1>21
     DEF Next, RunStep

-----------------------------------------------------------------------------
(* The end of the process.                                                  *)

(* The main thread goes about its run. *)
LEMMA EndWhileRunning ==
  ASSUME TypeOK, EndOK, proc = "running", pc[Main] \notin EndPlace,
         Goto(Main, pc'[Main]) \/ pc' = pc, pc'[Main] \notin EndPlace \cup {"user"},
         UNCHANGED <<leaving, stdout, bail, status>>,
         proc' \in {"running", "aborted"},
         once = "done" => once' = "done"
  PROVE  EndOK'
<1>1. Main \notin Workers /\ Main \in Threads /\ Workers \subseteq Threads
  BY SuiteAssumption DEF Threads
<1>2. \A t \in Workers : pc'[t] = pc[t]
  BY <1>1 DEF TypeOK, Goto
<1>3. \A t \in Threads : t = Main \/ pc'[t] = pc[t]
  BY <1>2 DEF Threads
<1> QED
  BY <1>1, <1>2, <1>3 DEF EndOK, EndPlace

(* A thread that has been about its work goes for exit() or bails out. *)
LEMMA EndBegins ==
  ASSUME TypeOK, EndOK, proc = "running", NEW t \in Threads,
         NEW how \in {"exit", "bail", "trap"}, NEW code \in Nat,
         NEW place \in {"bail", "exiting"},
         pc[t] \notin EndPlace,
         Goto(t, place), how = "exit" <=> place = "exiting", how = "exit" => t = Main,
         leaving' = [leaving EXCEPT ![t] = [how |-> how, status |-> code]],
         UNCHANGED <<stdout, bail, status, proc>>,
         once = "done" => once' = "done"
  PROVE  EndOK'
<1>1. Main \notin Workers /\ Main \in Threads /\ Workers \subseteq Threads
  BY SuiteAssumption DEF Threads
<1>2. /\ pc'[t] = place /\ leaving'[t].how = how
      /\ \A u \in Threads \ {t} : pc'[u] = pc[u] /\ leaving'[u] = leaving[u]
  BY DEF TypeOK, Goto
<1> QED
  BY <1>1, <1>2 DEF EndOK, EndPlace

(* A thread on its way out takes a step. *)
LEMMA EndContinues ==
  ASSUME TypeOK, EndOK, NEW t \in Threads, EndStep(t)
  PROVE  EndOK'
<1> USE DEF inputVars, loopVars, nestVars, sharedVars, procVars, output, At
<1>0. /\ Main \notin Workers /\ Main \in Threads /\ Workers \subseteq Threads
      /\ Free \notin Threads
  BY SuiteAssumption DEF Threads
<1>1. \A p : Goto(t, p) => /\ pc'[t] = p
                           /\ \A u \in Threads \ {t} : pc'[u] = pc[u]
  BY DEF TypeOK, Goto
<1>2. CASE DisablePlan(t)
  BY <1>0, <1>1, <1>2 DEF DisablePlan, EndOK, EndPlace
<1>3. CASE SayBailOut(t)
  BY <1>0, <1>1, <1>3 DEF SayBailOut, EndOK, EndPlace
<1>4. CASE Abort(t)
  BY <1>4 DEF Abort, EndOK
<1>5. CASE UserAtexit(t)
  BY <1>0, <1>1, <1>5 DEF UserAtexit, EndOK, EndPlace
<1>6. CASE LogEmptyPlan(t)
  <2> DEFINE new == [leaving[t] EXCEPT !.status = 0]
  <2>1. leaving \in [Threads -> Departure]
    BY DEF TypeOK, Departure
  <2>2. new.how = leaving[t].how
    BY <2>1 DEF Departure
  <2>3. leaving' = leaving \/ leaving' = [leaving EXCEPT ![t] = new]
    BY <1>6 DEF LogEmptyPlan
  <2> HIDE DEF new
  <2>4. /\ leaving'[t].how = leaving[t].how
        /\ \A u \in Threads \ {t} : leaving'[u] = leaving[u]
    BY <2>1, <2>2, <2>3
  <2>5. pc[t] = "atexit" /\ pc'[t] = "exit"
    BY <1>1, <1>6 DEF LogEmptyPlan
  <2> QED
    BY <1>0, <1>1, <1>6, <2>4, <2>5 DEF LogEmptyPlan, EndOK, EndPlace
<1>7. CASE Exit(t)
  <2>1. leaving[t].how = "refuse" => status' # 0
    BY <1>7 DEF Exit, EndOK, ExitStatus
  <2> QED
    BY <1>7, <2>1 DEF Exit, EndOK
<1> QED
  BY <1>2, <1>3, <1>4, <1>5, <1>6, <1>7 DEF EndStep

LEMMA GotoMain ==
  ASSUME TypeOK, NEW place, Goto(Main, place)
  PROVE  pc'[Main] = place /\ Goto(Main, pc'[Main])
BY DEF TypeOK, Goto, Threads

(* A step of the run that does not begin its end. *)
LEMMA EndRun ==
  ASSUME IInv, RunStep, UNCHANGED leaving
  PROVE  EndOK'
<1> USE DEF IInv, inputVars, loopVars, nestVars, sharedVars, procVars, output, At
<1>0. leaving[Main].how = "stay" /\ leaving \in [Threads -> Departure] /\ Main \in Threads
  <2>1. pc[Main] \notin EndPlace
    BY DEF RunStep, CallRun, EnterPlan, PrintPlan, PassTest, ListPath, RunTest, AtTest,
           NextUnit, Body, Dispose, AfterUnits, NumberResult, PrintUnit, PrintResult,
           ReturnFromRun, EndPlace
  <2> QED
    BY <2>1 DEF EndOK, TypeOK, Departure, Threads
<1>1. \A code : ~CallExit(Main, code)
  BY <1>0 DEF CallExit
<1>2. CASE CallRun
  BY <1>2, GotoMain, EndWhileRunning DEF CallRun, EndPlace
<1>3. CASE EnterPlan
  BY <1>3, GotoMain, EndWhileRunning DEF EnterPlan, EndPlace
<1>4. CASE PrintPlan
  BY <1>1, <1>4, GotoMain, EndWhileRunning DEF PrintPlan, EndPlace
<1>5. CASE PassTest \/ ListPath
  BY <1>5, EndWhileRunning DEF PassTest, ListPath, AtTest, EndPlace
<1>6. CASE RunTest
  BY <1>6, GotoMain, EndWhileRunning DEF RunTest, AtTest, ExecInner, EndPlace
<1>7. CASE NextUnit
  BY <1>7, GotoMain, EndWhileRunning DEF NextUnit, ExecInner, EndPlace
<1>8. CASE Body \/ Dispose \/ AfterUnits
  BY <1>8, GotoMain, EndWhileRunning DEF Body, Dispose, AfterUnits, EndPlace
<1>9. CASE NumberResult \/ PrintUnit \/ PrintResult
  BY <1>9, GotoMain, EndWhileRunning DEF NumberResult, PrintUnit, PrintResult, EndPlace
<1>10. CASE ReturnFromRun
  <2>1. outer # NoRun /\ Goto(Main, outer.back)
    BY <1>1, <1>10 DEF ReturnFromRun
  <2>2. outer.back \in {"body", "dispose"}
    BY <2>1 DEF TypeOK, WaitingRun
  <2> QED
    BY <1>10, <2>1, <2>2, GotoMain, EndWhileRunning DEF ReturnFromRun, EndPlace
<1> QED
  BY <1>2, <1>3, <1>4, <1>5, <1>6, <1>7, <1>8, <1>9, <1>10 DEF RunStep

LEMMA EndKept ==
  ASSUME IInv, Next
  PROVE  EndOK'
<1> USE DEF IInv, inputVars, loopVars, nestVars, sharedVars, procVars, output, At
<1>0. Main \in Threads /\ Main \notin Workers
  BY SuiteAssumption DEF Threads
<1>1. ASSUME NEW code \in Nat, CallExit(Main, code), pc[Main] \notin EndPlace,
             proc = "running", UNCHANGED <<stdout, bail, status, proc>>,
             once = "done" => once' = "done"
      PROVE  EndOK'
  <2>1. /\ Goto(Main, "exiting")
        /\ leaving' = [leaving EXCEPT ![Main] = [how |-> "exit", status |-> code]]
    BY <1>1 DEF CallExit
  <2> QED
    BY <1>0, <1>1, <2>1, EndBegins
<1>2. CASE RunStep
  <2>1. CASE UNCHANGED leaving
    BY <1>2, <2>1, EndRun
  <2>2. CASE ~UNCHANGED leaving
    <3>1. PrintPlan \/ ReturnFromRun
      BY <1>2, <2>2 DEF RunStep, CallRun, EnterPlan, PassTest, ListPath, RunTest, NextUnit,
         Body, Dispose, AfterUnits, NumberResult, PrintUnit, PrintResult
    <3>2. CASE PrintPlan
      BY <1>1, <2>2, <3>2 DEF PrintPlan, EndPlace
    <3>3. CASE ReturnFromRun
      BY <1>1, <2>2, <3>3 DEF ReturnFromRun, EndPlace, TypeOK
    <3> QED
      BY <3>1, <3>2, <3>3
  <2> QED
    BY <2>1, <2>2
<1>3. CASE EndProgram
  BY <1>1, <1>3 DEF EndProgram, EndPlace
<1>4. CASE CallRunWithin
  BY <1>4, GotoMain, EndWhileRunning DEF CallRunWithin, InUserCode, EndPlace
<1>5. CASE RefuseRun
  BY ZenonT(60), <1>0, <1>5, EndBegins DEF RefuseRun, InUserCode, EndPlace
<1>6. CASE AssertOutside
  BY <1>6, EndWhileRunning DEF AssertOutside, EndPlace, EndOK
<1>7. ASSUME NEW t \in Threads, BailOut(t)
      PROVE  EndOK'
  <2>1. pc[t] \notin EndPlace /\ proc = "running"
    BY <1>7 DEF BailOut, InUserCode, EndPlace
  <2>2. PICK how \in {"bail", "trap"} :
          leaving' = [leaving EXCEPT ![t] = [how |-> how, status |-> 99]]
    BY <1>7 DEF BailOut
  <2>3. Goto(t, "bail") /\ UNCHANGED <<stdout, bail, status, proc, once>>
    BY <1>7 DEF BailOut
  <2> QED
    BY <2>1, <2>2, <2>3, EndBegins
<1>8. ASSUME NEW t \in Threads, EndStep(t)
      PROVE  EndOK'
  BY <1>8, EndContinues
<1>9. CASE Stop
  BY <1>9 DEF Stop, vars, EndOK
<1> QED
  BY <1>2, <1>3, <1>4, <1>5, <1>6, <1>7, <1>8, <1>9 DEF Next

(* A thread that has set out to end the process before its time does not    *)
(* change its mind.                                                         *)
LEMMA QuittingKept ==
  ASSUME IInv, Next, Quitting
  PROVE  Quitting'
<1> USE DEF IInv, inputVars, sharedVars, At
<1>0. /\ Main \in Threads /\ Main \notin Workers
      /\ leaving \in [Threads -> Departure]
      /\ \A t \in Threads : pc[t] \notin EndPlace => leaving[t].how = "stay"
  BY SuiteAssumption DEF Threads, TypeOK, Departure, EndOK
<1>1. PICK q \in Threads : leaving[q].how \in {"bail", "trap", "refuse"}
  BY DEF Quitting
<1>2. SUFFICES leaving'[q].how \in {"bail", "trap", "refuse"}
  BY DEF Quitting
<1>3. ASSUME NEW code, CallExit(Main, code), pc[Main] \notin EndPlace
      PROVE  leaving'[q].how = leaving[q].how
  BY <1>0, <1>1, <1>3 DEF CallExit
<1>4. CASE UNCHANGED leaving
  BY <1>1, <1>4
<1>5. CASE PrintPlan \/ EndProgram \/ ReturnFromRun
  BY <1>1, <1>3, <1>4, <1>5 DEF PrintPlan, EndProgram, ReturnFromRun, EndPlace
<1>6. CASE RefuseRun
  BY <1>0, <1>1, <1>6 DEF RefuseRun
<1>7. ASSUME NEW t \in Threads, BailOut(t)
      PROVE  leaving'[q].how \in {"bail", "trap", "refuse"}
  BY <1>0, <1>1, <1>7 DEF BailOut
<1>8. ASSUME NEW t \in Threads, LogEmptyPlan(t)
      PROVE  leaving'[q].how = leaving[q].how
  <2> DEFINE new == [leaving[t] EXCEPT !.status = 0]
  <2>1. new.how = leaving[t].how
    BY <1>0 DEF Departure
  <2>2. leaving' = leaving \/ leaving' = [leaving EXCEPT ![t] = new]
    BY <1>8 DEF LogEmptyPlan
  <2> HIDE DEF new
  <2> QED
    BY <1>0, <2>1, <2>2
<1>9. \/ UNCHANGED leaving
      \/ PrintPlan \/ EndProgram \/ ReturnFromRun \/ RefuseRun
      \/ \E t \in Threads : BailOut(t) \/ LogEmptyPlan(t)
  <2>1. RunStep => UNCHANGED leaving \/ PrintPlan \/ ReturnFromRun
    BY DEF RunStep, CallRun, EnterPlan, PassTest, ListPath, RunTest, NextUnit,
           Body, Dispose, AfterUnits, NumberResult, PrintUnit, PrintResult
  <2>2. \A t \in Threads : EndStep(t) => UNCHANGED leaving \/ LogEmptyPlan(t)
    BY DEF EndStep, DisablePlan, SayBailOut, Abort, UserAtexit, Exit
  <2>3. CallRunWithin \/ AssertOutside \/ Stop => UNCHANGED leaving
    BY DEF CallRunWithin, AssertOutside, Stop, vars
  <2> QED
    BY <2>1, <2>2, <2>3 DEF Next
<1> QED
  BY <1>1, <1>4, <1>5, <1>6, <1>7, <1>8, <1>9

-----------------------------------------------------------------------------
(* The run.                                                                 *)

(* The main thread stops running cases, or another thread takes a step.     *)
LEMMA RunStops ==
  ASSUME TypeOK, RunOK, WaitingOK, NEW t \in Threads, NEW place \in EndPlace,
         Goto(t, place), UNCHANGED <<tests, ix, unit, verdict, done, outer>>
  PROVE  RunOK' /\ WaitingOK'
<1>1. CASE t = Main
  <2>1. pc'[Main] \in EndPlace
    BY <1>1 DEF TypeOK, Goto
  <2> QED
    BY <2>1 DEF RunOK, WaitingOK, InTest, EndPlace
<1>2. CASE t # Main
  <2>1. pc'[Main] = pc[Main]
    BY <1>2 DEF TypeOK, Goto, Threads
  <2> QED
    BY <2>1 DEF RunOK, WaitingOK, InTest
<1> QED
  BY <1>1, <1>2

(* A step of the run keeps what is known of the current case. *)
LEMMA CaseKept ==
  ASSUME IInv, RunStep
  PROVE  RunOK'
<1> USE DEF IInv, inputVars, loopVars, nestVars, At
<1>0. Main \in Threads /\ Len(tests) \in Nat /\ DOMAIN tests = 1..Len(tests)
  BY SuiteAssumption, LenProperties DEF Threads, TypeOK
<1>1. \A place : Goto(Main, place) => pc'[Main] = place
  BY GotoMain
<1>2. \A code : CallExit(Main, code) => pc'[Main] = "exiting"
  BY <1>1 DEF CallExit
<1>3. CASE CallRun \/ EnterPlan
  BY <1>1, <1>3 DEF CallRun, EnterPlan, RunOK, InTest
<1>4. CASE PrintPlan
  BY <1>1, <1>2, <1>4 DEF PrintPlan, RunOK, InTest
<1>5. CASE PassTest \/ ListPath
  BY <1>5 DEF PassTest, ListPath, AtTest, RunOK, InTest
<1>6. CASE RunTest
  <2>1. /\ ix <= Len(tests) /\ ix \notin done /\ unit = 0 /\ verdict = "INVALID"
        /\ UNCHANGED <<tests, ix, done>>
        /\ pc[Main] = "next"
    BY <1>6 DEF RunTest, AtTest, RunOK
  <2>2. \/ pc'[Main] = "number" /\ unit' = 0
        \/ pc'[Main] = "body" /\ unit' = 0 /\ ~tests[ix].complex
        \/ pc' = pc /\ unit' = 0 /\ verdict' = "INVALID"
        \/ pc'[Main] = "units" /\ unit' = 1 /\ verdict' = "INVALID" /\ tests[ix].complex
    BY <1>1, <1>6, <2>1 DEF RunTest, ExecInner, test
  <2> QED
    BY <2>1, <2>2 DEF RunOK, InTest
<1>7. CASE NextUnit
  <2>1. /\ pc[Main] = "units" /\ unit > 0 /\ unit <= tests[ix].units
        /\ UNCHANGED <<tests, ix, done, unit, verdict>>
    BY <1>7 DEF NextUnit, RunOK, test
  <2>2. \/ pc'[Main] = "number"
        \/ pc'[Main] = "body" /\ verdict # "FAIL"
        \/ pc' = pc
    BY <1>1, <1>7 DEF NextUnit, ExecInner
  <2> QED
    BY <2>1, <2>2 DEF RunOK, InTest, TypeOK
<1>8. CASE Body
  BY <1>1, <1>8 DEF Body, RunOK, InTest, TypeOK
<1>9. CASE Dispose
  BY <1>1, <1>9 DEF Dispose, RunOK, InTest
<1>10. CASE AfterUnits
  BY <1>1, <1>10 DEF AfterUnits, RunOK, InTest
<1>11. CASE NumberResult
  BY <1>1, <1>11 DEF NumberResult, RunOK, InTest
<1>12. CASE PrintUnit
  BY SMTT(60), <1>1, <1>12 DEF PrintUnit, RunOK, InTest, TypeOK
<1>13. CASE PrintResult
  BY <1>1, <1>13 DEF PrintResult, RunOK, InTest
<1>14. CASE ReturnFromRun
  <2>1. CASE outer = NoRun
    BY <1>2, <1>14, <2>1 DEF ReturnFromRun, RunOK, InTest
  <2>2. CASE outer # NoRun
    <3>1. outer \in WaitingRun
      BY <2>2 DEF TypeOK
    <3>2. /\ pc'[Main] = outer.back /\ UNCHANGED <<tests, done>>
          /\ ix' = outer.ix /\ unit' = outer.unit /\ verdict' = outer.verdict
      BY <1>1, <1>14, <2>2 DEF ReturnFromRun
    <3>3. outer.back \in {"body", "dispose"} /\ outer.ix \in Nat /\ outer.unit \in Nat
      BY <3>1 DEF WaitingRun
    <3> QED
      BY <1>0, <2>2, <3>2, <3>3 DEF RunOK, WaitingOK, InTest
  <2> QED
    BY <2>1, <2>2
<1> QED
  BY <1>3, <1>4, <1>5, <1>6, <1>7, <1>8, <1>9, <1>10, <1>11, <1>12, <1>13, <1>14
     DEF RunStep

(* And what is known of a run that waits. *)
LEMMA WaitingKept ==
  ASSUME IInv, RunStep
  PROVE  WaitingOK'
<1> USE DEF IInv, inputVars, loopVars, nestVars, At
<1>0. Main \in Threads /\ Len(tests) \in Nat /\ tests \in Seq(Test)
  BY SuiteAssumption, LenProperties DEF Threads, TypeOK
<1>1. \A place : Goto(Main, place) => pc'[Main] = place
  BY GotoMain
<1>2. \A code : CallExit(Main, code) => pc'[Main] = "exiting"
  BY <1>1 DEF CallExit
<1>3. CASE CallRun \/ EnterPlan
  BY <1>1, <1>3 DEF CallRun, EnterPlan, WaitingOK
<1>4. CASE PrintPlan
  BY <1>1, <1>2, <1>4 DEF PrintPlan, WaitingOK
<1>5. CASE PassTest \/ ListPath
  BY <1>5 DEF PassTest, ListPath, AtTest, WaitingOK
<1>6. CASE RunTest
  <2>1. UNCHANGED <<tests, done, outer>> /\ unit = 0 /\ pc[Main] = "next"
    BY <1>6 DEF RunTest, AtTest, RunOK
  <2>2. \/ pc'[Main] = "number" /\ unit' = 0
        \/ pc'[Main] = "body" /\ ~(outer # NoRun /\ outer.back = "body")
        \/ pc' = pc
        \/ pc'[Main] = "units" /\ unit' = 1
    BY <1>1, <1>6, <2>1 DEF RunTest, ExecInner
  <2> QED
    BY <2>1, <2>2 DEF WaitingOK
<1>7. CASE NextUnit
  <2>1. /\ UNCHANGED <<tests, done, outer, unit>> /\ pc[Main] = "units"
        /\ unit = 1 => verdict = "INVALID"
    BY <1>7 DEF NextUnit, RunOK
  <2>2. \/ pc'[Main] = "number" /\ verdict = "FAIL"
        \/ pc'[Main] = "body" /\ ~(outer # NoRun /\ outer.back = "body")
        \/ pc' = pc
    BY <1>1, <1>7 DEF NextUnit, ExecInner
  <2> QED
    BY <2>1, <2>2 DEF WaitingOK
<1>8. CASE Body
  <2>1. ix \notin done /\ (outer # NoRun => outer.back # "body")
    BY <1>8 DEF Body, RunOK, WaitingOK
  <2>2. done \subseteq done' /\ UNCHANGED <<tests, outer>>
    BY <1>8 DEF Body
  <2> QED
    BY <2>1, <2>2 DEF WaitingOK
<1>9. CASE Dispose
  BY <1>1, <1>9 DEF Dispose, WaitingOK
<1>10. CASE AfterUnits
  <2>1. /\ ix \notin done /\ tests[ix].complex /\ unit > tests[ix].units
        /\ pc[Main] = "units"
    BY <1>10 DEF AfterUnits, RunOK, test
  <2>2. /\ done' = done \cup {ix} /\ unit' = 0 /\ pc'[Main] = "number"
        /\ UNCHANGED <<tests, outer>>
    BY <1>1, <1>10 DEF AfterUnits
  <2>3. CASE outer # NoRun /\ outer.back = "body" /\ outer.ix = ix
    <3>1. unit = 1 /\ outer.unit \in Nat /\ outer.unit > 0 /\ outer.unit <= tests[ix].units
      <4>1. outer \in WaitingRun
        BY <2>3 DEF TypeOK
      <4>2. outer.unit \in Nat
        BY <4>1 DEF WaitingRun
      <4> QED
        BY <2>1, <2>3, <4>2 DEF WaitingOK
    <3>2. tests[ix].units \in Nat
      <4>1. ix \in 1..Len(tests)
        BY <2>1 DEF RunOK, InTest, TypeOK
      <4>2. tests[ix] \in Test
        BY <1>0, <4>1, ElementOfSeq
      <4> QED
        BY <4>2 DEF Test
    <3> QED
      BY <2>1, <3>1, <3>2
  <2> QED
    BY <2>1, <2>2, <2>3 DEF WaitingOK
<1>11. CASE NumberResult
  BY <1>1, <1>11 DEF NumberResult, WaitingOK
<1>12. CASE PrintUnit
  <2>1. outer = NoRun \/ outer.back # "body"
    BY <1>12 DEF PrintUnit, WaitingOK
  <2> QED
    BY <1>12, <2>1 DEF PrintUnit, WaitingOK
<1>13. CASE PrintResult
  BY <1>1, <1>13 DEF PrintResult, WaitingOK
<1>14. CASE ReturnFromRun
  BY <1>2, <1>14 DEF ReturnFromRun, WaitingOK
<1> QED
  BY <1>3, <1>4, <1>5, <1>6, <1>7, <1>8, <1>9, <1>10, <1>11, <1>12, <1>13, <1>14
     DEF RunStep

LEMMA RunKept ==
  ASSUME IInv, Next
  PROVE  RunOK' /\ WaitingOK'
<1> USE DEF IInv, inputVars, loopVars, nestVars, sharedVars, procVars, output, At
<1>0. Main \in Threads
  BY DEF Threads
<1>1. CASE RunStep
  BY <1>1, CaseKept, WaitingKept
<1>2. CASE EndProgram
  <2>1. Goto(Main, "exiting")
    BY <1>2 DEF EndProgram, CallExit
  <2> QED
    BY <1>0, <1>2, <2>1, RunStops DEF EndProgram, EndPlace
<1>3. CASE CallRunWithin
  <2>1. pc'[Main] = "plan"
    BY <1>3, GotoMain DEF CallRunWithin
  <2>2. RunOK'
    BY <1>3, <2>1 DEF CallRunWithin, RunOK, InTest
  <2>3. /\ outer'.back = pc[Main] /\ outer'.ix = ix /\ outer'.unit = unit
        /\ outer'.verdict = verdict
        /\ pc[Main] \in {"body", "dispose"} /\ UNCHANGED <<tests, done>>
    BY <1>3 DEF CallRunWithin, InUserCode
  <2>4. ix \in 1..Len(tests)
    BY <2>3 DEF RunOK, InTest, TypeOK
  <2>5. WaitingOK'
    BY <2>1, <2>3, <2>4 DEF RunOK, WaitingOK, TypeOK
  <2> QED
    BY <2>2, <2>5
<1>4. CASE RefuseRun
  BY <1>0, <1>4, RunStops DEF RefuseRun, EndPlace
<1>5. CASE AssertOutside
  BY <1>5 DEF AssertOutside, RunOK, WaitingOK, InTest
<1>6. ASSUME NEW t \in Threads, BailOut(t)
      PROVE  RunOK' /\ WaitingOK'
  BY <1>6, RunStops DEF BailOut, EndPlace
<1>7. ASSUME NEW t \in Threads, EndStep(t)
      PROVE  RunOK' /\ WaitingOK'
  <2>1. CASE Abort(t) \/ Exit(t)
    BY <2>1 DEF Abort, Exit, RunOK, WaitingOK, InTest
  <2>2. CASE ~(Abort(t) \/ Exit(t))
    <3>1. \E place \in EndPlace : Goto(t, place)
      BY <1>7, <2>2 DEF EndStep, DisablePlan, SayBailOut, UserAtexit, LogEmptyPlan, EndPlace
    <3>2. UNCHANGED <<tests, ix, unit, verdict, done, outer>>
      BY <1>7 DEF EndStep, DisablePlan, SayBailOut, Abort, UserAtexit, LogEmptyPlan, Exit
    <3> QED
      BY <1>7, <3>1, <3>2, RunStops
  <2> QED
    BY <2>1, <2>2
<1>8. CASE Stop
  BY <1>8 DEF Stop, vars, RunOK, WaitingOK, InTest
<1> QED
  BY <1>1, <1>2, <1>3, <1>4, <1>5, <1>6, <1>7, <1>8 DEF Next

-----------------------------------------------------------------------------
(* The plan.                                                                *)

(* The first plan to be written is the only one. *)
LEMMA FirstPlan ==
  ASSUME NEW n \in Nat, plans = <<>>, plans' = Append(plans, n)
  PROVE  plans' # <<>> /\ Len(plans') = 1
<1>1. <<>> \in Seq(Nat) /\ Len(<<>>) = 0
  OBVIOUS
<1>2. Len(Append(<<>>, n)) = 1
  BY <1>1, AppendProperties
<1> QED
  BY <1>1, <1>2

(* Steps that have nothing to do with it. *)
LEMMA PlanStays ==
  ASSUME PlanOK, Quitting => Quitting',
         UNCHANGED <<listOnly, once, plans>>,
         pc'[Main] = "planning" <=> pc[Main] = "planning",
         pc'[Main] \in {"next"} \cup InTest =>
           pc[Main] \in {"next"} \cup InTest \/ outer # NoRun,
         pc'[Main] \in InTest =>
           pc[Main] \in InTest \/ outer # NoRun \/ (pc[Main] = "next" /\ ~listOnly),
         outer' # NoRun => outer # NoRun \/ pc[Main] \in InTest,
         lines' = lines \/ pc[Main] \in InTest,
         proc' = "exited" => proc = "exited"
  PROVE  PlanOK'
<1>1. Written' > 0 => Written > 0 \/ pc[Main] \in InTest
  BY DEF Written
<1> QED
  BY <1>1 DEF PlanOK, InTest

LEMMA PlanRun ==
  ASSUME IInv, RunStep
  PROVE  PlanOK'
<1> USE DEF IInv, inputVars, loopVars, nestVars, sharedVars, procVars, output, At
<1>0. /\ \A place : Goto(Main, place) => pc'[Main] = place
      /\ \A code : CallExit(Main, code) => pc'[Main] = "exiting"
  BY GotoMain DEF CallExit
<1>1. Quitting => Quitting'
  BY QuittingKept DEF Next
<1>2. CASE CallRun
  BY <1>0, <1>1, <1>2, PlanStays DEF CallRun, InTest
<1>3. CASE EnterPlan
  <2>1. CASE once = "open"
    BY <1>0, <1>1, <1>3, <2>1 DEF EnterPlan, PlanOK, InTest, Written
  <2>2. CASE once = "done"
    BY <1>0, <1>1, <1>3, <2>2 DEF EnterPlan, PlanOK, InTest, Written
  <2> QED
    BY <1>3, <2>1, <2>2 DEF EnterPlan
<1>4. CASE PrintPlan
  <2>1. once = "busy" /\ plans = <<>> /\ ~listOnly
    BY <1>4 DEF PrintPlan, PlanOK
  <2>2. PlanSize(tests) \in Nat
    BY SuiteAssumption, PlanSizeType DEF TypeOK
  <2>3. plans' # <<>> /\ Len(plans') = 1
    BY <1>4, <2>1, <2>2, FirstPlan DEF PrintPlan
  <2>4. pc'[Main] \in {"next", "exiting"}
    BY <1>0, <1>4 DEF PrintPlan
  <2> QED
    BY <1>4, <2>1, <2>3, <2>4 DEF PrintPlan, PlanOK, InTest
<1>5. CASE PassTest \/ ListPath
  BY <1>1, <1>5, PlanStays DEF PassTest, ListPath
<1>6. CASE RunTest
  BY <1>0, <1>1, <1>6, PlanStays DEF RunTest, AtTest, ExecInner, InTest
<1>7. CASE NextUnit
  BY <1>0, <1>1, <1>7, PlanStays DEF NextUnit, ExecInner, InTest
<1>8. CASE Body \/ Dispose \/ AfterUnits
  BY <1>0, <1>1, <1>8, PlanStays DEF Body, Dispose, AfterUnits, InTest
<1>9. CASE NumberResult \/ PrintUnit \/ PrintResult
  BY <1>0, <1>1, <1>9, PlanStays DEF NumberResult, PrintUnit, PrintResult, InTest
<1>10. CASE ReturnFromRun
  <2>1. CASE outer = NoRun
    BY <1>0, <1>1, <1>10, <2>1, PlanStays DEF ReturnFromRun, InTest
  <2>2. CASE outer # NoRun
    <3>1. outer.back \in {"body", "dispose"}
      BY <2>2 DEF TypeOK, WaitingRun
    <3> QED
      BY <1>0, <1>1, <1>10, <2>2, <3>1, PlanStays DEF ReturnFromRun, InTest
  <2> QED
    BY <2>1, <2>2
<1> QED
  BY <1>2, <1>3, <1>4, <1>5, <1>6, <1>7, <1>8, <1>9, <1>10 DEF RunStep

LEMMA PlanEnd ==
  ASSUME IInv, Next, NEW t \in Threads, EndStep(t)
  PROVE  PlanOK'
<1> USE DEF IInv, inputVars, loopVars, nestVars, sharedVars, procVars, output, At
<1>0. /\ \A place : Goto(t, place) => pc'[t] = place
      /\ \A place : Goto(t, place) /\ t # Main => pc'[Main] = pc[Main]
  BY DEF TypeOK, Goto, Threads
<1>1. Quitting => Quitting'
  BY QuittingKept
<1>2. \A p : pc[t] = p /\ p \in EndPlace /\ t = Main =>
        pc[Main] \notin {"planning", "next"} \cup InTest
  BY DEF EndPlace, InTest
<1>3. CASE DisablePlan(t)
  <2>1. Quitting
    BY <1>3 DEF DisablePlan, EndOK, Quitting
  <2> QED
    BY <1>0, <1>1, <1>3, <2>1 DEF DisablePlan, PlanOK, InTest, Written
<1>4. CASE SayBailOut(t) \/ UserAtexit(t) \/ Abort(t)
  BY <1>0, <1>1, <1>4, PlanStays DEF SayBailOut, UserAtexit, Abort, InTest
<1>5. CASE LogEmptyPlan(t)
  <2>1. CASE once = "open"
    <3>1. plans = <<>> /\ ~listOnly /\ plans' = Append(plans, 0) /\ once' = "done"
      BY <1>5, <2>1 DEF LogEmptyPlan, PlanOK
    <3>2. plans' # <<>> /\ Len(plans') = 1
      BY <3>1, FirstPlan
    <3> QED
      BY <1>0, <1>5, <2>1, <3>1, <3>2 DEF LogEmptyPlan, PlanOK, InTest, Written
  <2>2. CASE once = "done"
    BY <1>0, <1>1, <1>5, <2>2, PlanStays DEF LogEmptyPlan, InTest
  <2> QED
    BY <1>5, <2>1, <2>2 DEF LogEmptyPlan
<1>6. CASE Exit(t)
  <2>1. once = "done" \/ Quitting
    BY <1>6 DEF Exit, EndOK, Quitting
  <2> QED
    BY <1>1, <1>6, <2>1 DEF Exit, PlanOK, InTest, Written
<1> QED
  BY <1>3, <1>4, <1>5, <1>6 DEF EndStep

LEMMA PlanKeptOK ==
  ASSUME IInv, Next
  PROVE  PlanOK'
<1> USE DEF IInv, inputVars, loopVars, nestVars, sharedVars, procVars, output, At
<1>1. Quitting => Quitting'
  BY QuittingKept
<1>2. CASE RunStep
  BY <1>2, PlanRun
<1>3. CASE EndProgram
  <2>1. pc'[Main] = "exiting"
    BY <1>3, GotoMain DEF EndProgram, CallExit
  <2> QED
    BY <1>1, <1>3, <2>1, PlanStays DEF EndProgram, InTest
<1>4. CASE CallRunWithin
  BY <1>1, <1>4, GotoMain, PlanStays DEF CallRunWithin, InUserCode, InTest
<1>5. CASE RefuseRun
  BY <1>1, <1>5, GotoMain, PlanStays DEF RefuseRun, InUserCode, InTest
<1>6. CASE AssertOutside
  BY <1>1, <1>6, PlanStays DEF AssertOutside
<1>7. ASSUME NEW t \in Threads, BailOut(t)
      PROVE  PlanOK'
  <2>1. IF t = Main THEN pc[Main] \in InTest /\ pc'[Main] = "bail"
                    ELSE pc'[Main] = pc[Main]
    BY <1>7 DEF BailOut, InUserCode, InTest, TypeOK, Goto, Threads
  <2> QED
    BY <1>1, <1>7, <2>1, PlanStays DEF BailOut, InTest
<1>8. ASSUME NEW t \in Threads, EndStep(t)
      PROVE  PlanOK'
  BY <1>8, PlanEnd
<1>9. CASE Stop
  BY <1>1, <1>9, PlanStays DEF Stop, vars
<1> QED
  BY <1>2, <1>3, <1>4, <1>5, <1>6, <1>7, <1>8, <1>9 DEF Next

-----------------------------------------------------------------------------
(* The invariant.                                                           *)

(* A process that has done nothing yet. *)
LEMMA FreshInv ==
  ASSUME tests \in Suites, listOnly \in BOOLEAN, keepGoing \in BOOLEAN, Fresh,
         NEW place \in {"parse", "program"},
         pc = [t \in Threads |-> IF t = Main THEN place ELSE "user"],
         once = IF listOnly THEN "done" ELSE "open"
  PROVE  IInv
<1>1. /\ Main \in Threads /\ Main \notin Workers /\ tests \in Seq(Test)
      /\ Len(tests) \in Nat
      /\ Threads = {Main} \cup Workers
  BY SuiteAssumption, LenProperties DEF Threads
<1>2. TypeOK
  <2>1. pc \in [Threads -> StartPlace \cup MainPlace \cup EndPlace \cup {"user", "stuck"}]
    BY DEF MainPlace, StartPlace
  <2>2. leaving \in [Threads -> [how: {"stay", "exit", "bail", "trap", "refuse"}, status: Nat]]
    BY DEF Fresh, Stay
  <2>3. plans \in Seq(Nat) /\ lines \in [ok: Nat, notOk: Nat]
    BY DEF Fresh
  <2>4. ix \in 1..(Len(tests) + 1) /\ unit \in Nat /\ verdict \in Verdict
    BY <1>1 DEF Fresh, Verdict
  <2>5. hasRun \in BOOLEAN /\ again \in BOOLEAN
    BY DEF Fresh
  <2>6. nSkipped \in Nat /\ nFailed \in Nat /\ executed \in Nat /\ testCount \in Nat
    BY DEF Fresh
  <2>7. /\ once \in {"open", "busy", "done"}
        /\ stdout \in Threads \cup {Free} /\ outer \in WaitingRun \cup {NoRun}
        /\ bail \in {"none", "buffered", "delivered"}
    BY DEF Fresh
  <2>8. /\ proc \in {"running", "trapped", "aborted", "exited", "undefined"}
        /\ status \in 0..255
    BY DEF Fresh
  <2>9. done \subseteq 1..Len(tests) /\ listed \subseteq 1..Len(tests)
    BY DEF Fresh
  <2> QED
    BY <2>1, <2>2, <2>3, <2>4, <2>5, <2>6, <2>7, <2>8, <2>9 DEF TypeOK
<1>3. /\ pc[Main] = place /\ \A t \in Workers : pc[t] = "user"
      /\ \A t \in Threads : leaving[t].how = "stay"
  BY <1>1 DEF Fresh, Stay
<1>4. EndOK
  BY <1>1, <1>3 DEF Fresh, EndOK, EndPlace
<1>5. PlanOK
  BY <1>3 DEF Fresh, PlanOK, InTest, Written
<1>6. RunOK /\ WaitingOK
  BY <1>3 DEF Fresh, RunOK, WaitingOK, InTest
<1> QED
  BY <1>2, <1>4, <1>5, <1>6 DEF IInv

LEMMA InitInv == Init => IInv
BY FreshInv DEF Init

LEMMA StepInv == IInv /\ [Next]_vars => IInv'
<1> SUFFICES ASSUME IInv, [Next]_vars
             PROVE  IInv'
  OBVIOUS
<1>1. CASE Next
  BY <1>1, TypeStep, EndKept, PlanKeptOK, RunKept DEF IInv
<1>2. CASE UNCHANGED vars
  <2>1. TypeOK'
    BY <1>2 DEF IInv, TypeOK, vars, inputVars, sharedVars, loopVars, nestVars, procVars, output
  <2>2. EndOK'
    BY <1>2 DEF IInv, EndOK, vars, inputVars, sharedVars, loopVars, nestVars, procVars, output
  <2>3. PlanOK'
    BY <1>2 DEF IInv, PlanOK, Quitting, Written, vars, inputVars, sharedVars, loopVars,
                nestVars, procVars, output
  <2>4. RunOK' /\ WaitingOK'
    BY <1>2 DEF IInv, RunOK, WaitingOK, vars, inputVars, sharedVars, loopVars, nestVars,
                procVars, output
  <2> QED
    BY <2>1, <2>2, <2>3, <2>4 DEF IInv
<1> QED
  BY <1>1, <1>2

(* The parts of the invariant hold together from the first state on. *)
THEOREM Invariance == Spec => []IInv
BY InitInv, StepInv, PTL DEF Spec

-----------------------------------------------------------------------------
(* What follows from it.                                                    *)

LEMMA OnePlanHolds ==
  ASSUME IInv
  PROVE  OnePlan
<1>1. plans \in Seq(Nat) /\ listOnly \in BOOLEAN
  BY DEF IInv, TypeOK
<1>2. Len(plans) <= 1 /\ (listOnly => plans = <<>>)
  BY DEF IInv, PlanOK
<1>3. proc = "exited" /\ ~Quitting /\ ~listOnly => plans # <<>>
  BY DEF IInv, PlanOK
<1>4. ASSUME plans # <<>>
      PROVE  Len(plans) = 1
  <2>1. Len(plans) \in Nat
    BY <1>1, LenProperties
  <2>2. Len(plans) # 0
    BY <1>1, <1>4, EmptySeq
  <2>3. \A n \in Nat : n <= 1 /\ n # 0 => n = 1
    OBVIOUS
  <2> QED
    BY <1>2, <2>1, <2>2, <2>3
<1> QED
  BY <1>1, <1>2, <1>3, <1>4 DEF OnePlan

LEMMA BodiesOnceHolds ==
  ASSUME IInv
  PROVE  BodiesOnce
<1> SUFFICES ASSUME proc = "running", pc[Main] = "body"
             PROVE  ix \notin done
                    /\ (outer # NoRun => outer.back = "dispose" /\ outer.ix # ix)
  BY DEF BodiesOnce, At
<1>1. ix \notin done
  BY DEF IInv, RunOK
<1>2. ASSUME outer # NoRun
      PROVE  outer.back = "dispose" /\ outer.ix # ix
  <2>1. outer.back \in {"body", "dispose"}
    BY <1>2 DEF IInv, TypeOK, WaitingRun
  <2> QED
    BY <1>1, <1>2, <2>1 DEF IInv, WaitingOK
<1> QED
  BY <1>1, <1>2

(* Every variable keeps its type, through runs within runs and bail-outs.   *)
THEOREM TypeCorrect == Spec => []TypeOK
BY Invariance, PTL DEF IInv

(* However the main thread, the workers' bail-outs and the exit handlers    *)
(* interleave, one plan at most is written, none under -l, and exactly one  *)
(* by a program that ends by itself (tap.c:58-81, glib-handlers.c:161-205). *)
THEOREM PlanWrittenOnce == Spec => []OnePlan
BY OnePlanHolds, Invariance, PTL

(* No result comes before the plan, unless somebody is bailing out.         *)
THEOREM PlanBeforeResults == Spec => []PlanFirst
<1>1. IInv => PlanFirst
  BY DEF IInv, PlanOK, PlanFirst
<1> QED
  BY <1>1, Invariance, PTL

(* Wherever a run is started within a run, no body is executed within       *)
(* another and none a second time (run-setjmp.c:91, run.c:10).              *)
THEOREM NoBodyTwice == Spec => []BodiesOnce
BY BodiesOnceHolds, Invariance, PTL

(* Nothing that takes the lock is written after "Bail out!", by whatever    *)
(* thread (tap.c:103-122).                                                  *)
THEOREM NothingAfterBailOut == Spec => SilentAfterBailOut
<1>1. IInv /\ [Next]_vars => (bail # "none" => UNCHANGED <<plans, lines>>)
  <2> SUFFICES ASSUME IInv, [Next]_vars, bail # "none"
               PROVE  UNCHANGED <<plans, lines>>
    OBVIOUS
  <2> USE DEF output
  <2>1. stdout # Free /\ once # "open"
    BY DEF IInv, EndOK
  <2>2. RunStep => UNCHANGED <<plans, lines>>
    BY <2>1 DEF RunStep, CallRun, EnterPlan, PrintPlan, PassTest, ListPath, RunTest, NextUnit,
       Body, Dispose, AfterUnits, NumberResult, PrintUnit, PrintResult, ReturnFromRun, WriteLine
  <2>3. \A t \in Threads : BailOut(t) \/ EndStep(t) => UNCHANGED <<plans, lines>>
    BY <2>1 DEF BailOut, EndStep, DisablePlan, SayBailOut, Abort, UserAtexit, LogEmptyPlan, Exit
  <2>4. EndProgram \/ CallRunWithin \/ RefuseRun \/ AssertOutside => UNCHANGED <<plans, lines>>
    BY DEF EndProgram, CallRunWithin, RefuseRun, AssertOutside
  <2>5. Stop \/ UNCHANGED vars => UNCHANGED <<plans, lines>>
    BY DEF Stop, vars
  <2> QED
    BY <2>2, <2>3, <2>4, <2>5 DEF Next
<1> QED
  BY <1>1, Invariance, PTL DEF Spec, SilentAfterBailOut

(* A subunit that failed is the last of its case to be executed             *)
(* (complex.c:118-134).                                                     *)
THEOREM NoUnitAfterFailure == Spec => AbandonedAfterFailure
<1>1. IInv /\ [Next]_vars =>
        (unit > 0 /\ verdict = "FAIL" /\ outer' = outer => executed' = executed)
  <2> SUFFICES ASSUME IInv, [Next]_vars, unit > 0, verdict = "FAIL", outer' = outer
               PROVE  executed' = executed
    OBVIOUS
  <2> USE DEF loopVars
  <2>1. ~(pc[Main] = "body") /\ ~(pc[Main] = "next")
    BY DEF IInv, RunOK
  <2>2. ~CallRunWithin
    <3>1. ASSUME CallRunWithin
          PROVE  FALSE
      <4>1. outer'.back \in {"body", "dispose"} /\ outer = NoRun
        BY <3>1 DEF CallRunWithin, InUserCode, At
      <4> QED
        BY <4>1 DEF NoRun
    <3> QED
      BY <3>1
  <2>3. RunStep => UNCHANGED executed
    <3>1. ~RunTest /\ ~Body /\ ~ReturnFromRun
      BY <2>1 DEF RunTest, Body, ReturnFromRun, AtTest, At
    <3> QED
      BY <3>1 DEF RunStep, CallRun, EnterPlan, PrintPlan, PassTest, ListPath, NextUnit,
         Dispose, AfterUnits, NumberResult, PrintUnit, PrintResult
  <2>4. \A t \in Threads : BailOut(t) \/ EndStep(t) => UNCHANGED executed
    BY DEF BailOut, EndStep, DisablePlan, SayBailOut, Abort, UserAtexit, LogEmptyPlan, Exit
  <2>5. EndProgram \/ RefuseRun \/ AssertOutside => UNCHANGED executed
    BY DEF EndProgram, RefuseRun, AssertOutside
  <2>6. Stop \/ UNCHANGED vars => UNCHANGED executed
    BY DEF Stop, vars
  <2> QED
    BY <2>2, <2>3, <2>4, <2>5, <2>6 DEF Next
<1> QED
  BY <1>1, Invariance, PTL DEF Spec, AbandonedAfterFailure

-----------------------------------------------------------------------------
(* The run implements the stream.                                           *)

(* A step that does not show, or ends the process otherwise than by exit(). *)
LEMMA StreamStep ==
  ASSUME proc = "running", UNCHANGED <<plans, lines, bail>>,
         once' = once \/ (once = "open" /\ once' = "busy"),
         proc' \in {"running", "aborted", "trapped", "undefined"}
  PROVE  Stream!Next \/ UNCHANGED Stream!vars
BY DEF Stream!Next, Stream!End, Stream!vars, Written

(* The plan is written. *)
LEMMA StreamPlan ==
  ASSUME IInv, proc = "running", stdout = Free, once # "done", once' = "done",
         NEW n \in Nat, plans' = Append(plans, n),
         UNCHANGED <<lines, bail, proc, status>>
  PROVE  Stream!Next
<1>1. plans = <<>> /\ bail = "none"
  BY DEF IInv, PlanOK, EndOK
<1>2. plans' # <<>> /\ Len(plans') = 1 /\ plans' \in Seq(Nat)
  <2>1. <<>> \in Seq(Nat)
    OBVIOUS
  <2> QED
    BY <1>1, <2>1, FirstPlan, AppendProperties
<1>3. Stream!Plan
  BY <1>1, <1>2 DEF Stream!Plan, Stream!Listening, Stream!Settled, Written
<1> QED
  BY <1>3 DEF Stream!Next

(* A result is written. *)
LEMMA StreamResult ==
  ASSUME IInv, proc = "running", pc[Main] = "print", WriteLine,
         UNCHANGED <<once, plans, bail, proc, status>>
  PROVE  Stream!Next
<1>1. bail = "none" /\ once = "done"
  BY DEF IInv, EndOK, PlanOK, InTest, WriteLine
<1>2. Written' = Written + 1
  BY DEF IInv, TypeOK, WriteLine, Written
<1>3. Stream!Result
  BY <1>1, <1>2 DEF Stream!Result, Stream!Listening, Stream!Settled
<1> QED
  BY <1>3 DEF Stream!Next

(* A thread ends the process. *)
LEMMA StreamEnd ==
  ASSUME IInv, NEW t \in Threads, EndStep(t)
  PROVE  Stream!Next \/ UNCHANGED Stream!vars
<1> USE DEF inputVars, sharedVars, loopVars, nestVars, procVars, output, At
<1>1. CASE DisablePlan(t)
  <2>1. CASE once = "open"
    <3>1. bail = "none" /\ plans = <<>>
      BY <2>1 DEF IInv, EndOK, PlanOK
    <3>2. Stream!GiveUp
      BY <1>1, <2>1, <3>1
         DEF DisablePlan, Stream!GiveUp, Stream!Listening, Stream!Settled, Written
    <3> QED
      BY <3>2 DEF Stream!Next
  <2>2. CASE once = "done"
    BY <1>1, <2>2, StreamStep DEF DisablePlan
  <2> QED
    BY <1>1, <2>1, <2>2 DEF DisablePlan, IInv, TypeOK
<1>2. CASE SayBailOut(t)
  <2>1. bail = "none" /\ once = "done" /\ bail' # "none"
    BY <1>2 DEF SayBailOut, IInv, EndOK
  <2>2. Stream!BailOut
    BY <1>2, <2>1
       DEF SayBailOut, Stream!BailOut, Stream!Listening, Stream!Settled, Written
  <2> QED
    BY <2>2 DEF Stream!Next
<1>3. CASE Abort(t) \/ UserAtexit(t)
  BY <1>3, StreamStep DEF Abort, UserAtexit
<1>4. CASE LogEmptyPlan(t)
  <2>1. CASE once = "open"
    BY <1>4, <2>1, StreamPlan DEF LogEmptyPlan
  <2>2. CASE once = "done"
    BY <1>4, <2>2, StreamStep DEF LogEmptyPlan
  <2> QED
    BY <1>4, <2>1, <2>2 DEF LogEmptyPlan
<1>5. CASE Exit(t)
  <2>1. status' = 0 => once = "done"
    BY <1>5 DEF Exit, ExitStatus, IInv, EndOK
  <2>2. Stream!End
    BY <1>5, <2>1 DEF Exit, Stream!End, Stream!Settled, Written
  <2> QED
    BY <2>2 DEF Stream!Next
<1> QED
  BY <1>1, <1>2, <1>3, <1>4, <1>5 DEF EndStep

LEMMA StreamKept ==
  ASSUME IInv, [Next]_vars
  PROVE  Stream!Next \/ UNCHANGED Stream!vars
<1> USE DEF inputVars, sharedVars, loopVars, nestVars, procVars, output, At
<1>1. CASE RunStep
  <2>1. CASE PrintPlan
    <3>1. PlanSize(tests) \in Nat /\ once # "done"
      BY <2>1, SuiteAssumption, PlanSizeType DEF IInv, TypeOK, PlanOK, PrintPlan
    <3> QED
      BY <2>1, <3>1, StreamPlan DEF PrintPlan
  <2>2. CASE PrintUnit \/ PrintResult
    BY <2>2, StreamResult DEF PrintUnit, PrintResult
  <2>3. CASE CallRun \/ EnterPlan \/ PassTest \/ ListPath \/ RunTest \/ NextUnit
    BY <2>3, StreamStep
       DEF CallRun, EnterPlan, PassTest, ListPath, RunTest, NextUnit, AtTest, ExecInner
  <2>4. CASE Body \/ Dispose \/ AfterUnits \/ NumberResult \/ ReturnFromRun
    BY <2>4, StreamStep DEF Body, Dispose, AfterUnits, NumberResult, ReturnFromRun
  <2> QED
    BY <1>1, <2>1, <2>2, <2>3, <2>4 DEF RunStep
<1>2. CASE EndProgram \/ CallRunWithin \/ RefuseRun \/ AssertOutside
  BY <1>2, StreamStep
     DEF EndProgram, CallRunWithin, RefuseRun, AssertOutside, InUserCode
<1>3. ASSUME NEW t \in Threads, BailOut(t)
      PROVE  Stream!Next \/ UNCHANGED Stream!vars
  BY <1>3, StreamStep DEF BailOut, InUserCode
<1>4. ASSUME NEW t \in Threads, EndStep(t)
      PROVE  Stream!Next \/ UNCHANGED Stream!vars
  BY <1>4, StreamEnd
<1>5. CASE Stop \/ UNCHANGED vars
  BY <1>5 DEF Stop, vars, Stream!vars, Written
<1> QED
  BY <1>1, <1>2, <1>3, <1>4, <1>5 DEF Next

(* Every step of the run writes one item of the stream in its turn, or      *)
(* nothing.                                                                 *)
THEOREM StreamImplemented == Spec => ImplementsStream
<1>1. Init => Stream!Init
  BY DEF Init, Fresh, Stream!Init, Written
<1>2. IInv /\ [Next]_vars => [Stream!Next]_(Stream!vars)
  BY StreamKept
<1> QED
  BY <1>1, <1>2, Invariance, PTL DEF Spec, ImplementsStream, Stream!Spec
=============================================================================
