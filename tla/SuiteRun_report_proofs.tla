----------------------- MODULE SuiteRun_report_proofs -----------------------
(***************************************************************************)
(* What SuiteRun reports is what came of the cases: the summary of a        *)
(* complex case, the exit status, and as many lines as were announced, for  *)
(* any suites and any run within the run.                                   *)
(***************************************************************************)
EXTENDS SuiteRun_proofs

(* The failures that were counted are lines that were written, and at most  *)
(* one in each case.  A line that was written is counted with its case.     *)
FailOK ==
  /\ pc[Main] \in {"program", "plan", "planning"} => ix = 1 /\ nFailed = 0
  /\ pc[Main] \in {"program", "planning"} => outer = NoRun
  /\ nFailed < ix
  /\ outer # NoRun => outer.nFailed < outer.ix /\ nFailed + outer.nFailed <= lines.notOk
  /\ outer = NoRun => nFailed <= lines.notOk
  /\ ~again => outer = NoRun
  /\ ~again /\ lines.notOk > 0 =>
       \/ nFailed > 0
       \/ verdict = "FAIL" /\ pc[Main] \in {"units", "number", "print"}
       \/ Quitting

(* What main() returns. *)
ExitOK ==
  /\ leaving[Main].how = "exit" /\ ix > Len(tests) /\ tests # <<>> =>
       leaving[Main].status = nFailed /\ outer = NoRun /\ once = "done"
  /\ proc = "exited" /\ ~Quitting =>
       leaving[Main].how = "exit" /\ status = ExitStatus(leaving[Main].status)

FInv == IInv /\ FailOK /\ ExitOK

LEMMA FailRun ==
  ASSUME IInv, FailOK, RunStep
  PROVE  FailOK'
<1> USE DEF IInv, loopVars, nestVars, output, At
<1>0. /\ \A place : Goto(Main, place) => pc'[Main] = place
      /\ \A code : CallExit(Main, code) => pc'[Main] = "exiting"
      /\ nFailed \in Nat /\ ix \in Nat /\ lines.notOk \in Nat
      /\ lines \in [ok: Nat, notOk: Nat] /\ unit \in Nat
      /\ again \in BOOLEAN
      /\ outer # NoRun => outer.nFailed \in Nat /\ outer.ix \in Nat
                          /\ outer.back \in {"body", "dispose"}
  BY GotoMain DEF CallExit, TypeOK, WaitingRun
<1>1. Quitting => Quitting'
  BY QuittingKept DEF Next
<1>2. CASE CallRun \/ EnterPlan \/ PrintPlan
  <2>1. PrintPlan => pc'[Main] \in {"next", "exiting"}
    BY <1>0 DEF PrintPlan
  <2>2. pc[Main] \in {"program", "plan", "planning"}
        /\ pc'[Main] \in {"plan", "planning", "next", "exiting"}
        /\ (pc'[Main] = "planning" => once = "open")
    BY <1>0, <1>2, <2>1 DEF CallRun, EnterPlan, PrintPlan
  <2>3. UNCHANGED <<ix, nFailed, outer, again, lines, verdict>>
    BY <1>2 DEF CallRun, EnterPlan, PrintPlan
  <2>4. pc'[Main] = "planning" => outer = NoRun
    BY <2>2 DEF PlanOK
  <2> QED
    BY <1>0, <1>1, <2>2, <2>3, <2>4 DEF FailOK, RunOK
<1>3. CASE PassTest \/ ListPath
  <2>1. /\ pc[Main] = "next" /\ ix' = ix + 1
        /\ UNCHANGED <<pc, nFailed, outer, again, lines, verdict>>
    BY <1>3 DEF PassTest, ListPath, AtTest
  <2> QED
    BY <1>0, <1>1, <2>1 DEF FailOK
<1>4. CASE RunTest
  <2>1. /\ pc[Main] = "next" /\ verdict # "FAIL"
        /\ UNCHANGED <<ix, nFailed, outer, again, lines>>
        /\ pc'[Main] \in {"next", "number", "body", "units"}
    BY <1>0, <1>4 DEF RunTest, AtTest, ExecInner, RunOK
  <2> QED
    BY <1>0, <1>1, <2>1 DEF FailOK
<1>5. CASE NextUnit
  <2>1. /\ pc[Main] = "units" /\ UNCHANGED <<ix, nFailed, outer, again, lines, verdict>>
        /\ \/ pc'[Main] \in {"number", "units"}
           \/ verdict # "FAIL" /\ pc'[Main] = "body"
    BY <1>0, <1>5 DEF NextUnit, ExecInner
  <2> QED
    BY <1>0, <1>1, <2>1 DEF FailOK
<1>6. CASE Body \/ Dispose
  <2>1. /\ pc[Main] \in {"body", "dispose"} /\ pc'[Main] \in {"dispose", "number"}
        /\ UNCHANGED <<ix, nFailed, outer, again, lines>>
    BY <1>0, <1>6 DEF Body, Dispose
  <2> QED
    BY <1>0, <1>1, <2>1 DEF FailOK
<1>7. CASE AfterUnits
  <2>1. /\ pc[Main] = "units" /\ pc'[Main] = "number"
        /\ verdict = "FAIL" => verdict' = "FAIL"
        /\ UNCHANGED <<ix, nFailed, outer, again, lines>>
    BY <1>0, <1>7 DEF AfterUnits, Summary
  <2> QED
    BY <1>0, <1>1, <2>1 DEF FailOK
<1>8. CASE NumberResult
  <2>1. /\ pc[Main] = "number" /\ pc'[Main] = "print"
        /\ UNCHANGED <<ix, nFailed, outer, again, lines, verdict>>
    BY <1>0, <1>8 DEF NumberResult
  <2> QED
    BY <1>0, <1>1, <2>1 DEF FailOK
<1>9. CASE PrintUnit
  <2>1. /\ pc[Main] = "print" /\ pc'[Main] = "units"
        /\ UNCHANGED <<ix, nFailed, outer, again, verdict>>
        /\ lines'.notOk = IF verdict = "FAIL" THEN lines.notOk + 1 ELSE lines.notOk
    BY <1>0, <1>9 DEF PrintUnit, WriteLine
  <2> QED
    BY <1>0, <1>1, <2>1 DEF FailOK
<1>10. CASE PrintResult
  <2>1. /\ pc[Main] = "print" /\ pc'[Main] = "next" /\ ix' = ix + 1
        /\ UNCHANGED <<outer, again>>
        /\ \/ /\ verdict = "FAIL" /\ nFailed' = nFailed + 1
              /\ lines'.notOk = lines.notOk + 1
           \/ /\ verdict # "FAIL" /\ nFailed' = nFailed
              /\ lines'.notOk = lines.notOk
    BY <1>0, <1>10 DEF PrintResult, WriteLine
  <2> QED
    BY <1>0, <1>1, <2>1 DEF FailOK
<1>11. CASE ReturnFromRun
  <2>1. CASE outer = NoRun
    <3>1. /\ pc[Main] = "next" /\ pc'[Main] = "exiting"
          /\ UNCHANGED <<ix, nFailed, outer, again, lines, verdict>>
      BY <1>0, <1>11, <2>1 DEF ReturnFromRun
    <3> QED
      BY <1>0, <1>1, <3>1 DEF FailOK
  <2>2. CASE outer # NoRun
    <3>1. /\ pc'[Main] = outer.back /\ ix' = outer.ix /\ nFailed' = outer.nFailed
          /\ outer' = NoRun /\ UNCHANGED <<again, lines>>
      BY <1>0, <1>11, <2>2 DEF ReturnFromRun
    <3> QED
      BY <1>0, <1>1, <2>2, <3>1 DEF FailOK
  <2> QED
    BY <2>1, <2>2
<1> QED
  BY <1>2, <1>3, <1>4, <1>5, <1>6, <1>7, <1>8, <1>9, <1>10, <1>11 DEF RunStep

LEMMA FailKept ==
  ASSUME IInv, FailOK, Next
  PROVE  FailOK'
<1> USE DEF IInv, loopVars, nestVars, output, At
<1>0. /\ nFailed \in Nat /\ ix \in Nat /\ lines.notOk \in Nat /\ again \in BOOLEAN
      /\ outer # NoRun => outer.nFailed \in Nat /\ outer.ix \in Nat
  BY DEF TypeOK, WaitingRun
<1>1. Quitting => Quitting'
  BY QuittingKept
<1>2. ASSUME UNCHANGED <<ix, nFailed, outer, again, lines, verdict>>,
             pc'[Main] = pc[Main]
               \/ (pc'[Main] \in EndPlace /\ pc[Main] \notin {"units", "number", "print"})
      PROVE  FailOK'
  BY <1>0, <1>1, <1>2 DEF FailOK, EndPlace
<1>3. CASE RunStep
  BY <1>3, FailRun
<1>4. CASE EndProgram
  <2>1. pc[Main] = "program" /\ pc'[Main] = "exiting"
    BY <1>4, GotoMain DEF EndProgram, CallExit
  <2> QED
    BY <1>2, <1>4, <2>1 DEF EndProgram, EndPlace
<1>5. CASE CallRunWithin
  <2>1. /\ pc'[Main] = "plan" /\ pc[Main] \in {"body", "dispose"}
        /\ outer = NoRun /\ outer'.back = pc[Main]
        /\ outer'.nFailed = nFailed /\ outer'.ix = ix
        /\ ix' = 1 /\ nFailed' = 0 /\ again' = TRUE /\ lines' = lines
    BY <1>5, GotoMain DEF CallRunWithin, InUserCode
  <2> QED
    BY <1>0, <2>1 DEF FailOK
<1>6. CASE RefuseRun
  <2>1. pc'[Main] = "bail" /\ pc[Main] \in {"body", "dispose", "next"}
    BY <1>6, GotoMain DEF RefuseRun, InUserCode
  <2> QED
    BY <1>2, <1>6, <2>1 DEF RefuseRun, EndPlace
<1>7. CASE AssertOutside
  BY <1>2, <1>7 DEF AssertOutside
<1>8. ASSUME NEW t \in Threads, BailOut(t)
      PROVE  FailOK'
  <2>1. \/ pc'[Main] = pc[Main]
        \/ pc[Main] \in {"body", "dispose"} /\ pc'[Main] = "bail"
    BY <1>8 DEF BailOut, InUserCode, Goto, TypeOK, Threads
  <2> QED
    BY <1>2, <1>8, <2>1 DEF BailOut, EndPlace
<1>9. ASSUME NEW t \in Threads, EndStep(t)
      PROVE  FailOK'
  <2>1. pc' = pc \/ \E place \in EndPlace : Goto(t, place)
    BY <1>9 DEF EndStep, DisablePlan, SayBailOut, Abort, UserAtexit, LogEmptyPlan, Exit, EndPlace
  <2>2. pc[t] \in EndPlace
    BY <1>9 DEF EndStep, DisablePlan, SayBailOut, Abort, UserAtexit, LogEmptyPlan, Exit, EndPlace
  <2>3. \/ pc'[Main] = pc[Main]
        \/ pc[Main] \in EndPlace /\ pc'[Main] \in EndPlace
    BY <2>1, <2>2 DEF Goto, TypeOK, Threads
  <2>4. UNCHANGED <<ix, nFailed, outer, again, verdict>>
    BY <1>9 DEF EndStep, DisablePlan, SayBailOut, Abort, UserAtexit, LogEmptyPlan, Exit
  <2>5. lines' = lines
    BY <1>9 DEF EndStep, DisablePlan, SayBailOut, Abort, UserAtexit, LogEmptyPlan, Exit
  <2> QED
    BY <1>2, <2>3, <2>4, <2>5 DEF EndPlace
<1>10. CASE Stop
  BY <1>2, <1>10 DEF Stop, vars
<1> QED
  BY <1>3, <1>4, <1>5, <1>6, <1>7, <1>8, <1>9, <1>10 DEF Next

LEMMA NoCaseYet ==
  ASSUME TypeOK, ix = 1, tests # <<>>
  PROVE  ~(ix > Len(tests))
<1>1. tests \in Seq(Test)
  BY SuiteAssumption DEF TypeOK
<1>2. Len(tests) \in Nat /\ Len(tests) # 0
  BY <1>1, LenProperties, EmptySeq
<1> QED
  BY <1>2

LEMMA ExitKept ==
  ASSUME FInv, Next
  PROVE  ExitOK'
<1> USE DEF FInv, IInv, inputVars, sharedVars, loopVars, nestVars, procVars, At
<1>0. /\ Main \in Threads /\ Main \notin Workers
      /\ pc[Main] \notin EndPlace => leaving[Main].how = "stay"
      /\ leaving \in [Threads -> Departure] /\ nFailed \in Nat
  BY SuiteAssumption DEF Threads, EndOK, TypeOK, Departure
<1>1. Quitting => Quitting'
  BY QuittingKept
(* The main thread has not left its run. *)
<1>2. ASSUME leaving'[Main].how # "exit", proc' # "exited"
      PROVE  ExitOK'
  BY <1>2 DEF ExitOK
<1>3. ASSUME NEW code \in Nat, CallExit(Main, code), proc' # "exited", tests' = tests,
             ix' > Len(tests) /\ tests # <<>> =>
               code = nFailed' /\ outer' = NoRun /\ once' = "done"
      PROVE  ExitOK'
  <2>1. leaving'[Main] = [how |-> "exit", status |-> code]
    BY <1>0, <1>3 DEF CallExit
  <2> QED
    BY <1>3, <2>1 DEF ExitOK
<1>4. ASSUME leaving'[Main] = leaving[Main], UNCHANGED <<tests, ix, nFailed, outer, proc, status>>,
             once = "done" => once' = "done"
      PROVE  ExitOK'
  BY <1>1, <1>4 DEF ExitOK
<1>5. CASE RunStep
  <2>1. pc[Main] \notin EndPlace /\ proc = "running"
    BY <1>5 DEF RunStep, CallRun, EnterPlan, PrintPlan, PassTest, ListPath, RunTest, AtTest,
       NextUnit, Body, Dispose, AfterUnits, NumberResult, PrintUnit, PrintResult,
       ReturnFromRun, EndPlace
  <2>2. proc' # "exited"
    BY <1>5, <2>1 DEF RunStep, CallRun, EnterPlan, PrintPlan, PassTest, ListPath, RunTest,
       ExecInner, NextUnit, Body, Dispose, AfterUnits, NumberResult, PrintUnit, PrintResult,
       ReturnFromRun
  <2>3. CASE UNCHANGED leaving
    BY <1>0, <1>2, <2>1, <2>2, <2>3
  <2>4. CASE ~UNCHANGED leaving
    <3>1. PrintPlan \/ ReturnFromRun
      BY <1>5, <2>4 DEF RunStep, CallRun, EnterPlan, PassTest, ListPath, RunTest, NextUnit,
         Body, Dispose, AfterUnits, NumberResult, PrintUnit, PrintResult
    <3>2. CASE PrintPlan
      <4>1. CallExit(Main, 0) /\ ix = 1 /\ UNCHANGED <<tests, ix>>
        BY <2>4, <3>2 DEF PrintPlan, FailOK
      <4>2. ~(ix' > Len(tests) /\ tests # <<>>)
        BY <4>1, NoCaseYet
      <4> QED
        BY <1>3, <2>2, <4>1, <4>2
    <3>3. CASE ReturnFromRun
      <4>1. /\ CallExit(Main, nFailed) /\ outer' = NoRun
            /\ UNCHANGED <<tests, ix, nFailed, once>> /\ pc[Main] = "next"
        BY <2>4, <3>3 DEF ReturnFromRun
      <4>2. once = "done"
        BY <4>1 DEF PlanOK
      <4> QED
        BY <1>0, <1>3, <2>2, <4>1, <4>2
    <3> QED
      BY <3>1, <3>2, <3>3
  <2> QED
    BY <2>3, <2>4
<1>6. CASE EndProgram
  <2>1. PICK code \in {0, 1} : CallExit(Main, code)
    BY <1>6 DEF EndProgram
  <2>2. ix = 1 /\ UNCHANGED <<tests, ix, proc>> /\ proc = "running"
    BY <1>6 DEF EndProgram, FailOK
  <2>3. ~(ix' > Len(tests) /\ tests # <<>>)
    BY <2>2, NoCaseYet
  <2> QED
    BY <1>3, <2>1, <2>2, <2>3
<1>7. CASE CallRunWithin \/ AssertOutside
  <2>1. pc[Main] \notin EndPlace /\ proc' # "exited" /\ leaving' = leaving
    BY <1>7 DEF CallRunWithin, AssertOutside, InUserCode, EndPlace
  <2> QED
    BY <1>0, <1>2, <2>1
<1>8. CASE RefuseRun
  <2>1. leaving'[Main].how = "trap" /\ proc' = "running"
    BY <1>0, <1>8 DEF RefuseRun, InUserCode
  <2> QED
    BY <1>2, <2>1
<1>9. ASSUME NEW t \in Threads, BailOut(t)
      PROVE  ExitOK'
  <2>1. /\ (proc' = "running" /\ pc[Main] \notin EndPlace) \/ t # Main
        /\ UNCHANGED <<tests, ix, nFailed, outer, proc, status, once>>
    BY <1>9 DEF BailOut, InUserCode, EndPlace
  <2>2. CASE t = Main
    <3>1. leaving'[Main].how \in {"bail", "trap"}
      BY <1>0, <1>9, <2>2 DEF BailOut
    <3>2. proc' = "running"
      BY <1>9 DEF BailOut, InUserCode
    <3> QED
      BY <1>2, <3>1, <3>2
  <2>3. CASE t # Main
    <3>1. leaving'[Main] = leaving[Main]
      BY <1>0, <1>9, <2>3 DEF BailOut
    <3> QED
      BY <1>4, <2>1, <3>1
  <2> QED
    BY <2>2, <2>3
<1>10. ASSUME NEW t \in Threads, EndStep(t)
       PROVE  ExitOK'
  <2>1. CASE DisablePlan(t) \/ SayBailOut(t) \/ UserAtexit(t)
    BY <1>4, <2>1 DEF DisablePlan, SayBailOut, UserAtexit
  <2>2. CASE Abort(t)
    <3>1. proc' = "trapped" /\ UNCHANGED <<tests, ix, nFailed, outer, leaving, once>>
      BY <2>2 DEF Abort
    <3> QED
      BY <3>1 DEF ExitOK
  <2>3. CASE LogEmptyPlan(t)
    <3>1. /\ UNCHANGED <<tests, ix, nFailed, outer, proc, status>>
          /\ once = "done" => once' = "done" /\ leaving' = leaving
          /\ proc = "running"
      BY <2>3 DEF LogEmptyPlan
    <3>2. CASE once = "done"
      BY <1>4, <3>1, <3>2
    <3>3. CASE once # "done"
      <4>1. ~(leaving[Main].how = "exit" /\ ix > Len(tests) /\ tests # <<>>)
        BY <3>3 DEF ExitOK
      <4>2. leaving'[Main].how = leaving[Main].how
        <5> DEFINE new == [leaving[t] EXCEPT !.status = 0]
        <5>1. new.how = leaving[t].how
          BY <1>0 DEF Departure
        <5>2. leaving' = leaving \/ leaving' = [leaving EXCEPT ![t] = new]
          BY <2>3 DEF LogEmptyPlan
        <5> HIDE DEF new
        <5> QED
          BY <1>0, <5>1, <5>2
      <4> QED
        BY <3>1, <4>1, <4>2 DEF ExitOK
    <3> QED
      BY <3>2, <3>3
  <2>4. CASE Exit(t)
    <3>1. /\ UNCHANGED <<tests, ix, nFailed, outer, leaving, once>>
          /\ status' = ExitStatus(leaving[t].status) /\ pc[t] = "exit"
      BY <2>4 DEF Exit
    <3>2. Quitting \/ (t = Main /\ leaving[t].how = "exit")
      <4>1. leaving[t].how \in {"exit", "bail", "trap", "refuse"}
        BY <1>0, <3>1 DEF EndOK, EndPlace, Departure
      <4>2. t # Main => leaving[t].how # "exit"
        BY DEF EndOK, Threads
      <4> QED
        BY <4>1, <4>2 DEF Quitting
    <3> QED
      BY <1>1, <3>1, <3>2 DEF ExitOK
  <2> QED
    BY <1>10, <2>1, <2>2, <2>3, <2>4 DEF EndStep
<1>11. CASE Stop
  BY <1>4, <1>11 DEF Stop, vars
<1> QED
  BY <1>5, <1>6, <1>7, <1>8, <1>9, <1>10, <1>11 DEF Next

LEMMA InitFInv == Init => FInv
<1> SUFFICES ASSUME Init
             PROVE  FailOK /\ ExitOK
  BY InitInv DEF FInv
<1>1. leaving[Main].how = "stay" /\ pc[Main] = "program"
  BY DEF Init, Fresh, Stay, Threads
<1>2. FailOK
  BY <1>1 DEF Init, Fresh, FailOK
<1>3. ExitOK
  BY <1>1 DEF Init, Fresh, ExitOK
<1> QED
  BY <1>2, <1>3

LEMMA StepFInv == FInv /\ [Next]_vars => FInv'
<1> SUFFICES ASSUME FInv, [Next]_vars
             PROVE  FailOK' /\ ExitOK'
  BY StepInv DEF FInv
<1>1. CASE Next
  BY <1>1, FailKept, ExitKept DEF FInv
<1>2. CASE UNCHANGED vars
  BY <1>2 DEF FInv, FailOK, ExitOK, Quitting, vars, inputVars, sharedVars, loopVars,
     nestVars, procVars, output
<1> QED
  BY <1>1, <1>2

LEMMA FInvHolds == Spec => []FInv
BY InitFInv, StepFInv, PTL DEF Spec

(* Fewer than 256 failures survive the narrowing of the exit status: it is  *)
(* zero only where no line said "not ok", and never more than such lines    *)
(* there are (run.c:37-40,58-67).                                           *)
LEMMA StatusTells ==
  ASSUME FInv
  PROVE  StatusTellsFailure
<1> SUFFICES ASSUME Completed, Len(tests) < 256
             PROVE  /\ status = 0 => lines.notOk = 0 \/ again
                    /\ status <= lines.notOk
  BY DEF StatusTellsFailure
<1> USE DEF FInv, IInv
<1>1. /\ ix \in 1..(Len(tests) + 1) /\ Len(tests) \in Nat
      /\ nFailed \in Nat /\ lines.notOk \in Nat /\ again \in BOOLEAN
  <2>1. Len(tests) \in Nat
    BY SuiteAssumption, LenProperties DEF TypeOK
  <2> QED
    BY <2>1 DEF TypeOK
<1>2. status = ExitStatus(nFailed) /\ outer = NoRun
  BY DEF Completed, ExitOK
<1>3. nFailed < 256 /\ nFailed <= lines.notOk
  BY <1>1, <1>2 DEF FailOK
<1>4. status = nFailed
  BY <1>1, <1>2, <1>3 DEF ExitStatus
<1>5. lines.notOk > 0 /\ ~again => nFailed > 0
  <2>1. leaving[Main].how = "exit" /\ ~Quitting
    BY DEF Completed, ExitOK
  <2>2. pc[Main] \notin {"units", "number", "print"}
    BY <2>1 DEF EndOK, EndPlace, Threads
  <2> QED
    BY <2>1, <2>2 DEF FailOK
<1> QED
  BY <1>1, <1>3, <1>4, <1>5

(* The exit status of every completed run of fewer than 256 cases tells     *)
(* whether anything failed.                                                 *)
THEOREM StatusIsHonest == Spec => []StatusTellsFailure
BY StatusTells, FInvHolds, PTL

-----------------------------------------------------------------------------
(* The summary of a complex case.                                           *)

(* How far the subunits of the current case have got: before a subunit,     *)
(* in its body, and with its line to be written.                            *)
Between(u, v, e, s) ==
  /\ s <= e /\ e < u
  /\ v # "FAIL" => e = u - 1
  /\ v \in {"PASS", "FAIL"} => s < e
  /\ v = "INVALID" => e = 0
InBody(u, e, s) == s <= e /\ e = u - 1
OnLine(u, v, e, s) == s < e /\ e <= u /\ (v # "FAIL" => e = u) /\ v # "INVALID"

UnitsOK ==
  /\ pc[Main] \in {"program", "plan", "planning", "next"} => nSkipped = 0
  /\ pc[Main] \in {"body", "dispose"} /\ unit = 0 => nSkipped = 0
  /\ pc[Main] = "dispose" => ~tests[ix].complex
  /\ outer # NoRun /\ outer.back = "dispose" => ~tests[outer.ix].complex
  /\ pc[Main] = "units" => Between(unit, verdict, executed, nSkipped)
                           /\ unit <= tests[ix].units + 1
  /\ pc[Main] = "body" /\ unit > 0 => InBody(unit, executed, nSkipped)
  /\ pc[Main] \in {"number", "print"} /\ unit > 0 => OnLine(unit, verdict, executed, nSkipped)
  /\ outer # NoRun /\ outer.unit > 0 => InBody(outer.unit, outer.executed, outer.nSkipped)
  /\ outer # NoRun /\ outer.unit = 0 => outer.nSkipped = 0
  /\ SummaryHonest

LEMMA UnitsRun ==
  ASSUME IInv, UnitsOK, RunStep
  PROVE  UnitsOK'
<1> USE DEF IInv, loopVars, nestVars, output, inputVars, procVars, At, test
<1>0. /\ \A place : Goto(Main, place) => pc'[Main] = place
      /\ \A code : CallExit(Main, code) => pc'[Main] = "exiting"
      /\ nSkipped \in Nat /\ executed \in Nat /\ unit \in Nat /\ verdict \in Verdict
      /\ outer # NoRun =>
           /\ outer.back \in {"body", "dispose"}
           /\ outer.unit \in Nat /\ outer.executed \in Nat /\ outer.nSkipped \in Nat
  BY GotoMain DEF CallExit, TypeOK, WaitingRun
<1>1. ASSUME ix \in 1..Len(tests)
      PROVE  tests[ix].units \in Nat /\ tests[ix].complex \in BOOLEAN
  <2>1. tests[ix] \in Test
    BY <1>1, SuiteAssumption, ElementOfSeq DEF TypeOK
  <2> QED
    BY <2>1 DEF Test
<1>2. CASE CallRun \/ EnterPlan \/ PrintPlan
  <2>1. /\ pc'[Main] \in {"plan", "planning", "next", "exiting"}
        /\ pc[Main] \in {"program", "plan", "planning"}
        /\ UNCHANGED <<nSkipped, executed, unit, verdict, outer, tests, ix>>
    <3>1. PrintPlan => pc'[Main] \in {"next", "exiting"}
      BY <1>0 DEF PrintPlan
    <3> QED
      BY <1>0, <1>2, <3>1 DEF CallRun, EnterPlan, PrintPlan
  <2> QED
    BY <2>1 DEF UnitsOK, SummaryHonest
<1>3. CASE PassTest \/ ListPath
  <2>1. /\ pc[Main] = "next"
        /\ UNCHANGED <<pc, nSkipped, executed, unit, verdict, outer, tests>>
    BY <1>3 DEF PassTest, ListPath, AtTest
  <2> QED
    BY <2>1 DEF UnitsOK, SummaryHonest
<1>4. CASE RunTest
  <2>1. /\ pc[Main] = "next" /\ unit = 0 /\ verdict = "INVALID" /\ ix \in 1..Len(tests)
        /\ executed' = 0 /\ UNCHANGED <<nSkipped, outer, tests, ix>>
    BY <1>4 DEF RunTest, AtTest, RunOK, TypeOK
  <2>2. \/ pc'[Main] \in {"number", "body", "next"} /\ unit' = 0
        \/ pc'[Main] = "units" /\ unit' = 1 /\ verdict' = "INVALID"
    BY <1>0, <1>4, <2>1 DEF RunTest, ExecInner
  <2>3. tests[ix].units \in Nat
    BY <1>1, <2>1
  <2> QED
    BY <2>1, <2>2, <2>3 DEF UnitsOK, SummaryHonest, Between
<1>5. CASE NextUnit
  <2>1. /\ pc[Main] = "units" /\ unit > 0
        /\ UNCHANGED <<nSkipped, executed, unit, verdict, outer, tests, ix>>
        /\ \/ verdict = "FAIL" /\ pc'[Main] = "number"
           \/ verdict # "FAIL" /\ pc'[Main] = "body"
           \/ pc' = pc /\ proc' # "running"
    BY <1>0, <1>5 DEF NextUnit, ExecInner, RunOK
  <2> QED
    BY <1>0, <2>1 DEF UnitsOK, SummaryHonest, Between, InBody, OnLine
<1>6. CASE Body
  <2>1. /\ pc[Main] = "body" /\ executed' = executed + 1
        /\ UNCHANGED <<nSkipped, unit, outer, tests, ix>>
        /\ pc'[Main] = IF unit = 0 THEN "dispose" ELSE "number"
        /\ verdict' # "INVALID"
        /\ unit = 0 => ~tests[ix].complex
    BY <1>0, <1>6, SuiteAssumption DEF Body, RunOK
  <2> QED
    BY <1>0, <2>1 DEF UnitsOK, SummaryHonest, InBody, OnLine
<1>7. CASE Dispose
  <2>1. /\ pc[Main] = "dispose" /\ unit = 0 /\ pc'[Main] = "number"
        /\ UNCHANGED <<nSkipped, executed, unit, verdict, outer, tests, ix>>
        /\ ~tests[ix].complex
    BY <1>0, <1>7 DEF Dispose, RunOK, UnitsOK
  <2> QED
    BY <2>1 DEF UnitsOK, SummaryHonest
<1>8. CASE AfterUnits
  <2>1. /\ pc[Main] = "units" /\ unit > tests[ix].units /\ unit' = 0
        /\ verdict' = Summary /\ pc'[Main] = "number"
        /\ UNCHANGED <<nSkipped, executed, outer, tests, ix>>
        /\ ix \in 1..Len(tests)
    BY <1>0, <1>8 DEF AfterUnits, RunOK, InTest, TypeOK
  <2>2. tests[ix].units \in Nat /\ Between(unit, verdict, executed, nSkipped)
        /\ unit = tests[ix].units + 1
    BY <1>0, <1>1, <2>1 DEF UnitsOK
  <2>3. executed > 0 =>
          /\ Summary = "SKIP" <=> executed = nSkipped
          /\ executed < tests[ix].units => Summary = "FAIL"
    BY <1>0, <2>2 DEF Summary, Between, Verdict
  <2> QED
    BY <2>1, <2>3 DEF UnitsOK, SummaryHonest
<1>9. CASE NumberResult
  <2>1. /\ pc[Main] = "number" /\ pc'[Main] = "print"
        /\ UNCHANGED <<nSkipped, executed, unit, verdict, outer, tests, ix>>
    BY <1>0, <1>9 DEF NumberResult
  <2> QED
    BY <2>1 DEF UnitsOK, SummaryHonest
<1>10. CASE PrintUnit
  <2>1. /\ pc[Main] = "print" /\ pc'[Main] = "units" /\ unit > 0 /\ unit' = unit + 1
        /\ nSkipped' = IF verdict = "SKIP" THEN nSkipped + 1 ELSE nSkipped
        /\ UNCHANGED <<executed, verdict, outer, tests, ix>>
        /\ unit <= tests[ix].units /\ ix \in 1..Len(tests)
    BY <1>0, <1>10 DEF PrintUnit, RunOK, InTest, TypeOK
  <2>2. tests[ix].units \in Nat
    BY <1>1, <2>1
  <2>3. Between(unit', verdict', executed', nSkipped')
    BY <1>0, <2>1 DEF UnitsOK, OnLine, Between
  <2> QED
    BY <1>0, <2>1, <2>2, <2>3 DEF UnitsOK, SummaryHonest
<1>11. CASE PrintResult
  <2>1. pc'[Main] = "next" /\ nSkipped' = 0 /\ UNCHANGED <<outer, tests>>
    BY <1>0, <1>11 DEF PrintResult
  <2> QED
    BY <2>1 DEF UnitsOK, SummaryHonest
<1>12. CASE ReturnFromRun
  <2>1. CASE outer = NoRun
    <3>1. pc'[Main] = "exiting" /\ UNCHANGED outer
      BY <1>0, <1>12, <2>1 DEF ReturnFromRun
    <3> QED
      BY <2>1, <3>1 DEF UnitsOK, SummaryHonest
  <2>2. CASE outer # NoRun
    <3>1. /\ pc'[Main] = outer.back /\ unit' = outer.unit /\ outer' = NoRun
          /\ nSkipped' = outer.nSkipped /\ executed' = outer.executed
          /\ ix' = outer.ix /\ tests' = tests
      BY <1>0, <1>12, <2>2 DEF ReturnFromRun
    <3> QED
      BY <1>0, <2>2, <3>1 DEF UnitsOK, SummaryHonest
  <2> QED
    BY <2>1, <2>2
<1> QED
  BY <1>2, <1>3, <1>4, <1>5, <1>6, <1>7, <1>8, <1>9, <1>10, <1>11, <1>12 DEF RunStep

LEMMA UnitsKept ==
  ASSUME IInv, UnitsOK, Next
  PROVE  UnitsOK'
<1> USE DEF IInv, loopVars, nestVars, output, inputVars, procVars, At, test
<1>1. ASSUME UNCHANGED <<tests, ix, nSkipped, executed, outer, unit, verdict>>,
             pc'[Main] = pc[Main] \/ pc'[Main] \in EndPlace,
             proc' = "running" => proc = "running"
      PROVE  UnitsOK'
  BY <1>1 DEF UnitsOK, SummaryHonest, EndPlace
<1>2. CASE RunStep
  BY <1>2, UnitsRun
<1>3. CASE EndProgram \/ RefuseRun
  <2>1. pc'[Main] \in {"exiting", "bail"}
    BY <1>3, GotoMain DEF EndProgram, CallExit, RefuseRun
  <2> QED
    BY <1>1, <1>3, <2>1 DEF EndProgram, RefuseRun, EndPlace
<1>4. CASE CallRunWithin
  <2>1. /\ pc'[Main] = "plan" /\ nSkipped' = 0 /\ pc[Main] \in {"body", "dispose"}
        /\ outer'.unit = unit /\ outer'.executed = executed /\ outer'.nSkipped = nSkipped
        /\ outer'.back = pc[Main] /\ outer'.ix = ix /\ tests' = tests
    BY <1>4, GotoMain DEF CallRunWithin, InUserCode
  <2> QED
    BY <2>1 DEF UnitsOK, SummaryHonest, RunOK
<1>5. CASE AssertOutside
  BY <1>1, <1>5 DEF AssertOutside
<1>6. ASSUME NEW t \in Threads, BailOut(t)
      PROVE  UnitsOK'
  <2>1. pc'[Main] = pc[Main] \/ pc'[Main] = "bail"
    BY <1>6 DEF BailOut, Goto, TypeOK, Threads
  <2> QED
    BY <1>1, <1>6, <2>1 DEF BailOut, EndPlace
<1>7. ASSUME NEW t \in Threads, EndStep(t)
      PROVE  UnitsOK'
  <2>1. pc' = pc \/ \E place \in EndPlace : Goto(t, place)
    BY <1>7 DEF EndStep, DisablePlan, SayBailOut, Abort, UserAtexit, LogEmptyPlan, Exit, EndPlace
  <2>2. pc'[Main] = pc[Main] \/ pc'[Main] \in EndPlace
    BY <2>1 DEF Goto, TypeOK, Threads
  <2>3. UNCHANGED <<tests, ix, nSkipped, executed, outer, unit, verdict>>
    BY <1>7 DEF EndStep, DisablePlan, SayBailOut, Abort, UserAtexit, LogEmptyPlan, Exit
  <2>4. proc = "running"
    BY <1>7 DEF EndStep, DisablePlan, SayBailOut, Abort, UserAtexit, LogEmptyPlan, Exit
  <2> QED
    BY <1>1, <2>2, <2>3, <2>4
<1>8. CASE Stop
  BY <1>1, <1>8 DEF Stop, vars
<1> QED
  BY <1>2, <1>3, <1>4, <1>5, <1>6, <1>7, <1>8 DEF Next

LEMMA InitUnits == Init => UnitsOK
<1> SUFFICES ASSUME Init
             PROVE  UnitsOK
  OBVIOUS
<1>1. pc[Main] = "program"
  BY DEF Init, Threads
<1> QED
  BY <1>1 DEF Init, Fresh, UnitsOK, SummaryHonest, At

LEMMA StepUnits == IInv /\ UnitsOK /\ [Next]_vars => UnitsOK'
<1> SUFFICES ASSUME IInv, UnitsOK, [Next]_vars
             PROVE  UnitsOK'
  OBVIOUS
<1>1. CASE Next
  BY <1>1, UnitsKept
<1>2. CASE UNCHANGED vars
  BY <1>2 DEF UnitsOK, SummaryHonest, At, test, vars, inputVars, loopVars, nestVars, procVars
<1> QED
  BY <1>1, <1>2

(* A complex case is reported as skipped just when each of its subunits     *)
(* was, and as failed whenever one was not executed, wherever in it a run   *)
(* has been started within the run (complex.c:110-154).                     *)
THEOREM SummaryIsHonest == Spec => []SummaryHonest
<1>1. UnitsOK => SummaryHonest
  BY DEF UnitsOK
<1> QED
  BY <1>1, InitUnits, StepUnits, InitInv, StepInv, PTL DEF Spec

-----------------------------------------------------------------------------
(* The plan.                                                                *)

(* The suites the count is right for. *)
Plannable ==
  \A i \in DOMAIN tests : tests[i].excluded => ~(tests[i].complex \/ again)

AllLines == UNION {LinesOf(tests, i) : i \in DOMAIN tests}

(* The cases a run has passed or another has dealt with, but for those that *)
(* are under way.                                                           *)
Finished ==
  {i \in 1..Len(tests) :
     /\ i < ix \/ i \in done
     /\ ~(i = ix /\ pc[Main] \in InTest)
     /\ ~(outer # NoRun /\ i = outer.ix)}

(* Line k of case i has been written: the case is finished, or its line is  *)
(* before the one that is next in this run, or in the one that waits.       *)
Behind(i, k) ==
  \/ i \in Finished
  \/ /\ i = ix /\ pc[Main] \in InTest
     /\ k < IF unit > 0 THEN unit ELSE Lines(tests[ix])
  \/ outer # NoRun /\ i = outer.ix /\ k < outer.unit

LinesWritten == {p \in AllLines : Behind(p[1], p[2])}

(* The cases that have been passed are done, or were left out. *)
DoneOK ==
  /\ ~listOnly => \A i \in 1..Len(tests) :
       i < ix => i \in done \/ tests[i].excluded \/ (outer # NoRun /\ i = outer.ix)
  /\ outer # NoRun => \A i \in 1..Len(tests) :
                        i < outer.ix => i \in done \/ tests[i].excluded
  /\ pc[Main] \in {"number", "print"} /\ unit = 0 => ix \in done \/ tests[ix].excluded
  /\ outer # NoRun => again

(* A run does not deal with a case that is under way in the one that waits. *)
ApartOK ==
  Plannable /\ outer # NoRun =>
    /\ pc[Main] \in {"body", "dispose", "number", "print"} => ix # outer.ix
    /\ pc[Main] = "units" /\ outer.back = "dispose" => ix # outer.ix

(* The plan is that of the suite until the exit handler writes another. *)
PlanRight ==
  plans # <<>> /\ pc[Main] \notin EndPlace => plans[1] = PlanSize(tests)

(* What has been written is what is behind the run. *)
LinesCounted ==
  Plannable /\ ~listOnly /\ pc[Main] \in MainPlace =>
    /\ Written = Cardinality(LinesWritten)
    /\ testCount = IF pc[Main] = "print" THEN Written + 1 ELSE Written

(* At the end of the run that is all of it. *)
AllCounted ==
  /\ leaving[Main].how = "exit" /\ ix > Len(tests) /\ tests # <<>>
  /\ Plannable /\ ~listOnly
  => /\ Written = PlanSize(tests) /\ testCount = Written
     /\ plans # <<>> => plans[1] = PlanSize(tests)

PInv ==
  /\ FInv /\ UnitsOK /\ DoneOK /\ ApartOK
  /\ PlanRight /\ LinesCounted /\ AllCounted

-----------------------------------------------------------------------------
(* Lines.                                                                   *)

LEMMA CaseTypes ==
  ASSUME TypeOK
  PROVE  /\ Len(tests) \in Nat /\ DOMAIN tests = 1..Len(tests)
         /\ \A i \in 1..Len(tests) :
              /\ tests[i].units \in Nat /\ tests[i].complex \in BOOLEAN
              /\ Lines(tests[i]) \in Nat /\ Lines(tests[i]) > 0
              /\ ~tests[i].complex => Lines(tests[i]) = 1
              /\ tests[i].complex => Lines(tests[i]) = tests[i].units + 1
<1>1. tests \in Seq(Test)
  BY SuiteAssumption DEF TypeOK
<1>2. \A i \in 1..Len(tests) : tests[i] \in Test
  BY <1>1, ElementOfSeq
<1>3. \A i \in 1..Len(tests) : tests[i].units \in Nat /\ tests[i].complex \in BOOLEAN
  BY <1>2 DEF Test
<1> QED
  BY <1>1, <1>3, LenProperties DEF Lines

LEMMA LineOfCase ==
  ASSUME TypeOK
  PROVE  /\ \A p \in AllLines : /\ p[1] \in 1..Len(tests) /\ p[2] \in 1..Lines(tests[p[1]])
                                /\ p = <<p[1], p[2]>>
         /\ \A i \in 1..Len(tests) : \A k \in 1..Lines(tests[i]) : <<i, k>> \in AllLines
<1>1. DOMAIN tests = 1..Len(tests)
  BY CaseTypes
<1>2. ASSUME NEW p \in AllLines
      PROVE  /\ p[1] \in 1..Len(tests) /\ p[2] \in 1..Lines(tests[p[1]])
             /\ p = <<p[1], p[2]>>
  <2>1. PICK i \in DOMAIN tests : p \in LinesOf(tests, i)
    BY <1>2 DEF AllLines
  <2>2. p \in {i} \X (1..Lines(tests[i]))
    BY <2>1 DEF LinesOf
  <2> QED
    BY <1>1, <2>1, <2>2
<1>3. ASSUME NEW i \in 1..Len(tests), NEW k \in 1..Lines(tests[i])
      PROVE  <<i, k>> \in AllLines
  <2>1. <<i, k>> \in LinesOf(tests, i)
    BY DEF LinesOf
  <2> QED
    BY <1>1, <2>1 DEF AllLines
<1> QED
  BY <1>2, <1>3

LEMMA FiniteLines ==
  ASSUME TypeOK
  PROVE  IsFiniteSet(AllLines) /\ IsFiniteSet(LinesWritten)
<1>1. IsFiniteSet(AllLines)
  BY SuiteAssumption, LinesFinite DEF AllLines, TypeOK
<1>2. LinesWritten \subseteq AllLines
  BY DEF LinesWritten
<1> QED
  BY <1>1, <1>2, FS_Subset

(* A step that writes nothing. *)
LEMMA SameLines ==
  ASSUME TypeOK, tests' = tests,
         \A i \in 1..Len(tests) : \A k \in 1..Lines(tests[i]) : Behind(i, k)' <=> Behind(i, k)
  PROVE  LinesWritten' = LinesWritten
<1>1. AllLines' = AllLines
  BY DEF AllLines, LinesOf
<1>2. \A p \in AllLines : Behind(p[1], p[2])' <=> Behind(p[1], p[2])
  BY LineOfCase
<1> QED
  BY <1>1, <1>2 DEF LinesWritten

(* A step that writes a line. *)
LEMMA OneMoreLine ==
  ASSUME TypeOK, tests' = tests, NEW j \in 1..Len(tests), NEW n \in 1..Lines(tests[j]),
         ~Behind(j, n),
         \A i \in 1..Len(tests) : \A k \in 1..Lines(tests[i]) :
           Behind(i, k)' <=> (Behind(i, k) \/ (i = j /\ k = n))
  PROVE  Cardinality(LinesWritten') = Cardinality(LinesWritten) + 1
<1>1. AllLines' = AllLines
  BY DEF AllLines, LinesOf
<1>2. \A p \in AllLines : Behind(p[1], p[2])' <=> (Behind(p[1], p[2]) \/ p = <<j, n>>)
  BY LineOfCase
<1>3. <<j, n>> \in AllLines
  BY LineOfCase
<1>4. LinesWritten' = LinesWritten \cup {<<j, n>>}
  BY <1>1, <1>2, <1>3 DEF LinesWritten
<1>5. <<j, n>> \notin LinesWritten
  BY DEF LinesWritten
<1> QED
  BY <1>4, <1>5, FiniteLines, FS_AddElement

-----------------------------------------------------------------------------
(* The cases that have been passed.                                         *)

LEMMA DoneRun ==
  ASSUME IInv, DoneOK, RunStep
  PROVE  DoneOK'
<1> USE DEF IInv, loopVars, nestVars, inputVars, At, test
<1>0. /\ \A place : Goto(Main, place) => pc'[Main] = place
      /\ \A code : CallExit(Main, code) => pc'[Main] = "exiting"
      /\ outer # NoRun => outer.back \in {"body", "dispose"}
  BY GotoMain DEF CallExit, TypeOK, WaitingRun
<1>a. \A j \in Nat : \A n \in Nat : \A i \in 1..n : i < j + 1 => i < j \/ i = j
  OBVIOUS
<1>b. Len(tests) \in Nat
  BY CaseTypes
<1>c. ix \in Nat
  BY <1>b DEF TypeOK
<1>1. ASSUME UNCHANGED <<tests, listOnly, ix, outer, again>>, done \subseteq done',
             pc'[Main] \in {"number", "print"} /\ unit' = 0 => ix \in done' \/ tests[ix].excluded
      PROVE  DoneOK'
  BY <1>1 DEF DoneOK
<1>2. CASE CallRun \/ EnterPlan \/ PrintPlan
  <2>1. PrintPlan => pc'[Main] \in {"next", "exiting"}
    BY <1>0 DEF PrintPlan
  <2>2. pc'[Main] \notin {"number", "print"}
    BY <1>0, <1>2, <2>1 DEF CallRun, EnterPlan, PrintPlan
  <2> QED
    BY <1>1, <1>2, <2>2 DEF CallRun, EnterPlan, PrintPlan
<1>3. CASE PassTest \/ ListPath
  <2>1. /\ pc' = pc /\ pc[Main] = "next" /\ ix' = ix + 1 /\ (ix \in done \/ listOnly)
        /\ UNCHANGED <<tests, listOnly, outer, again, done>>
    BY <1>3 DEF PassTest, ListPath, AtTest
  <2>2. \A i \in 1..Len(tests) : i < ix' => i < ix \/ i = ix
    BY <1>a, <1>b, <1>c, <2>1
  <2> QED
    BY <2>1, <2>2 DEF DoneOK
<1>4. CASE RunTest
  <2>1. \/ tests[ix].excluded
        \/ pc'[Main] \in {"body", "units"} \/ pc' = pc
    BY <1>0, <1>4 DEF RunTest, ExecInner
  <2> QED
    BY <1>1, <1>4, <2>1 DEF RunTest, AtTest
<1>5. CASE NextUnit
  <2>1. unit # 0
    BY <1>5 DEF NextUnit, RunOK
  <2> QED
    BY <1>1, <1>5, <2>1 DEF NextUnit
<1>6. CASE Body
  <2>1. \/ unit # 0 /\ unit' = unit
        \/ pc'[Main] = "dispose"
    BY <1>0, <1>6 DEF Body
  <2> QED
    BY <1>1, <1>6, <2>1 DEF Body
<1>7. CASE Dispose
  BY <1>1, <1>7 DEF Dispose, RunOK
<1>8. CASE AfterUnits
  BY <1>1, <1>8 DEF AfterUnits
<1>9. CASE NumberResult
  BY <1>1, <1>9 DEF NumberResult, DoneOK
<1>10. CASE PrintUnit
  BY <1>0, <1>1, <1>10 DEF PrintUnit
<1>11. CASE PrintResult
  <2>1. /\ pc'[Main] = "next" /\ ix' = ix + 1
        /\ (ix \in done \/ tests[ix].excluded)
        /\ UNCHANGED <<tests, listOnly, outer, again, done>>
    BY <1>0, <1>11 DEF PrintResult, DoneOK
  <2>2. \A i \in 1..Len(tests) : i < ix' => i < ix \/ i = ix
    BY <1>a, <1>b, <1>c, <2>1
  <2> QED
    BY <2>1, <2>2 DEF DoneOK
<1>12. CASE ReturnFromRun
  <2>1. CASE outer = NoRun
    BY <1>0, <1>1, <1>12, <2>1 DEF ReturnFromRun
  <2>2. CASE outer # NoRun
    <3>1. /\ pc'[Main] = outer.back /\ ix' = outer.ix /\ outer' = NoRun
          /\ UNCHANGED <<tests, listOnly, again, done>>
      BY <1>0, <1>12, <2>2 DEF ReturnFromRun
    <3> QED
      BY <1>0, <2>2, <3>1 DEF DoneOK
  <2> QED
    BY <2>1, <2>2
<1> QED
  BY <1>2, <1>3, <1>4, <1>5, <1>6, <1>7, <1>8, <1>9, <1>10, <1>11, <1>12 DEF RunStep

(* Those who end the process do not touch the run. *)
LEMMA EndersLeaveRun ==
  ASSUME TypeOK, NEW t \in Threads, BailOut(t) \/ EndStep(t)
  PROVE  /\ UNCHANGED <<inputVars, loopVars, done, nestVars, lines, testCount>>
         /\ pc'[Main] = pc[Main] \/ pc'[Main] \in EndPlace
         /\ pc[Main] \in EndPlace => pc'[Main] \in EndPlace
         /\ proc = "running"
<1>1. \/ pc' = pc
      \/ \E place \in EndPlace : Goto(t, place)
  BY DEF BailOut, EndStep, DisablePlan, SayBailOut, Abort, UserAtexit, LogEmptyPlan, Exit, EndPlace
<1>2. pc'[Main] = pc[Main] \/ pc'[Main] \in EndPlace
  BY <1>1 DEF Goto, TypeOK, Threads
<1>3. UNCHANGED <<inputVars, loopVars, done, nestVars>> /\ proc = "running"
  BY DEF BailOut, InUserCode, EndStep, DisablePlan, SayBailOut, Abort, UserAtexit, LogEmptyPlan,
     Exit, At
<1>4. UNCHANGED <<lines, testCount>>
  BY DEF BailOut, EndStep, DisablePlan, SayBailOut, Abort, UserAtexit, LogEmptyPlan, Exit, output
<1> QED
  BY <1>2, <1>3, <1>4

LEMMA DoneKept ==
  ASSUME IInv, DoneOK, Next
  PROVE  DoneOK'
<1> USE DEF IInv, loopVars, nestVars, inputVars, At
<1>1. ASSUME UNCHANGED <<tests, listOnly, ix, outer, again, done, unit>>,
             pc'[Main] = pc[Main] \/ pc'[Main] \in EndPlace
      PROVE  DoneOK'
  BY <1>1 DEF DoneOK, EndPlace
<1>2. CASE RunStep
  BY <1>2, DoneRun
<1>3. CASE EndProgram \/ RefuseRun
  <2>1. pc'[Main] \in {"exiting", "bail"}
    BY <1>3, GotoMain DEF EndProgram, CallExit, RefuseRun
  <2> QED
    BY <1>1, <1>3, <2>1 DEF EndProgram, RefuseRun, EndPlace
<1>4. CASE CallRunWithin
  <2>1. /\ pc'[Main] = "plan" /\ ix' = 1 /\ outer'.ix = ix /\ again' /\ outer = NoRun
        /\ UNCHANGED <<tests, listOnly, done>> /\ pc[Main] \in InTest
    BY <1>4, GotoMain DEF CallRunWithin, InUserCode, InTest
  <2>2. ~listOnly
    BY <2>1 DEF PlanOK
  <2>3. \A i \in 1..Len(tests) : ~(i < 1)
    BY CaseTypes
  <2> QED
    BY <2>1, <2>2, <2>3 DEF DoneOK
<1>5. CASE AssertOutside
  BY <1>1, <1>5 DEF AssertOutside
<1>6. ASSUME NEW t \in Threads, BailOut(t) \/ EndStep(t)
      PROVE  DoneOK'
  BY <1>1, <1>6, EndersLeaveRun
<1>7. CASE Stop
  BY <1>1, <1>7 DEF Stop, vars
<1> QED
  BY <1>2, <1>3, <1>4, <1>5, <1>6, <1>7 DEF Next

LEMMA NoneLeftOut ==
  ASSUME TypeOK, Plannable, again
  PROVE  \A i \in 1..Len(tests) : ~tests[i].excluded
BY CaseTypes DEF Plannable

LEMMA ApartKept ==
  ASSUME IInv, DoneOK, ApartOK, Next
  PROVE  ApartOK'
<1> USE DEF IInv, loopVars, nestVars, inputVars, At, test
<1>0. /\ \A place : Goto(Main, place) => pc'[Main] = place
      /\ \A code : CallExit(Main, code) => pc'[Main] = "exiting"
      /\ unit \in Nat
      /\ outer # NoRun => /\ outer.ix \in 1..Len(tests) /\ outer.unit \in Nat
                          /\ outer.back \in {"body", "dispose"}
  BY GotoMain, CaseTypes DEF CallExit, TypeOK, WaitingRun, WaitingOK
<1>1. ASSUME UNCHANGED <<tests, ix, outer, again>>,
             Plannable /\ outer # NoRun =>
               /\ pc'[Main] \in {"body", "dispose", "number", "print"} => ix # outer.ix
               /\ pc'[Main] = "units" /\ outer.back = "dispose" => ix # outer.ix
      PROVE  ApartOK'
  BY <1>1 DEF ApartOK, Plannable
<1>2. ASSUME pc'[Main] \notin {"body", "dispose", "number", "print", "units"}
      PROVE  ApartOK'
  BY <1>2 DEF ApartOK
<1>3. CASE CallRun \/ EnterPlan \/ PrintPlan
  <2>1. PrintPlan => pc'[Main] \in {"next", "exiting"}
    BY <1>0 DEF PrintPlan
  <2> QED
    BY <1>0, <1>2, <1>3, <2>1 DEF CallRun, EnterPlan
<1>4. CASE PassTest \/ ListPath \/ PrintResult
  BY <1>0, <1>2, <1>4 DEF PassTest, ListPath, AtTest, PrintResult
<1>5. CASE RunTest
  <2>1. /\ ix \in 1..Len(tests) /\ ix \notin done /\ UNCHANGED <<tests, ix, outer, again>>
        /\ pc[Main] = "next"
    BY <1>5 DEF RunTest, AtTest, TypeOK
  <2>2. ASSUME Plannable, outer # NoRun
        PROVE  ~tests[ix].excluded
    BY <2>1, <2>2, NoneLeftOut DEF DoneOK
  <2>3. outer # NoRun /\ outer.back = "dispose" => ix # outer.ix
    BY <2>1 DEF WaitingOK
  <2>4. ~tests[ix].excluded /\ outer # NoRun /\ outer.back = "body" =>
          pc'[Main] = "units" \/ pc' = pc
    BY <1>0, <1>5 DEF RunTest, ExecInner
  <2> QED
    BY <1>0, <1>1, <2>1, <2>2, <2>3, <2>4
<1>6. CASE NextUnit
  <2>1. pc[Main] = "units" /\ UNCHANGED <<tests, ix, outer, again>>
    BY <1>6 DEF NextUnit
  <2>2. outer # NoRun /\ outer.back = "body" => pc' = pc
    BY <1>6 DEF NextUnit, ExecInner, WaitingOK, RunOK
  <2> QED
    BY <1>0, <1>1, <2>1, <2>2 DEF ApartOK
<1>7. CASE Body \/ Dispose \/ NumberResult \/ PrintUnit
  <2>1. /\ pc[Main] \in {"body", "dispose", "number", "print"}
        /\ UNCHANGED <<tests, ix, outer, again>>
    BY <1>7 DEF Body, Dispose, NumberResult, PrintUnit
  <2> QED
    BY <1>1, <2>1 DEF ApartOK
<1>8. CASE AfterUnits
  <2>1. /\ pc[Main] = "units" /\ tests[ix].complex /\ unit > tests[ix].units
        /\ ix \in 1..Len(tests) /\ UNCHANGED <<tests, ix, outer, again>>
    BY <1>8 DEF AfterUnits, RunOK, InTest, TypeOK
  <2>2. CASE outer # NoRun /\ outer.back = "body" /\ outer.ix = ix
    <3>1. unit = 1 /\ outer.unit > 0 /\ outer.unit <= tests[ix].units
      BY <1>0, <2>1, <2>2 DEF WaitingOK
    <3>2. tests[ix].units \in Nat
      BY <2>1, CaseTypes
    <3> QED
      BY <1>0, <2>1, <2>2, <3>1, <3>2
  <2> QED
    BY <1>0, <1>1, <2>1, <2>2 DEF ApartOK
<1>9. CASE ReturnFromRun
  <2>1. outer' = NoRun
    BY <1>9 DEF ReturnFromRun
  <2> QED
    BY <2>1 DEF ApartOK
<1>10. CASE EndProgram \/ RefuseRun \/ CallRunWithin
  BY <1>0, <1>2, <1>10 DEF EndProgram, CallExit, RefuseRun, CallRunWithin
<1>11. ASSUME NEW t \in Threads, BailOut(t) \/ EndStep(t)
       PROVE  ApartOK'
  <2>1. /\ pc'[Main] = pc[Main] \/ pc'[Main] \in EndPlace
        /\ UNCHANGED <<tests, ix, outer, again>>
    BY <1>11, EndersLeaveRun
  <2> QED
    BY <1>1, <1>2, <2>1 DEF ApartOK, EndPlace
<1>12. CASE AssertOutside \/ Stop
  BY <1>1, <1>12 DEF AssertOutside, Stop, vars, ApartOK
<1> QED
  BY <1>3, <1>4, <1>5, <1>6, <1>7, <1>8, <1>9, <1>10, <1>11, <1>12 DEF Next, RunStep

-----------------------------------------------------------------------------
(* The lines that have been written.                                        *)

(* Whoever is not the main thread writes no plan. *)
LEMMA EndersPlan ==
  ASSUME IInv, NEW t \in Threads, BailOut(t) \/ EndStep(t), plans' # plans
  PROVE  once = "open" /\ t = Main /\ pc[Main] = "atexit" /\ pc'[Main] = "exit"
<1>1. LogEmptyPlan(t) /\ once = "open"
  BY DEF BailOut, EndStep, DisablePlan, SayBailOut, Abort, UserAtexit, LogEmptyPlan, Exit, output,
         procVars
<1>2. pc[t] = "atexit" /\ pc' = [pc EXCEPT ![t] = "exit"]
  BY <1>1 DEF LogEmptyPlan, At, Goto
<1>3. t = Main
  BY <1>1, <1>2 DEF IInv, EndOK, Threads
<1> QED
  BY <1>1, <1>2, <1>3 DEF IInv, TypeOK

LEMMA MainMoves ==
  ASSUME RunStep \/ EndProgram \/ CallRunWithin \/ RefuseRun \/ AssertOutside
  PROVE  pc[Main] \in MainPlace /\ pc[Main] \notin EndPlace
BY DEF RunStep, EndProgram, CallRunWithin, RefuseRun, AssertOutside, CallRun, EnterPlan, PrintPlan,
       PassTest, ListPath, RunTest, NextUnit, Body, Dispose, AfterUnits, NumberResult, PrintUnit,
       PrintResult, ReturnFromRun, AtTest, InUserCode, At, MainPlace, EndPlace

LEMMA PlanRightKept ==
  ASSUME IInv, PlanRight, Next
  PROVE  PlanRight'
<1>1. ASSUME UNCHANGED <<tests, plans>>, pc[Main] \in EndPlace => pc'[Main] \in EndPlace
      PROVE  PlanRight'
  BY <1>1 DEF PlanRight
<1>2. CASE PrintPlan
  <2>1. plans = <<>>
    BY <1>2 DEF PrintPlan, At, IInv, PlanOK
  <2>2. plans' = <<PlanSize(tests)>> /\ tests' = tests
    BY <1>2, <2>1 DEF PrintPlan, inputVars
  <2> QED
    BY <2>2 DEF PlanRight
<1>3. CASE (RunStep /\ ~PrintPlan) \/ EndProgram \/ CallRunWithin \/ RefuseRun \/ AssertOutside
  <2>1. pc[Main] \notin EndPlace
    BY <1>3, MainMoves
  <2>2. CASE \/ CallRun \/ EnterPlan \/ PassTest \/ ListPath \/ RunTest \/ NextUnit \/ Body
             \/ Dispose \/ AfterUnits
    BY <1>1, <2>1, <2>2 DEF CallRun, EnterPlan, PassTest, ListPath, RunTest, NextUnit, Body,
         Dispose, AfterUnits, inputVars, output
  <2>3. CASE NumberResult \/ PrintUnit \/ PrintResult \/ ReturnFromRun
    BY <1>1, <2>1, <2>3 DEF NumberResult, PrintUnit, PrintResult, ReturnFromRun, inputVars, output
  <2>4. CASE EndProgram \/ CallRunWithin \/ RefuseRun \/ AssertOutside
    BY <1>1, <2>1, <2>4 DEF EndProgram, CallRunWithin, RefuseRun, AssertOutside, inputVars, output
  <2> QED
    BY <1>3, <2>2, <2>3, <2>4 DEF RunStep
<1>4. ASSUME NEW t \in Threads, BailOut(t) \/ EndStep(t)
      PROVE  PlanRight'
  <2>1. /\ tests' = tests
        /\ pc[Main] \in EndPlace => pc'[Main] \in EndPlace
    BY <1>4, EndersLeaveRun DEF inputVars, IInv
  <2>2. CASE plans' = plans
    BY <1>1, <2>1, <2>2
  <2>3. CASE plans' # plans
    BY <1>4, <2>3, EndersPlan DEF PlanRight, EndPlace
  <2> QED
    BY <2>2, <2>3
<1>5. CASE Stop
  BY <1>1, <1>5 DEF Stop, vars, inputVars, output
<1> QED
  BY <1>2, <1>3, <1>4, <1>5 DEF Next

(* One line more, or none. *)
LEMMA CountSame ==
  ASSUME TypeOK, LinesCounted, pc[Main] \in MainPlace, pc[Main] # "print" /\ pc'[Main] # "print",
         UNCHANGED <<tests, listOnly, lines, testCount>>, Plannable' => Plannable,
         Plannable /\ ~listOnly =>
           \A i \in 1..Len(tests) : \A k \in 1..Lines(tests[i]) : Behind(i, k)' <=> Behind(i, k)
  PROVE  LinesCounted'
<1>1. Written' = Written
  BY DEF Written
<1>2. CASE ~(Plannable /\ ~listOnly)
  BY <1>2 DEF LinesCounted
<1>3. CASE Plannable /\ ~listOnly
  <2>1. LinesWritten' = LinesWritten
    BY <1>3, SameLines
  <2> QED
    BY <1>1, <1>3, <2>1 DEF LinesCounted
<1> QED
  BY <1>2, <1>3

LEMMA CountMore ==
  ASSUME TypeOK, LinesCounted, pc[Main] = "print" /\ pc'[Main] # "print", WriteLine,
         UNCHANGED <<tests, listOnly, testCount>>, Plannable' => Plannable,
         NEW j \in 1..Len(tests), NEW n \in 1..Lines(tests[j]),
         Plannable /\ ~listOnly =>
           /\ ~Behind(j, n)
           /\ \A i \in 1..Len(tests) : \A k \in 1..Lines(tests[i]) :
                Behind(i, k)' <=> (Behind(i, k) \/ (i = j /\ k = n))
  PROVE  LinesCounted'
<1>1. Written' = Written + 1
  BY DEF Written, WriteLine, TypeOK
<1>2. CASE ~(Plannable /\ ~listOnly)
  BY <1>2 DEF LinesCounted
<1>3. CASE Plannable /\ ~listOnly
  <2>1. Cardinality(LinesWritten') = Cardinality(LinesWritten) + 1
    BY <1>3, OneMoreLine
  <2> QED
    BY <1>1, <1>3, <2>1 DEF LinesCounted, MainPlace
<1> QED
  BY <1>2, <1>3

(* What is behind a step of the run. *)
LEMMA CountRun ==
  ASSUME IInv, UnitsOK, DoneOK, ApartOK, LinesCounted, RunStep
  PROVE  LinesCounted'
<1> USE DEF IInv, loopVars, nestVars, inputVars, output, At, test
<1>0. /\ \A place : Goto(Main, place) => pc'[Main] = place
      /\ \A code : CallExit(Main, code) => pc'[Main] = "exiting"
      /\ unit \in Nat
      /\ outer # NoRun => /\ outer.ix \in 1..Len(tests) /\ outer.unit \in Nat
                          /\ outer.back \in {"body", "dispose"}
  BY GotoMain DEF CallExit, TypeOK, WaitingRun, WaitingOK
<1>a. Len(tests) \in Nat
  BY CaseTypes
<1>b. ix \in Nat
  BY <1>a DEF TypeOK
<1>c. pc[Main] \in MainPlace
  BY MainMoves
<1>d. \A i \in 1..Len(tests) :
        /\ tests[i].units \in Nat /\ Lines(tests[i]) \in Nat
        /\ ~tests[i].complex => Lines(tests[i]) = 1
        /\ tests[i].complex => Lines(tests[i]) = tests[i].units + 1
  BY CaseTypes
<1>1. ASSUME pc'[Main] \notin MainPlace
      PROVE  LinesCounted'
  BY <1>1 DEF LinesCounted
<1>2. CASE CallRun \/ EnterPlan \/ PrintPlan
  <2>1. /\ pc[Main] \in {"program", "plan", "planning"}
        /\ UNCHANGED <<tests, listOnly, ix, unit, done, outer, again, lines, testCount>>
    BY <1>2 DEF CallRun, EnterPlan, PrintPlan
  <2>2. PrintPlan => pc'[Main] \in {"next", "exiting"}
    BY <1>0 DEF PrintPlan
  <2>3. pc'[Main] \in {"plan", "planning", "next", "exiting"}
    BY <1>0, <1>2, <2>2 DEF CallRun, EnterPlan
  <2>4. \A i, k : Behind(i, k)' <=> Behind(i, k)
    BY <2>1, <2>3 DEF Behind, Finished, InTest
  <2> QED
    BY <1>c, <2>1, <2>3, <2>4, CountSame DEF Plannable
<1>3. CASE ListPath
  <2>1. listOnly /\ listOnly' = listOnly
    BY <1>3 DEF ListPath
  <2> QED
    BY <2>1 DEF LinesCounted
<1>4. CASE PassTest
  <2>1. /\ pc[Main] = "next" /\ ix \in done /\ ix' = ix + 1
        /\ UNCHANGED <<tests, listOnly, pc, unit, done, outer, again, lines, testCount>>
    BY <1>4 DEF PassTest, AtTest
  <2>2. \A i \in 1..Len(tests) : i < ix' \/ i \in done <=> i < ix \/ i \in done
    BY <1>a, <1>b, <2>1
  <2>3. \A i \in 1..Len(tests) : i \in Finished' <=> i \in Finished
    BY <2>1, <2>2 DEF Finished, InTest
  <2>4. \A i \in 1..Len(tests) : \A k : Behind(i, k)' <=> Behind(i, k)
    BY <2>1, <2>3 DEF Behind, InTest
  <2> QED
    BY <1>c, <2>1, <2>4, CountSame DEF Plannable
<1>5. CASE RunTest
  <2>1. /\ pc[Main] = "next" /\ ix \notin done /\ ix \in 1..Len(tests)
        /\ UNCHANGED <<tests, listOnly, ix, done, outer, again, lines, testCount>>
        /\ unit = 0
    BY <1>5, <1>a, <1>b DEF RunTest, AtTest, RunOK, TypeOK
  <2>2. /\ pc'[Main] \in {"next", "number", "body", "units"}
        /\ pc'[Main] \in InTest /\ tests[ix].complex => unit' = 1 \/ tests[ix].excluded
        /\ unit' = 0 \/ unit' = 1
    BY <1>0, <1>5, <2>1 DEF RunTest, ExecInner, InTest
  <2>3. \A i \in 1..Len(tests) : i \in Finished' <=> i \in Finished
    BY <1>b, <2>1, <2>2 DEF Finished, InTest
  <2>4. ASSUME Plannable, pc'[Main] \in InTest, NEW k \in 1..Lines(tests[ix])
        PROVE  ~(k < IF unit' > 0 THEN unit' ELSE Lines(tests[ix]))
    <3>1. CASE unit' = 1
      BY <3>1
    <3>2. CASE unit' = 0
      <4>1. ~tests[ix].complex
        BY <2>1, <2>2, <2>4, <3>2 DEF Plannable
      <4> QED
        BY <1>d, <2>1, <3>2, <4>1
    <3> QED
      BY <2>2, <3>1, <3>2
  <2>5. ASSUME Plannable
        PROVE  \A i \in 1..Len(tests) : \A k \in 1..Lines(tests[i]) :
                 Behind(i, k)' <=> Behind(i, k)
    <3>1. pc[Main] \notin InTest
      BY <2>1 DEF InTest
    <3>2. tests' = tests /\ ix' = ix /\ outer' = outer
      BY <2>1
    <3> QED
      BY <2>3, <2>4, <2>5, <3>1, <3>2 DEF Behind
  <2> QED
    BY <1>c, <2>1, <2>2, <2>5, CountSame DEF Plannable
<1>6. CASE NextUnit \/ Body \/ Dispose
  <2>1. /\ pc[Main] \in {"units", "body", "dispose"}
        /\ done \subseteq done' /\ done' \subseteq done \cup {ix}
        /\ UNCHANGED <<tests, listOnly, ix, unit, outer, again, lines, testCount>>
    BY <1>6 DEF NextUnit, Body, Dispose
  <2>2. pc'[Main] \in {"units", "body", "dispose", "number"}
    BY <1>0, <1>6, <2>1 DEF NextUnit, ExecInner, Body, Dispose
  <2>3. \A i : i \in Finished' <=> i \in Finished
    BY <2>1, <2>2 DEF Finished, InTest
  <2>4. \A i, k : Behind(i, k)' <=> Behind(i, k)
    BY <2>1, <2>2, <2>3 DEF Behind, InTest
  <2> QED
    BY <1>c, <2>1, <2>2, <2>4, CountSame DEF Plannable
<1>7. CASE AfterUnits
  <2>1. /\ pc[Main] = "units" /\ pc'[Main] = "number" /\ unit' = 0 /\ unit > tests[ix].units
        /\ tests[ix].complex /\ unit <= tests[ix].units + 1
        /\ done' = done \cup {ix} /\ ix \in 1..Len(tests)
        /\ UNCHANGED <<tests, listOnly, ix, outer, again, lines, testCount>>
    BY <1>0, <1>7 DEF AfterUnits, UnitsOK, RunOK, TypeOK, InTest
  <2>2. unit = Lines(tests[ix]) /\ unit > 0
    BY <1>0, <1>d, <2>1
  <2>3. \A i : i \in Finished' <=> i \in Finished
    BY <2>1 DEF Finished, InTest
  <2>4. \A i, k : Behind(i, k)' <=> Behind(i, k)
    BY <2>1, <2>2, <2>3 DEF Behind, InTest
  <2> QED
    BY <1>c, <2>1, <2>4, CountSame DEF Plannable
<1>8. CASE NumberResult
  <2>1. /\ pc[Main] = "number" /\ pc'[Main] = "print" /\ testCount' = testCount + 1
        /\ UNCHANGED <<tests, listOnly, ix, unit, done, outer, again, lines>>
    BY <1>0, <1>8 DEF NumberResult
  <2>2. \A i, k : Behind(i, k)' <=> Behind(i, k)
    BY <2>1 DEF Behind, Finished, InTest
  <2>3. LinesWritten' = LinesWritten
    BY <2>1, <2>2, SameLines
  <2> QED
    BY <1>c, <2>1, <2>3 DEF LinesCounted, Written, Plannable
<1>9. CASE PrintUnit
  <2>1. /\ pc[Main] = "print" /\ pc'[Main] = "units" /\ unit > 0 /\ unit' = unit + 1
        /\ WriteLine /\ tests[ix].complex /\ unit <= tests[ix].units /\ ix \in 1..Len(tests)
        /\ UNCHANGED <<tests, listOnly, ix, done, outer, again, testCount>>
    BY <1>0, <1>9 DEF PrintUnit, RunOK, TypeOK, InTest
  <2>2. unit \in 1..Lines(tests[ix]) /\ unit' > 0
    BY <1>0, <1>d, <2>1
  <2>3. \A i : i \in Finished' <=> i \in Finished
    BY <2>1 DEF Finished, InTest
  <2>4. \A n \in Nat : \A k \in 1..n : k < unit' <=> k < unit \/ k = unit
    BY <1>0, <2>1
  <2>5. ASSUME Plannable
        PROVE  ~Behind(ix, unit)
    BY <1>0, <2>1, <2>5 DEF Behind, Finished, InTest, ApartOK
  <2>6. \A i \in 1..Len(tests) : \A k \in 1..Lines(tests[i]) :
          Behind(i, k)' <=> (Behind(i, k) \/ (i = ix /\ k = unit))
    BY <1>0, <1>d, <2>1, <2>2, <2>3, <2>4 DEF Behind, InTest
  <2> QED
    BY <2>1, <2>2, <2>5, <2>6, CountMore DEF Plannable
<1>10. CASE PrintResult
  <2> DEFINE n == Lines(tests[ix])
  <2>1. /\ pc[Main] = "print" /\ pc'[Main] = "next" /\ unit = 0 /\ ix' = ix + 1
        /\ WriteLine /\ ix \in 1..Len(tests)
        /\ UNCHANGED <<tests, listOnly, unit, done, outer, again, testCount>>
    BY <1>0, <1>10 DEF PrintResult, RunOK, TypeOK, InTest
  <2>2. n \in 1..n
    BY <2>1, CaseTypes
  <2>3. ASSUME Plannable, outer # NoRun
        PROVE  ix # outer.ix
    BY <2>1, <2>3 DEF ApartOK
  <2>4. \A i \in 1..Len(tests) : i < ix' <=> i < ix \/ i = ix
    BY <1>a, <1>b, <2>1
  <2>5. ASSUME Plannable
        PROVE  \A i \in 1..Len(tests) : i \in Finished' <=> i \in Finished \/ i = ix
    BY <2>1, <2>3, <2>4, <2>5 DEF Finished, InTest
  <2>6. ix \notin Finished
    BY <2>1 DEF Finished, InTest
  <2>7. ASSUME Plannable
        PROVE  ~Behind(ix, n)
    BY <1>d, <2>1, <2>3, <2>6, <2>7 DEF Behind
  <2>8. \A k \in 1..n : k < n \/ k = n
    BY <1>d, <2>1
  <2>9. ASSUME Plannable
        PROVE  \A i \in 1..Len(tests) : \A k \in 1..Lines(tests[i]) :
                 Behind(i, k)' <=> (Behind(i, k) \/ (i = ix /\ k = n))
    <3>1. \A i, k : Behind(i, k)' <=>
            i \in Finished' \/ (outer # NoRun /\ i = outer.ix /\ k < outer.unit)
      BY <2>1 DEF Behind, InTest
    <3>2. \A i, k : Behind(i, k) <=>
            \/ i \in Finished
            \/ i = ix /\ k < n
            \/ outer # NoRun /\ i = outer.ix /\ k < outer.unit
      BY <2>1 DEF Behind, InTest
    <3> HIDE DEF n
    <3> QED
      BY <2>5, <2>8, <2>9, <3>1, <3>2 DEF n
  <2> QED
    BY <2>1, <2>2, <2>7, <2>9, CountMore DEF Plannable
<1>11. CASE ReturnFromRun
  <2>1. CASE outer = NoRun
    BY <1>0, <1>1, <1>11, <2>1 DEF ReturnFromRun, MainPlace
  <2>2. CASE outer # NoRun
    <3>1. /\ pc[Main] = "next" /\ pc'[Main] = outer.back /\ ix > Len(tests)
          /\ ix' = outer.ix /\ unit' = outer.unit /\ outer' = NoRun
          /\ UNCHANGED <<tests, listOnly, done, again, lines, testCount>>
      BY <1>0, <1>11, <2>2 DEF ReturnFromRun
    <3>2. ASSUME Plannable, ~listOnly, NEW i \in 1..Len(tests)
          PROVE  i \in Finished' <=> i \in Finished
      <4>1. i < ix
        BY <1>a, <1>b, <3>1
      <4>2. i \in done \/ i = outer.ix
        BY <2>2, <3>2, <4>1, NoneLeftOut DEF DoneOK
      <4>3. i \in Finished <=> i # outer.ix
        BY <2>2, <3>1, <4>1 DEF Finished, InTest
      <4>4. i \in Finished' <=> i # outer.ix
        BY <1>0, <2>2, <3>1, <4>2 DEF Finished, InTest
      <4> QED
        BY <4>3, <4>4
    <3>3. ASSUME outer.unit = 0
          PROVE  Lines(tests[outer.ix]) = 1
      BY <1>0, <1>d, <2>2, <3>3 DEF WaitingOK, UnitsOK
    <3>4. ASSUME NEW k \in 1..Lines(tests[outer.ix])
          PROVE  (k < IF outer.unit > 0 THEN outer.unit ELSE Lines(tests[outer.ix])) <=> k < outer.unit
      BY <1>0, <1>d, <2>2, <3>3
    <3>5. ASSUME Plannable, ~listOnly
          PROVE  \A i \in 1..Len(tests) : \A k \in 1..Lines(tests[i]) :
                   Behind(i, k)' <=> Behind(i, k)
      <4>1. \A i, k : Behind(i, k) <=> i \in Finished \/ (i = outer.ix /\ k < outer.unit)
        BY <2>2, <3>1 DEF Behind, InTest
      <4>2. \A i, k : Behind(i, k)' <=>
              \/ i \in Finished'
              \/ /\ i = outer.ix
                 /\ k < IF outer.unit > 0 THEN outer.unit ELSE Lines(tests[outer.ix])
        BY <1>0, <2>2, <3>1 DEF Behind, InTest
      <4> QED
        BY <3>2, <3>4, <3>5, <4>1, <4>2
    <3>6. pc'[Main] # "print"
      BY <1>0, <2>2, <3>1
    <3> QED
      BY <1>c, <3>1, <3>5, <3>6, CountSame DEF Plannable
  <2> QED
    BY <2>1, <2>2
<1> QED
  BY <1>2, <1>3, <1>4, <1>5, <1>6, <1>7, <1>8, <1>9, <1>10, <1>11 DEF RunStep

LEMMA CountKept ==
  ASSUME IInv, UnitsOK, DoneOK, ApartOK, LinesCounted, Next
  PROVE  LinesCounted'
<1> USE DEF IInv, loopVars, nestVars, inputVars, output, At
<1>1. ASSUME pc'[Main] \notin MainPlace
      PROVE  LinesCounted'
  BY <1>1 DEF LinesCounted
<1>2. ASSUME UNCHANGED <<tests, listOnly, ix, unit, outer, again, done, lines, testCount>>,
             pc'[Main] = pc[Main]
      PROVE  LinesCounted'
  <2>1. \A i, k : Behind(i, k)' <=> Behind(i, k)
    BY <1>2 DEF Behind, Finished
  <2>2. LinesWritten' = LinesWritten
    BY <1>2, <2>1, SameLines
  <2> QED
    BY <1>2, <2>2 DEF LinesCounted, Written, Plannable
<1>3. CASE RunStep
  BY <1>3, CountRun
<1>4. CASE EndProgram \/ RefuseRun
  <2>1. pc'[Main] \in {"exiting", "bail"}
    BY <1>4, GotoMain DEF EndProgram, CallExit, RefuseRun
  <2> QED
    BY <1>1, <2>1 DEF MainPlace
<1>5. CASE CallRunWithin
  <2>1. /\ pc[Main] \in {"body", "dispose"} /\ pc'[Main] = "plan" /\ outer = NoRun
        /\ ix' = 1 /\ unit' = 0 /\ outer' # NoRun /\ outer'.ix = ix /\ outer'.unit = unit
        /\ again' = TRUE /\ ix \in 1..Len(tests) /\ unit \in Nat
        /\ UNCHANGED <<tests, listOnly, done, lines, testCount>>
    <3>1. outer' # NoRun
      BY <1>5 DEF CallRunWithin, InUserCode, NoRun
    <3> QED
      BY <1>5, <3>1, GotoMain DEF CallRunWithin, InUserCode, RunOK, InTest, TypeOK
  <2>2. Plannable' => Plannable
    BY <2>1 DEF Plannable
  <2>3. CASE Plannable'
    <3>1. \A i \in 1..Len(tests) : ~tests[i].excluded
      BY <2>1, <2>3, CaseTypes DEF Plannable
    <3>2. ~listOnly
      BY <2>1 DEF PlanOK, InTest
    <3>3. \A i \in 1..Len(tests) : i < ix => i \in done
      BY <2>1, <3>1, <3>2 DEF DoneOK
    <3>4. \A i \in 1..Len(tests) : ~(i < 1)
      BY CaseTypes
    <3>5. \A i \in 1..Len(tests) : i \in Finished' <=> i \in Finished
      BY <2>1, <3>3, <3>4 DEF Finished, InTest
    <3>6. /\ Lines(tests[ix]) \in Nat
          /\ unit = 0 => Lines(tests[ix]) = 1
      BY <2>1, CaseTypes DEF RunOK, UnitsOK
    <3>7. \A k \in 1..Lines(tests[ix]) :
            (k < IF unit > 0 THEN unit ELSE Lines(tests[ix])) <=> k < unit
      BY <2>1, <3>6
    <3>8. \A i, k : Behind(i, k) <=>
            \/ i \in Finished
            \/ i = ix /\ k < IF unit > 0 THEN unit ELSE Lines(tests[ix])
      BY <2>1 DEF Behind, InTest
    <3>9. \A i, k : Behind(i, k)' <=>
            \/ i \in Finished'
            \/ i = ix /\ k < unit
      BY <2>1 DEF Behind, InTest
    <3>10. \A i \in 1..Len(tests) : \A k \in 1..Lines(tests[i]) : Behind(i, k)' <=> Behind(i, k)
      BY <3>5, <3>7, <3>8, <3>9
    <3> QED
      BY <2>1, <2>2, <3>10, CountSame DEF MainPlace
  <2>4. CASE ~Plannable'
    BY <2>4 DEF LinesCounted
  <2> QED
    BY <2>3, <2>4
<1>6. CASE AssertOutside
  BY <1>2, <1>6 DEF AssertOutside
<1>7. ASSUME NEW t \in Threads, BailOut(t) \/ EndStep(t)
      PROVE  LinesCounted'
  <2>1. /\ pc'[Main] = pc[Main] \/ pc'[Main] \in EndPlace
        /\ UNCHANGED <<tests, listOnly, ix, unit, outer, again, done, lines, testCount>>
    BY <1>7, EndersLeaveRun
  <2> QED
    BY <1>1, <1>2, <2>1 DEF EndPlace, MainPlace
<1>8. CASE Stop
  BY <1>2, <1>8 DEF Stop, vars
<1> QED
  BY <1>3, <1>4, <1>5, <1>6, <1>7, <1>8 DEF Next

-----------------------------------------------------------------------------
(* The end of the run.                                                      *)

LEMMA AllLinesAtEnd ==
  ASSUME TypeOK, outer = NoRun, ix > Len(tests), pc[Main] = "next"
  PROVE  LinesWritten = AllLines
<1>1. \A i \in 1..Len(tests) : i < ix
  BY CaseTypes DEF TypeOK
<1>2. \A i \in 1..Len(tests) : i \in Finished
  BY <1>1 DEF Finished, InTest
<1>3. \A p \in AllLines : Behind(p[1], p[2])
  BY <1>2, LineOfCase DEF Behind
<1> QED
  BY <1>3 DEF LinesWritten

LEMMA AllCountedKept ==
  ASSUME IInv, FailOK, ExitOK, PlanRight, LinesCounted, AllCounted, Next
  PROVE  AllCounted'
<1> USE DEF IInv, loopVars, nestVars, inputVars, output, At
<1>0. /\ \A place : Goto(Main, place) => pc'[Main] = place
      /\ Len(tests) \in Nat
  BY GotoMain, CaseTypes
<1>1. ASSUME leaving'[Main].how # "exit"
      PROVE  AllCounted'
  BY <1>1 DEF AllCounted
<1>2. CASE EndProgram \/ PrintPlan
  <2>1. UNCHANGED <<tests, ix>> /\ ix = 1
    BY <1>2 DEF EndProgram, PrintPlan, FailOK
  <2>2. ix > Len(tests) => tests = <<>>
    <3>1. ix > Len(tests) => Len(tests) = 0
      BY <1>0, <2>1
    <3>2. tests \in Seq(Test)
      BY SuiteAssumption DEF TypeOK
    <3> QED
      BY <3>1, <3>2, EmptySeq
  <2> QED
    BY <2>1, <2>2 DEF AllCounted
<1>3. CASE ReturnFromRun
  <2>1. CASE outer # NoRun
    <3>1. leaving' = leaving /\ pc[Main] \notin EndPlace
      BY <1>3, <2>1 DEF ReturnFromRun, EndPlace
    <3>2. leaving[Main].how = "stay"
      BY <3>1 DEF EndOK, Threads
    <3> QED
      BY <1>1, <3>1, <3>2
  <2>2. CASE outer = NoRun
    <3>1. /\ pc[Main] = "next" /\ ix > Len(tests)
          /\ UNCHANGED <<tests, listOnly, again, lines, testCount, plans>>
      BY <1>3, <2>2 DEF ReturnFromRun
    <3>2. LinesWritten = AllLines
      BY <2>2, <3>1, AllLinesAtEnd
    <3>3. Cardinality(AllLines) = PlanSize(tests)
      BY DEF AllLines, PlanSize
    <3>4. plans # <<>> => plans[1] = PlanSize(tests)
      BY <3>1 DEF PlanRight, EndPlace
    <3>5. Plannable' => Plannable
      BY <3>1 DEF Plannable
    <3>6. Plannable /\ ~listOnly => Written = PlanSize(tests) /\ testCount = Written
      BY <3>1, <3>2, <3>3 DEF LinesCounted, MainPlace
    <3>7. PlanSize(tests)' = PlanSize(tests) /\ Written' = Written
      BY <3>1 DEF Written, PlanSize, LinesOf
    <3> QED
      BY <3>1, <3>4, <3>5, <3>6, <3>7 DEF AllCounted
  <2> QED
    BY <2>1, <2>2
<1>4. CASE (RunStep /\ ~PrintPlan /\ ~ReturnFromRun) \/ CallRunWithin \/ AssertOutside
  <2>1. pc[Main] \notin EndPlace
    BY <1>4, MainMoves
  <2>2. leaving[Main].how = "stay"
    BY <2>1 DEF EndOK, Threads
  <2>3. CASE \/ CallRun \/ EnterPlan \/ PassTest \/ ListPath \/ RunTest \/ NextUnit \/ Body
             \/ Dispose \/ AfterUnits
    BY <1>1, <2>2, <2>3 DEF CallRun, EnterPlan, PassTest, ListPath, RunTest, NextUnit, Body,
         Dispose, AfterUnits, sharedVars
  <2>4. CASE NumberResult \/ PrintUnit \/ PrintResult \/ CallRunWithin \/ AssertOutside
    BY <1>1, <2>2, <2>4 DEF NumberResult, PrintUnit, PrintResult, CallRunWithin, AssertOutside,
         sharedVars
  <2> QED
    BY <1>4, <2>3, <2>4 DEF RunStep
<1>5. CASE RefuseRun
  <2>1. leaving'[Main].how = "trap"
    BY <1>5 DEF RefuseRun, TypeOK, Threads
  <2> QED
    BY <1>1, <2>1
<1>6. ASSUME NEW t \in Threads, BailOut(t) \/ EndStep(t)
      PROVE  AllCounted'
  <2>1. UNCHANGED <<tests, listOnly, ix, outer, again, lines, testCount>>
    BY <1>6, EndersLeaveRun
  <2>2. leaving'[Main].how = "exit" => leaving[Main].how = "exit"
    <3>1. \/ leaving' = leaving
          \/ \E how \in {"bail", "trap"} :
               leaving' = [leaving EXCEPT ![t] = [how |-> how, status |-> 99]]
          \/ leaving' = [leaving EXCEPT ![t].status = 0]
      BY <1>6 DEF BailOut, EndStep, DisablePlan, SayBailOut, Abort, UserAtexit, LogEmptyPlan, Exit,
           sharedVars
    <3> QED
      BY <3>1 DEF TypeOK, Threads
  <2>3. CASE plans' = plans
    <3>1. PlanSize(tests)' = PlanSize(tests) /\ Written' = Written /\ (Plannable' <=> Plannable)
      BY <2>1 DEF Written, PlanSize, LinesOf, Plannable
    <3> QED
      BY <2>1, <2>2, <2>3, <3>1 DEF AllCounted
  <2>4. CASE plans' # plans
    <3>1. once = "open"
      BY <1>6, <2>4, EndersPlan
    <3> QED
      BY <2>1, <2>2, <3>1 DEF AllCounted, ExitOK
  <2> QED
    BY <2>3, <2>4
<1>7. CASE Stop
  <2>1. UNCHANGED <<tests, listOnly, ix, again, lines, testCount, plans, leaving>>
    BY <1>7 DEF Stop, vars, sharedVars
  <2>2. PlanSize(tests)' = PlanSize(tests) /\ Written' = Written /\ (Plannable' <=> Plannable)
    BY <2>1 DEF Written, PlanSize, LinesOf, Plannable
  <2> QED
    BY <2>1, <2>2 DEF AllCounted
<1> QED
  BY <1>2, <1>3, <1>4, <1>5, <1>6, <1>7 DEF Next

LEMMA InitPlan ==
  ASSUME Init
  PROVE  DoneOK /\ ApartOK /\ PlanRight /\ LinesCounted /\ AllCounted
<1>1. /\ pc[Main] = "program" /\ leaving[Main].how = "stay" /\ TypeOK
      /\ ix = 1 /\ done = {} /\ outer = NoRun /\ plans = <<>>
      /\ Written = 0 /\ testCount = 0
  BY InitInv DEF Init, Fresh, Stay, Threads, IInv, Written
<1>2. \A i \in 1..Len(tests) : ~(i < ix)
  BY <1>1, CaseTypes
<1>3. DoneOK /\ ApartOK /\ PlanRight /\ AllCounted
  BY <1>1, <1>2 DEF DoneOK, ApartOK, PlanRight, AllCounted
<1>4. LinesWritten = {}
  <2>1. \A i \in 1..Len(tests) : \A k : ~Behind(i, k)
    BY <1>1, <1>2 DEF Behind, Finished, InTest
  <2> QED
    BY <1>1, <2>1, LineOfCase DEF LinesWritten
<1>5. LinesCounted
  BY <1>1, <1>4, FS_EmptySet DEF LinesCounted
<1> QED
  BY <1>3, <1>5

LEMMA StutterPlan ==
  ASSUME DoneOK /\ ApartOK /\ PlanRight /\ LinesCounted /\ AllCounted, UNCHANGED vars
  PROVE  (DoneOK /\ ApartOK /\ PlanRight /\ LinesCounted /\ AllCounted)'
<1> USE DEF vars, inputVars, sharedVars, loopVars, nestVars, procVars, output
<1>1. DoneOK' /\ ApartOK' /\ PlanRight' /\ AllCounted'
  BY DEF DoneOK, ApartOK, PlanRight, AllCounted, Plannable, Written, PlanSize, LinesOf
<1>2. LinesWritten' = LinesWritten
  BY DEF LinesWritten, AllLines, LinesOf, Behind, Finished
<1>3. LinesCounted'
  BY <1>2 DEF LinesCounted, Plannable, Written
<1> QED
  BY <1>1, <1>3

LEMMA PlanIsKept == PInv => PlanKept
<1> SUFFICES ASSUME PInv, Completed, ~listOnly, Plannable
             PROVE  plans # <<>> /\ plans[1] = Written /\ testCount = Written
  BY DEF PlanKept, Plannable
<1>1. /\ leaving[Main].how = "exit" /\ ix > Len(tests) /\ tests # <<>>
      /\ once = "done" /\ ~Quitting
  BY DEF PInv, FInv, ExitOK, Completed
<1>2. plans # <<>>
  BY <1>1 DEF PInv, FInv, IInv, PlanOK
<1> QED
  BY <1>1, <1>2 DEF PInv, AllCounted

LEMMA PlanStep == PInv /\ [Next]_vars => PInv'
<1> SUFFICES ASSUME PInv, [Next]_vars
             PROVE  PInv'
  OBVIOUS
<1>1. FInv' /\ UnitsOK'
  BY StepFInv, StepUnits DEF PInv, FInv
<1>2. CASE Next
  <2>1. DoneOK' /\ ApartOK' /\ PlanRight'
    BY <1>2, DoneKept, ApartKept, PlanRightKept DEF PInv, FInv
  <2>2. LinesCounted' /\ AllCounted'
    BY <1>2, CountKept, AllCountedKept DEF PInv, FInv
  <2> QED
    BY <1>1, <2>1, <2>2 DEF PInv
<1>3. CASE UNCHANGED vars
  BY <1>1, <1>3, StutterPlan DEF PInv
<1> QED
  BY <1>2, <1>3

(* A program that runs its suite to the end has written the lines its plan  *)
(* announced, whatever came of the cases and wherever it started a second   *)
(* run within the first (run.c:10-44,50-64, complex.c:110-154): the lines   *)
(* written are, at every place of the run, those that are behind it.        *)
THEOREM PlanHonoured == Spec => []PlanKept
<1>1. Init => PInv
  <2> SUFFICES ASSUME Init
               PROVE  PInv
    OBVIOUS
  <2>1. FInv
    BY InitFInv
  <2>2. UnitsOK
    BY InitUnits
  <2> QED
    BY <2>1, <2>2, InitPlan DEF PInv
<1> QED
  BY <1>1, PlanStep, PlanIsKept, PTL DEF Spec
=============================================================================
