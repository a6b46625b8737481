--------------------------- MODULE Startup_proofs ---------------------------
(***************************************************************************)
(* Theorems about Startup: what is proved of the run holds of the program   *)
(* from main() on, and gtu_init() keeps its promises, for any command lines *)
(* and any threads that log while it goes on.                               *)
(***************************************************************************)
EXTENDS Startup, SuiteRun_report_proofs

Bad == {"-s bad", "-p", "--GTestSubprocess"}
Early == {"parse", "test_init", "mask", "handler"}

(* The argument gtu_init() is at, and those it has passed. *)
ArgsOK ==
  /\ args \in Seq(Argument) /\ argi \in 1..(Len(args) + 1)
  /\ pc[Main] = "parse" => \A i \in 1..(argi - 1) : args[i] \notin Bad

(* Nothing has been run before gtu_init() returns. *)
UnstartedOK ==
  pc[Main] \in StartPlace =>
    /\ unit = 0 /\ verdict = "INVALID" /\ outer = NoRun
    /\ plans = <<>> /\ Written = 0 /\ listed = {} /\ executed = 0

(* Nor ever, where an argument is refused. *)
RefusedOK ==
  Refused =>
    /\ pc[Main] \in {"parse"} \cup EndPlace
    /\ leaving[Main].how # "exit"
    /\ Written = 0 /\ plans = <<>> /\ listed = {} /\ executed = 0
    /\ proc = "exited" => status # 0

(* A thread that bails out. *)
BailingOK ==
  \A t \in Threads : /\ leaving[t].how \in {"bail", "trap"} => leaving[t].status = 99
                     /\ pc[t] = "abort" => bail # "none"

(* What there is of libgtu between GLib and the threads. *)
InstalledOK ==
  /\ pc[Main] \notin Early /\ ~Refused => "handler" \in installed
  /\ pc[Main] \notin Early \cup {"writer"} /\ ~Refused => "writer" \in installed
  /\ Started => pc[Main] \notin StartPlace
  /\ TrapSaysBailOut

StartOK == ArgsOK /\ UnstartedOK /\ RefusedOK /\ BailingOK /\ InstalledOK

(* The inductive invariant. *)
SInv == IInv /\ StartOK

LEMMA StartInitInv == StartInit => SInv
<1> SUFFICES ASSUME StartInit
             PROVE  SInv
  OBVIOUS
<1>1. IInv
  BY FreshInv DEF StartInit
<1>2. /\ pc[Main] = "parse" /\ argi = 1 /\ installed = {} /\ Fresh
      /\ args \in Seq(Argument)
  BY StartAssumption DEF StartInit, Threads
<1>3. ArgsOK
  <2>1. Len(args) \in Nat
    BY <1>2, LenProperties
  <2> QED
    BY <1>2, <2>1 DEF ArgsOK
<1>4. UnstartedOK /\ RefusedOK
  <2>1. leaving[Main].how = "stay" /\ Written = 0
    BY <1>2 DEF Fresh, Stay, Threads, Written
  <2> QED
    BY <1>2, <2>1 DEF Fresh, UnstartedOK, RefusedOK
<1>5. BailingOK
  <2>1. pc = [t \in Threads |-> IF t = Main THEN "parse" ELSE "user"]
    BY DEF StartInit
  <2>2. \A t \in Threads : leaving[t].how = "stay" /\ pc[t] # "abort"
    BY <1>2, <2>1 DEF Fresh, Stay
  <2> QED
    BY <2>2 DEF BailingOK
<1>6. InstalledOK
  BY <1>2 DEF Fresh, InstalledOK, Early, StartPlace, Started, TrapSaysBailOut
<1> QED
  BY <1>1, <1>3, <1>4, <1>5, <1>6 DEF SInv, StartOK

-----------------------------------------------------------------------------
(* gtu_init() keeps the invariant of the run.                               *)

(* What a step of gtu_init() does to the process. *)
LEMMA StartMoves ==
  ASSUME SInv, StartStep
  PROVE  /\ pc[Main] \in StartPlace /\ proc = "running"
         /\ proc' \in {"running", "aborted", "undefined"}
         /\ \E place \in StartPlace \cup {"program", "bail", "exit"} :
              pc' = pc \/ Goto(Main, place)
         /\ \/ leaving' = leaving
            \/ leaving' = [leaving EXCEPT ![Main] = [how |-> "refuse", status |-> 1]]
            \/ leaving' = [leaving EXCEPT ![Main] = [how |-> "bail", status |-> 99]]
         /\ UNCHANGED <<tests, stdout, ix, unit, verdict, nSkipped, nFailed, executed, done,
                        hasRun, outer, again, status, testCount, plans, lines, listed, bail>>
         /\ (once' = "done" /\ listOnly' /\ proc' = "running") \/ UNCHANGED <<once, listOnly>>
         /\ args' = args
<1> USE DEF At, RunUntouched, Proceed, Install, loopVars, nestVars, output, StartPlace
<1>1. CASE ParseFlag
  <2>1. listOnly \in BOOLEAN /\ (listOnly => once = "done")
    BY DEF SInv, IInv, PlanOK, TypeOK
  <2> QED
    BY <1>1, <2>1 DEF ParseFlag, Parsing
<1>2. CASE RefusePath \/ ReadNull \/ RefuseSubprocess \/ AssertUninitialized
  BY <1>2 DEF RefusePath, ReadNull, RefuseSubprocess, AssertUninitialized, Parsing, startVars
<1>3. CASE TestInit \/ SetMask \/ SetHandler \/ SetWriter \/ SetAtexit \/ SetProbe
  BY <1>3 DEF TestInit, SetMask, SetHandler, SetWriter, SetAtexit, SetProbe
<1>4. CASE Probe
  BY <1>4 DEF Probe, Find, startVars
<1>5. CASE StoreProbe \/ RemoveProbe \/ SetSuppress \/ PushVerbosity \/ SetInitialized
  BY <1>5 DEF StoreProbe, RemoveProbe, SetSuppress, PushVerbosity, SetInitialized
<1> QED
  BY <1>1, <1>2, <1>3, <1>4, <1>5 DEF StartStep, ParseStep

LEMMA StartTypes ==
  ASSUME SInv, StartStep
  PROVE  TypeOK'
<1> USE DEF SInv, IInv, TypeOK
<1>0. Main \in Threads
  BY DEF Threads
<1>1. pc' \in [Threads -> Place]
  <2>1. PICK place \in StartPlace \cup {"program", "bail", "exit"} :
          pc' = pc \/ Goto(Main, place)
    BY StartMoves
  <2>2. place \in Place
    BY DEF Place, MainPlace, EndPlace
  <2> QED
    BY <1>0, <2>1, <2>2, MoveTypes DEF Place
<1>2. leaving' \in [Threads -> Departure]
  <2>1. \A d \in Departure : [leaving EXCEPT ![Main] = d] \in [Threads -> Departure]
    BY DEF Departure
  <2>2. /\ [how |-> "refuse", status |-> 1] \in Departure
        /\ [how |-> "bail", status |-> 99] \in Departure
    BY DEF Departure
  <2> QED
    BY ZenonT(60), <2>1, <2>2, StartMoves DEF Departure
<1>3. listOnly' \in BOOLEAN /\ once' \in {"open", "busy", "done"}
  BY StartMoves
<1>4. keepGoing' \in BOOLEAN
  BY DEF StartStep, ParseStep, ParseFlag, RefusePath, ReadNull, RefuseSubprocess,
     AssertUninitialized, TestInit, SetMask, SetHandler, SetWriter, SetAtexit, SetProbe, Probe,
     Find, StoreProbe, RemoveProbe, SetSuppress, PushVerbosity, SetInitialized, Proceed
<1>5. /\ UNCHANGED <<tests, stdout, ix, unit, verdict, nSkipped, nFailed, executed, done,
                     hasRun, outer, again, status, testCount, plans, lines, listed, bail>>
      /\ proc' \in {"running", "aborted", "undefined"}
  BY StartMoves
<1> QED
  BY <1>1, <1>2, <1>3, <1>4, <1>5 DEF Place, Departure

LEMMA StartKeepsRun ==
  ASSUME SInv, StartStep
  PROVE  IInv'
<1> USE DEF SInv, IInv
<1>1. TypeOK'
  BY StartTypes
<1>2. pc[Main] \in StartPlace /\ proc = "running" /\ unit = 0 /\ verdict = "INVALID"
      /\ outer = NoRun /\ plans = <<>> /\ Written = 0
  BY StartMoves DEF StartOK, UnstartedOK
<1>3. PICK place \in StartPlace \cup {"program", "bail", "exit"} :
        pc' = pc \/ Goto(Main, place)
  BY StartMoves
<1>4. pc'[Main] \in StartPlace \cup {"program", "bail", "exit"}
  BY <1>2, <1>3 DEF TypeOK, Goto, Threads
<1>6. Main \notin Workers /\ Main \in Threads /\ Workers \subseteq Threads
  BY SuiteAssumption DEF Threads
<1>7. EndOK'
  <2>1. CASE RefusePath \/ RefuseSubprocess
    <3>1. \/ /\ leaving' = [leaving EXCEPT ![Main] = [how |-> "refuse", status |-> 1]]
             /\ Goto(Main, "exit")
          \/ /\ leaving' = [leaving EXCEPT ![Main] = [how |-> "bail", status |-> 99]]
             /\ Goto(Main, "bail")
      BY <2>1 DEF RefusePath, RefuseSubprocess
    <3>2. UNCHANGED <<stdout, bail, status, proc, once>>
      BY <2>1 DEF RefusePath, RefuseSubprocess, RunUntouched, output
    <3>3. /\ \A t \in Workers : pc'[t] = pc[t] /\ leaving'[t] = leaving[t]
          /\ \/ leaving'[Main] = [how |-> "refuse", status |-> 1] /\ pc'[Main] = "exit"
             \/ leaving'[Main] = [how |-> "bail", status |-> 99] /\ pc'[Main] = "bail"
      BY <1>6, <3>1 DEF TypeOK, Goto
    <3>4. \A t \in Threads : t = Main \/ t \in Workers
      BY DEF Threads
    <3> QED
      BY <1>6, <3>2, <3>3, <3>4 DEF EndOK, EndPlace
  <2>2. CASE ~(RefusePath \/ RefuseSubprocess)
    <3>1. UNCHANGED <<leaving, stdout, bail, status>>
      BY <2>2, StartMoves DEF StartStep, ParseStep, ParseFlag, ReadNull, AssertUninitialized,
         TestInit, SetMask, SetHandler, SetWriter, SetAtexit, SetProbe, Probe, Find, StoreProbe,
         RemoveProbe, SetSuppress, PushVerbosity, SetInitialized, Proceed
    <3>2. proc' # "exited"
      BY StartMoves
    <3>3. pc'[Main] \in StartPlace \cup {"program"}
      <4>1. pc' = pc \/ (\E p \in StartPlace \cup {"program"} : Goto(Main, p))
        BY <2>2 DEF StartStep, ParseStep, ParseFlag, ReadNull, AssertUninitialized, TestInit,
           SetMask, SetHandler, SetWriter, SetAtexit, SetProbe, Probe, Find, StoreProbe,
           RemoveProbe, SetSuppress, PushVerbosity, SetInitialized, Proceed, StartPlace
      <4> QED
        BY <1>2, <4>1 DEF TypeOK, Goto, Threads
    <3>4. \A t \in Workers : pc'[t] = pc[t]
      BY <1>3, <1>6 DEF TypeOK, Goto
    <3>5. once = "done" => once' = "done"
      BY StartMoves
    <3>6. \A t \in Threads : t = Main \/ t \in Workers
      BY DEF Threads
    <3> QED
      BY <1>2, <1>6, <3>1, <3>2, <3>3, <3>4, <3>5, <3>6 DEF EndOK, EndPlace, StartPlace
  <2> QED
    BY <2>1, <2>2
<1>8. PlanOK'
  <2>1. Quitting => Quitting'
    <3>1. \A t \in Threads : leaving'[t].how \in {leaving[t].how, "bail", "refuse"}
      <4>1. leaving \in [Threads -> Departure]
        BY DEF TypeOK, Departure
      <4>2. /\ [how |-> "refuse", status |-> 1].how = "refuse"
            /\ [how |-> "bail", status |-> 99].how = "bail"
        OBVIOUS
      <4> QED
        BY <4>1, <4>2, StartMoves
    <3> QED
      BY <3>1 DEF Quitting
  <2>2. proc' # "exited"
    BY StartMoves
  <2>3. plans' = <<>> /\ outer' = NoRun /\ Written' = 0 /\ Len(plans') = 0
    BY <1>2, StartMoves DEF Written
  <2>4. (once' = "done" /\ listOnly') \/ UNCHANGED <<once, listOnly>>
    BY StartMoves
  <2> QED
    BY <1>2, <1>4, <2>1, <2>2, <2>3, <2>4 DEF PlanOK, InTest, StartPlace
<1>9. RunOK' /\ WaitingOK'
  <2>1. UNCHANGED <<tests, ix, unit, verdict, done, outer>>
    BY StartMoves
  <2> QED
    BY <1>2, <1>4, <2>1 DEF RunOK, WaitingOK, InTest, StartPlace
<1> QED
  BY <1>1, <1>7, <1>8, <1>9

(* What a message of a thread may come to: the end of the process on the    *)
(* spot, or, for a worker, a bail-out or another place.                     *)
MessageStep(t) == LogEnds(t) \/ (t \in Workers /\ WorkerStep(t))

EndsAtOnce == UNCHANGED <<pc, leaving>> /\ proc' \in {"trapped", "aborted", "undefined"}

BailsOut(t) ==
  /\ t \in Workers /\ pc[t] = "user"
  /\ leaving' = [leaving EXCEPT ![t] = [how |-> "trap", status |-> 99]]
  /\ Goto(t, "bail") /\ proc' = proc

Wanders(t) ==
  /\ t \in Workers /\ pc[t] \in {"user", "finding"}
  /\ \E place \in {"user", "finding", "stuck"} : Goto(t, place)
  /\ UNCHANGED <<leaving, proc>>

LEMMA MessageMoves ==
  ASSUME SInv, NEW t \in Threads, MessageStep(t)
  PROVE  /\ proc = "running"
         /\ EndsAtOnce \/ BailsOut(t) \/ Wanders(t)
         /\ UNCHANGED <<tests, listOnly, keepGoing, once, stdout, ix, unit, verdict, nSkipped,
                        nFailed, executed, done, hasRun, outer, again, status, testCount,
                        plans, lines, listed, bail, args, argi, always, installed>>
<1> USE DEF At, RunUntouched, startVars, loopVars, nestVars, output
<1>1. CASE LogEnds(t)
  BY <1>1 DEF LogEnds, Speaking, InUserCode, EndsAtOnce
<1>2. CASE t \in Workers /\ LogBails(t)
  BY <1>2 DEF LogBails, BailsOut
<1>3. CASE t \in Workers /\ LogHangs(t)
  BY <1>3 DEF LogHangs, Wanders
<1>4. CASE t \in Workers /\ Speak(t)
  BY <1>4 DEF Speak, Find, Wanders, EndsAtOnce
<1>5. CASE t \in Workers /\ StoreLate(t)
  BY <1>5 DEF StoreLate, Wanders
<1> QED
  BY <1>1, <1>2, <1>3, <1>4, <1>5 DEF MessageStep, WorkerStep

(* The main thread stays where it is. *)
LEMMA MessageElsewhere ==
  ASSUME SInv, NEW t \in Threads, MessageStep(t)
  PROVE  pc'[Main] = pc[Main] /\ leaving'[Main] = leaving[Main]
<1>1. /\ Main \in Threads /\ Main \notin Workers
      /\ pc \in [Threads -> Place] /\ leaving \in [Threads -> Departure]
  BY SuiteAssumption DEF Threads, SInv, IInv, TypeOK, Place, Departure
<1>2. CASE EndsAtOnce
  BY <1>2 DEF EndsAtOnce
<1>3. CASE BailsOut(t)
  BY <1>1, <1>3 DEF BailsOut, Goto
<1>4. CASE Wanders(t)
  BY <1>1, <1>4 DEF Wanders, Goto
<1> QED
  BY <1>2, <1>3, <1>4, MessageMoves

LEMMA MessageKeepsRun ==
  ASSUME SInv, NEW t \in Threads, MessageStep(t)
  PROVE  IInv'
<1> USE DEF SInv, IInv
<1>0. /\ proc = "running"
      /\ UNCHANGED <<tests, listOnly, keepGoing, once, stdout, ix, unit, verdict, nSkipped,
                     nFailed, executed, done, hasRun, outer, again, status, testCount, plans,
                     lines, listed, bail>>
  BY MessageMoves
<1>1. CASE EndsAtOnce
  <2>1. proc' \in {"trapped", "aborted", "undefined"} /\ UNCHANGED <<pc, leaving>>
    BY <1>1 DEF EndsAtOnce
  <2>2. TypeOK'
    BY <1>0, <2>1 DEF TypeOK
  <2>3. EndOK'
    BY <1>0, <2>1 DEF EndOK
  <2>4. PlanOK'
    <3>1. Quitting' <=> Quitting
      BY <2>1 DEF Quitting
    <3> QED
      BY <1>0, <2>1, <3>1, PlanStays
  <2>5. RunOK' /\ WaitingOK'
    BY <1>0, <2>1 DEF RunOK, WaitingOK
  <2> QED
    BY <2>2, <2>3, <2>4, <2>5
<1>2. CASE BailsOut(t)
  <2>1. /\ leaving' = [leaving EXCEPT ![t] = [how |-> "trap", status |-> 99]]
        /\ Goto(t, "bail") /\ proc' = proc /\ pc[t] = "user" /\ t # Main
    BY <1>2, SuiteAssumption DEF BailsOut
  <2>2. EndOK'
    BY <1>0, <2>1, EndBegins DEF EndPlace
  <2>3. TypeOK'
    <3>1. pc' \in [Threads -> Place]
      BY <1>0, <2>1, MoveTypes DEF Place, EndPlace
    <3>2. leaving' \in [Threads -> Departure]
      BY <1>0, <2>1, MoveTypes DEF Departure
    <3> QED
      BY <1>0, <2>1, <3>1, <3>2 DEF TypeOK, Place, Departure
  <2>4. RunOK' /\ WaitingOK'
    BY <1>0, <2>1, RunStops DEF EndPlace
  <2>5. PlanOK'
    <3>1. Quitting'
      BY <1>0, <2>1 DEF Quitting, TypeOK
    <3>2. pc'[Main] = pc[Main]
      BY MessageElsewhere
    <3> QED
      BY <1>0, <2>1, <3>1, <3>2, PlanStays
  <2> QED
    BY <2>2, <2>3, <2>4, <2>5
<1>3. CASE Wanders(t)
  <2>1. /\ t \in Workers /\ t # Main /\ UNCHANGED <<leaving, proc>>
        /\ pc[t] \in {"user", "finding"}
    BY <1>3, SuiteAssumption DEF Wanders
  <2>2. PICK place \in {"user", "finding", "stuck"} : Goto(t, place)
    BY <1>3 DEF Wanders
  <2>3. pc' \in [Threads -> Place]
    <3>1. place \in Place
      BY DEF Place, StartPlace
    <3> QED
      BY <2>2, <3>1, MoveTypes
  <2>4. /\ pc'[t] = place /\ \A u \in Threads \ {t} : pc'[u] = pc[u]
        /\ pc'[Main] = pc[Main]
    <3>1. pc \in [Threads -> Place]
      BY DEF TypeOK, Place
    <3> QED
      BY <2>2, <3>1, MessageElsewhere DEF Goto
  <2>5. TypeOK'
    BY <1>0, <2>1, <2>3 DEF TypeOK, Place
  <2>6. EndOK'
    <3>1. /\ t \in Threads /\ Workers \subseteq Threads /\ place \notin EndPlace
          /\ pc[t] \notin EndPlace
      BY <2>1 DEF Threads, EndPlace
    <3>2. pc'[Main] # "user"
      BY <2>4 DEF EndOK
    <3>3. \A u \in Workers : pc'[u] \in EndPlace \cup {"user", "finding", "stuck"}
      BY <2>4, <3>1 DEF EndOK
    <3>4. \A u \in Threads : /\ pc'[u] \in EndPlace <=> pc[u] \in EndPlace
                             /\ pc'[u] \in EndPlace => pc'[u] = pc[u]
      BY <2>4, <3>1
    <3> HIDE DEF EndPlace
    <3>5. \A place2 \in {"bail", "bailing", "abort", "exiting", "atexit", "exit"} :
            place2 \in EndPlace
      BY DEF EndPlace
    <3>6. leaving' = leaving /\ UNCHANGED <<once, stdout, bail, proc, status>>
      BY <1>0, <2>1
    <3> QED
      BY <3>2, <3>3, <3>4, <3>5, <3>6 DEF EndOK
  <2>7. PlanOK'
    <3>1. Quitting' <=> Quitting
      BY <2>1 DEF Quitting
    <3> QED
      BY <1>0, <2>1, <2>4, <3>1, PlanStays
  <2>8. RunOK' /\ WaitingOK'
    BY <1>0, <2>4 DEF RunOK, WaitingOK
  <2> QED
    BY <2>5, <2>6, <2>7, <2>8
<1> QED
  BY <1>1, <1>2, <1>3, MessageMoves

LEMMA ProgramIsRun == ProgramStep => Next
BY DEF ProgramStep, RunOn, Next, Threads

(* Every step is one of gtu_init(), of the program or of a message. *)
LEMMA StepKinds ==
  ASSUME StartNext
  PROVE  \/ StartStep \/ ProgramStep
         \/ \E t \in Threads : MessageStep(t)
         \/ UNCHANGED allVars
BY DEF StartNext, MessageStep, Threads

LEMMA RunInvKept ==
  ASSUME SInv, [StartNext]_allVars
  PROVE  IInv'
<1>1. CASE StartStep
  BY <1>1, StartKeepsRun
<1>2. CASE ProgramStep
  BY <1>2, ProgramIsRun, StepInv DEF SInv
<1>3. CASE \E t \in Threads : MessageStep(t)
  BY <1>3, MessageKeepsRun
<1>4. CASE UNCHANGED allVars
  BY <1>4, StepInv DEF SInv, allVars
<1> QED
  BY <1>1, <1>2, <1>3, <1>4, StepKinds

-----------------------------------------------------------------------------
(* The program keeps what gtu_init() has arranged.                          *)

(* Before gtu_init() returns only workers take part in the program; the     *)
(* main thread does not get back into it.                                   *)
LEMMA ProgramPlaces ==
  ASSUME SInv, ProgramStep
  PROVE  \/ /\ pc[Main] \notin StartPlace \cup EndPlace
            /\ pc'[Main] \notin StartPlace
         \/ /\ pc[Main] \in EndPlace /\ pc'[Main] \in EndPlace
            /\ \E t \in Threads : BailOut(t) \/ EndStep(t)
         \/ /\ pc'[Main] = pc[Main] /\ pc[Main] \notin EndPlace
            /\ \E t \in Workers : BailOut(t) \/ EndStep(t)
<1> USE DEF SInv, IInv, At
<1>0. \A place : Goto(Main, place) => pc'[Main] = place
  BY GotoMain
<1>1. CASE RunStep
  <2>1. pc[Main] \in MainPlace
    BY <1>1 DEF RunStep, CallRun, EnterPlan, PrintPlan, PassTest, ListPath, RunTest, AtTest,
       NextUnit, Body, Dispose, AfterUnits, NumberResult, PrintUnit, PrintResult,
       ReturnFromRun, MainPlace
  <2>2. pc' = pc \/ \E place \in MainPlace \cup {"exiting"} : Goto(Main, place)
    <3>1. ReturnFromRun => \E place \in MainPlace \cup {"exiting"} : Goto(Main, place)
      BY DEF ReturnFromRun, CallExit, TypeOK, WaitingRun, MainPlace
    <3>2. PrintPlan => \E place \in MainPlace \cup {"exiting"} : Goto(Main, place)
      BY DEF PrintPlan, CallExit, MainPlace
    <3>3. RunTest \/ NextUnit => pc' = pc \/ \E place \in MainPlace : Goto(Main, place)
      BY DEF RunTest, NextUnit, ExecInner, MainPlace
    <3> QED
      BY <1>1, <3>1, <3>2, <3>3 DEF RunStep, CallRun, EnterPlan, PassTest, ListPath, Body,
         Dispose, AfterUnits, NumberResult, PrintUnit, PrintResult, MainPlace
  <2>3. pc'[Main] \in MainPlace \cup {"exiting"}
    BY <1>0, <2>1, <2>2
  <2> QED
    BY <2>1, <2>3 DEF MainPlace, StartPlace, EndPlace
<1>2. CASE EndProgram \/ CallRunWithin \/ RefuseRun \/ AssertOutside \/ BailOut(Main)
  <2>1. pc[Main] \in MainPlace
    BY <1>2 DEF EndProgram, CallRunWithin, RefuseRun, AssertOutside, BailOut, InUserCode,
       MainPlace
  <2>2. pc' = pc \/ \E place \in {"exiting", "plan", "bail"} : Goto(Main, place)
    BY <1>2 DEF EndProgram, CallExit, CallRunWithin, RefuseRun, AssertOutside, BailOut
  <2>3. pc'[Main] \in MainPlace \cup {"exiting", "bail"}
    BY <1>0, <2>1, <2>2 DEF MainPlace
  <2> QED
    BY <2>1, <2>3 DEF MainPlace, StartPlace, EndPlace
<1>3. CASE EndStep(Main)
  <2>1. pc[Main] \in EndPlace
    BY <1>3 DEF EndStep, DisablePlan, SayBailOut, Abort, UserAtexit, LogEmptyPlan, Exit, EndPlace
  <2>2. pc' = pc \/ \E place \in EndPlace : Goto(Main, place)
    BY <1>3 DEF EndStep, DisablePlan, SayBailOut, Abort, UserAtexit, LogEmptyPlan, Exit, EndPlace
  <2>3. pc'[Main] \in EndPlace
    BY <1>0, <2>1, <2>2
  <2> QED
    BY <1>3, <2>1, <2>3 DEF Threads
<1>4. ASSUME NEW t \in Workers, BailOut(t) \/ EndStep(t)
      PROVE  /\ pc'[Main] = pc[Main]
             /\ \E u \in Workers : BailOut(u) \/ EndStep(u)
  <2>1. t # Main
    BY SuiteAssumption
  <2>2. pc' = pc \/ \E place : Goto(t, place)
    BY <1>4 DEF BailOut, EndStep, DisablePlan, SayBailOut, Abort, UserAtexit, LogEmptyPlan, Exit
  <2> QED
    BY <1>4, <2>1, <2>2 DEF Goto, TypeOK, Threads
<1> QED
  BY <1>1, <1>2, <1>3, <1>4 DEF ProgramStep, RunOn, Threads

(* Those who end the process write no result, and no plan but the empty one *)
(* of a program that has called exit() itself.                              *)
LEMMA EndersWriteNothing ==
  ASSUME SInv, NEW t \in Threads, BailOut(t) \/ EndStep(t),
         t # Main \/ leaving[t].how # "exit"
  PROVE  UNCHANGED <<tests, unit, verdict, outer, plans, lines, listed, executed>>
<1> USE DEF inputVars, sharedVars, loopVars, nestVars, procVars, output
<1>1. CASE BailOut(t)
  BY <1>1 DEF BailOut
<1>2. CASE LogEmptyPlan(t)
  <2>1. once # "open"
    BY <1>2 DEF LogEmptyPlan, SInv, IInv, EndOK, At, Threads
  <2> QED
    BY <1>2, <2>1 DEF LogEmptyPlan
<1>3. CASE EndStep(t) /\ ~LogEmptyPlan(t)
  BY <1>3 DEF EndStep, DisablePlan, SayBailOut, Abort, UserAtexit, Exit
<1> QED
  BY <1>1, <1>2, <1>3

LEMMA ArgsKept ==
  ASSUME SInv, StartNext
  PROVE  ArgsOK'
<1> USE DEF SInv, IInv, StartOK, ArgsOK, At
<1>0. Len(args) \in Nat
  BY LenProperties
<1>1. CASE ParseFlag
  <2>1. /\ pc' = pc /\ args' = args /\ argi' = argi + 1 /\ argi <= Len(args)
        /\ pc[Main] = "parse" /\ args[argi] \notin Bad
    BY <1>1 DEF ParseFlag, Parsing, Arg, Bad
  <2>2. argi \in Nat /\ argi >= 1
    OBVIOUS
  <2>3. argi' \in 1..(Len(args) + 1)
    BY <1>0, <2>1, <2>2
  <2>4. \A i \in 1..(argi' - 1) : i = argi \/ i \in 1..(argi - 1)
    BY <2>1, <2>2
  <2>5. \A i \in 1..(argi' - 1) : args'[i] \notin Bad
    BY <2>1, <2>4
  <2> QED
    BY <2>1, <2>3, <2>5
<1>2. CASE RefusePath \/ ReadNull \/ RefuseSubprocess \/ AssertUninitialized
  BY <1>2 DEF RefusePath, ReadNull, RefuseSubprocess, AssertUninitialized, Parsing, startVars,
     Goto, TypeOK
<1>3. CASE TestInit \/ SetMask \/ SetHandler \/ SetWriter \/ SetAtexit \/ SetProbe \/ Probe
           \/ StoreProbe \/ RemoveProbe \/ SetSuppress \/ PushVerbosity \/ SetInitialized
  <2>1. /\ UNCHANGED <<args, argi>>
        /\ \/ pc' = pc /\ pc[Main] # "parse"
           \/ \E place \in StartPlace \cup {"program"} : place # "parse" /\ Goto(Main, place)
    BY <1>3 DEF TestInit, SetMask, SetHandler, SetWriter, SetAtexit, SetProbe, Probe, Find,
       StoreProbe, RemoveProbe, SetSuppress, PushVerbosity, SetInitialized, Proceed,
       StartPlace, startVars
  <2>2. pc'[Main] # "parse"
    BY <2>1, GotoMain
  <2> QED
    BY <2>1, <2>2
<1>4. CASE ProgramStep
  <2>1. pc'[Main] = "parse" => pc[Main] = "parse"
    BY <1>4, ProgramPlaces DEF StartPlace, EndPlace
  <2> QED
    BY <1>4, <2>1 DEF ProgramStep, RunOn, startVars
<1>5. ASSUME NEW t \in Threads, MessageStep(t)
      PROVE  ArgsOK'
  BY <1>5, MessageMoves, MessageElsewhere
<1>6. CASE UNCHANGED allVars
  BY <1>6 DEF allVars, vars, startVars
<1> QED
  BY <1>1, <1>2, <1>3, <1>4, <1>5, <1>6, StepKinds DEF StartStep, ParseStep

LEMMA UnstartedKept ==
  ASSUME SInv, StartNext
  PROVE  UnstartedOK'
<1> USE DEF StartOK, UnstartedOK, Written
<1>1. CASE StartStep
  BY <1>1, StartMoves DEF SInv
<1>2. CASE ProgramStep
  <2>1. SUFFICES ASSUME pc'[Main] \in StartPlace
                 PROVE  UnstartedOK'
    OBVIOUS
  <2>2. pc[Main] \in StartPlace /\ \E t \in Workers : BailOut(t) \/ EndStep(t)
    BY <1>2, <2>1, ProgramPlaces DEF StartPlace, EndPlace
  <2>3. PICK t \in Workers : BailOut(t) \/ EndStep(t)
    BY <2>2
  <2>4. t \in Threads /\ t # Main
    BY SuiteAssumption DEF Threads
  <2>5. UNCHANGED <<unit, verdict, outer, plans, lines, listed, executed>>
    BY <2>3, <2>4, EndersWriteNothing
  <2> QED
    BY <2>2, <2>5 DEF SInv
<1>3. ASSUME NEW t \in Threads, MessageStep(t)
      PROVE  UnstartedOK'
  BY <1>3, MessageMoves, MessageElsewhere DEF SInv
<1>4. CASE UNCHANGED allVars
  BY <1>4 DEF SInv, allVars, vars, loopVars, nestVars, output
<1> QED
  BY <1>1, <1>2, <1>3, <1>4, StepKinds

LEMMA BailingKept ==
  ASSUME SInv, StartNext
  PROVE  BailingOK'
<1> USE DEF inputVars, sharedVars, loopVars, nestVars, procVars, output, At
<1>0. /\ Main \in Threads /\ Workers \subseteq Threads /\ BailingOK
      /\ pc \in [Threads -> Place] /\ leaving \in [Threads -> Departure]
  BY DEF Threads, SInv, IInv, TypeOK, StartOK, Place, Departure
<1> DEFINE Left(d) == d.how \in {"bail", "trap"} => d.status = 99
<1>1. ASSUME NEW u \in Threads, NEW d, Left(d),
             leaving' = leaving \/ leaving' = [leaving EXCEPT ![u] = d],
             pc' = pc \/ (\E place : place # "abort" /\ Goto(u, place)),
             bail' = bail
      PROVE  BailingOK'
  BY <1>0, <1>1 DEF BailingOK, Goto
<1>2. /\ \A code : Left([how |-> "exit", status |-> code])
      /\ \A how : Left([how |-> how, status |-> 99])
      /\ Left([how |-> "refuse", status |-> 1])
  OBVIOUS
<1>3. CASE StartStep
  <2>1. PICK place \in StartPlace \cup {"program", "bail", "exit"} :
          pc' = pc \/ Goto(Main, place)
    BY <1>3, StartMoves
  <2>2. place # "abort" /\ bail' = bail
    BY <1>3, StartMoves DEF StartPlace
  <2>3. \/ leaving' = leaving
        \/ leaving' = [leaving EXCEPT ![Main] = [how |-> "refuse", status |-> 1]]
        \/ leaving' = [leaving EXCEPT ![Main] = [how |-> "bail", status |-> 99]]
    BY <1>3, StartMoves
  <2> HIDE DEF Left
  <2> QED
    BY <1>0, <1>1, <1>2, <2>1, <2>2, <2>3
<1>4. CASE RunStep
  <2>1. \/ leaving' = leaving
        \/ \E code : leaving' = [leaving EXCEPT ![Main] = [how |-> "exit", status |-> code]]
    BY <1>4 DEF RunStep, CallRun, EnterPlan, PrintPlan, PassTest, ListPath, RunTest, NextUnit,
       Body, Dispose, AfterUnits, NumberResult, PrintUnit, PrintResult, ReturnFromRun, CallExit
  <2>2. pc' = pc \/ (\E place : place # "abort" /\ Goto(Main, place))
    <3>1. ReturnFromRun => \E place : place # "abort" /\ Goto(Main, place)
      BY DEF ReturnFromRun, CallExit, SInv, IInv, TypeOK, WaitingRun
    <3>2. RunTest \/ NextUnit => pc' = pc \/ (\E place : place # "abort" /\ Goto(Main, place))
      BY DEF RunTest, NextUnit, ExecInner
    <3> QED
      BY <1>4, <3>1, <3>2 DEF RunStep, CallRun, EnterPlan, PrintPlan, PassTest, ListPath, Body,
         Dispose, AfterUnits, NumberResult, PrintUnit, PrintResult, CallExit
  <2>3. bail' = bail
    BY <1>4 DEF RunStep, CallRun, EnterPlan, PrintPlan, PassTest, ListPath, RunTest, NextUnit,
       Body, Dispose, AfterUnits, NumberResult, PrintUnit, PrintResult, ReturnFromRun
  <2> HIDE DEF Left
  <2> QED
    BY <1>0, <1>1, <1>2, <2>1, <2>2, <2>3
<1>5. CASE EndProgram \/ CallRunWithin \/ RefuseRun \/ AssertOutside
  <2>1. \/ leaving' = leaving
        \/ \E code : leaving' = [leaving EXCEPT ![Main] = [how |-> "exit", status |-> code]]
        \/ \E how : leaving' = [leaving EXCEPT ![Main] = [how |-> how, status |-> 99]]
    BY <1>5 DEF EndProgram, CallRunWithin, RefuseRun, AssertOutside, CallExit
  <2>2. pc' = pc \/ (\E place : place # "abort" /\ Goto(Main, place))
    BY <1>5 DEF EndProgram, CallRunWithin, RefuseRun, AssertOutside, CallExit
  <2>3. bail' = bail
    BY <1>5 DEF EndProgram, CallRunWithin, RefuseRun, AssertOutside
  <2> HIDE DEF Left
  <2> QED
    BY <1>0, <1>1, <1>2, <2>1, <2>2, <2>3
<1>6. ASSUME NEW t \in Threads, BailOut(t)
      PROVE  BailingOK'
  <2>1. PICK how : leaving' = [leaving EXCEPT ![t] = [how |-> how, status |-> 99]]
    BY <1>6 DEF BailOut
  <2>2. Goto(t, "bail") /\ bail' = bail
    BY <1>6 DEF BailOut
  <2> HIDE DEF Left
  <2> QED
    BY <1>1, <1>2, <2>1, <2>2
<1>7. ASSUME NEW t \in Threads, EndStep(t)
      PROVE  BailingOK'
  <2>1. CASE SayBailOut(t)
    BY <1>0, <2>1 DEF SayBailOut, BailingOK, Goto
  <2>2. CASE LogEmptyPlan(t)
    <3>1. CASE once = "open"
      <4>1. leaving[t].how = "exit"
        BY <2>2, <3>1 DEF LogEmptyPlan, SInv, IInv, EndOK
      <4> DEFINE new == [leaving[t] EXCEPT !.status = 0]
      <4>2. new.how = "exit"
        BY <1>0, <4>1 DEF Departure
      <4>3. Left(new)
        BY <4>2
      <4>4. leaving' = [leaving EXCEPT ![t] = new]
        BY <2>2, <3>1 DEF LogEmptyPlan
      <4>5. Goto(t, "exit") /\ bail' = bail
        BY <2>2 DEF LogEmptyPlan
      <4> HIDE DEF new, Left
      <4> QED
        BY <1>1, <4>3, <4>4, <4>5
    <3>2. CASE once # "open"
      <4>1. leaving' = leaving /\ Goto(t, "exit") /\ bail' = bail
        BY <2>2, <3>2 DEF LogEmptyPlan
      <4> QED
        BY <1>1, <1>2, <4>1
    <3> QED
      BY <3>1, <3>2
  <2>3. CASE DisablePlan(t) \/ Abort(t) \/ UserAtexit(t)
    <3>1. leaving' = leaving /\ bail' = bail
          /\ (pc' = pc \/ (\E place : place # "abort" /\ Goto(t, place)))
      BY <2>3 DEF DisablePlan, Abort, UserAtexit
    <3> QED
      BY <1>1, <1>2, <3>1
  <2>4. CASE Exit(t)
    BY <1>0, <2>4 DEF Exit, BailingOK
  <2> QED
    BY <1>7, <2>1, <2>2, <2>3, <2>4 DEF EndStep
<1>8. ASSUME NEW t \in Threads, MessageStep(t)
      PROVE  BailingOK'
  <2>1. \/ leaving' = leaving
        \/ leaving' = [leaving EXCEPT ![t] = [how |-> "trap", status |-> 99]]
    BY <1>8, MessageMoves DEF EndsAtOnce, BailsOut, Wanders
  <2>2. pc' = pc \/ (\E place : place # "abort" /\ Goto(t, place))
    BY <1>8, MessageMoves DEF EndsAtOnce, BailsOut, Wanders
  <2>3. bail' = bail
    BY <1>8, MessageMoves
  <2> HIDE DEF Left
  <2> QED
    BY <1>0, <1>1, <1>2, <2>1, <2>2, <2>3
<1>9. CASE UNCHANGED allVars
  BY <1>0, <1>9 DEF allVars, vars, BailingOK
<1> QED
  BY <1>3, <1>4, <1>5, <1>6, <1>7, <1>8, <1>9, StepKinds DEF ProgramStep, RunOn, Threads

(* The command line does not change, and a bad one is never got through.    *)
LEMMA RefusedStable ==
  ASSUME SInv, [StartNext]_allVars
  PROVE  Refused' <=> Refused
<1>1. args' = args
  <2>1. StartStep => args' = args
    BY StartMoves
  <2>2. \A t \in Threads : MessageStep(t) => args' = args
    BY MessageMoves
  <2> QED
    BY <2>1, <2>2, StepKinds DEF ProgramStep, RunOn, startVars, allVars
<1> QED
  BY <1>1 DEF Refused

LEMMA NotGotThrough ==
  ASSUME SInv, pc[Main] = "parse", argi > Len(args)
  PROVE  ~Refused
<1>1. Len(args) \in Nat /\ DOMAIN args = 1..Len(args) /\ argi - 1 = Len(args)
  BY LenProperties DEF SInv, StartOK, ArgsOK
<1>2. \A i \in DOMAIN args : args[i] \notin Bad
  BY <1>1 DEF SInv, StartOK, ArgsOK
<1>3. ToSet(args) = {args[i] : i \in DOMAIN args}
  BY DEF ToSet
<1> QED
  BY <1>2, <1>3 DEF Refused, Bad

LEMMA RefusedKept ==
  ASSUME SInv, StartNext
  PROVE  RefusedOK'
<1> SUFFICES ASSUME Refused, Refused'
             PROVE  RefusedOK'
  BY RefusedStable DEF RefusedOK
<1> USE DEF At
<1>0. /\ pc[Main] \in {"parse"} \cup EndPlace /\ leaving[Main].how # "exit"
      /\ Written = 0 /\ plans = <<>> /\ listed = {} /\ executed = 0
      /\ proc = "exited" => status # 0
      /\ Main \in Threads /\ Main \notin Workers
      /\ pc \in [Threads -> Place] /\ leaving \in [Threads -> Departure]
  BY SuiteAssumption
     DEF SInv, IInv, TypeOK, StartOK, RefusedOK, Threads, Place, Departure
<1>1. CASE StartStep
  <2>1. ParseStep
    BY <1>0, <1>1, NotGotThrough DEF StartStep, TestInit, SetMask, SetHandler, SetWriter,
       SetAtexit, SetProbe, Probe, StoreProbe, RemoveProbe, SetSuppress, PushVerbosity,
       SetInitialized, Proceed, EndPlace
  <2>2. /\ pc' = pc \/ Goto(Main, "exit") \/ Goto(Main, "bail")
        /\ \/ leaving' = leaving
           \/ leaving' = [leaving EXCEPT ![Main] = [how |-> "refuse", status |-> 1]]
           \/ leaving' = [leaving EXCEPT ![Main] = [how |-> "bail", status |-> 99]]
        /\ proc' \in {proc, "aborted", "undefined"} /\ UNCHANGED status
    BY <2>1 DEF ParseStep, ParseFlag, RefusePath, ReadNull, RefuseSubprocess,
       AssertUninitialized, RunUntouched
  <2>3. leaving'[Main].how # "exit"
    <3>1. /\ [how |-> "refuse", status |-> 1].how # "exit"
          /\ [how |-> "bail", status |-> 99].how # "exit"
      OBVIOUS
    <3> QED
      BY <1>0, <2>2, <3>1
  <2>4. pc'[Main] \in {"parse"} \cup EndPlace
    BY <1>0, <2>2 DEF Goto, EndPlace
  <2>5. Written' = 0 /\ UNCHANGED <<plans, listed, executed>>
    BY <1>0, <1>1, StartMoves DEF Written
  <2> QED
    BY <1>0, <2>2, <2>3, <2>4, <2>5 DEF RefusedOK
<1>2. CASE ProgramStep
  <2>1. /\ pc'[Main] \in {"parse"} \cup EndPlace
        /\ \E t \in Threads : BailOut(t) \/ EndStep(t)
    BY <1>0, <1>2, ProgramPlaces DEF EndPlace, StartPlace, Threads
  <2>2. PICK t \in Threads : BailOut(t) \/ EndStep(t)
    BY <2>1
  <2>3. UNCHANGED <<plans, lines, listed, executed>>
    BY <1>0, <2>2, EndersWriteNothing
  <2>4. leaving'[Main].how # "exit"
    <3>1. CASE BailOut(t)
      BY <1>0, <3>1 DEF BailOut
    <3>2. CASE LogEmptyPlan(t)
      <4>1. once # "open"
        BY <1>0, <3>2 DEF LogEmptyPlan, SInv, IInv, EndOK, Threads
      <4> QED
        BY <1>0, <3>2, <4>1 DEF LogEmptyPlan
    <3>3. CASE EndStep(t) /\ ~LogEmptyPlan(t)
      BY <1>0, <3>3 DEF EndStep, DisablePlan, SayBailOut, Abort, UserAtexit, Exit, sharedVars
    <3> QED
      BY <2>2, <3>1, <3>2, <3>3
  <2>5. proc' = "exited" => status' # 0
    <3>1. CASE Exit(t)
      <4>1. leaving[t].how \in {"bail", "trap", "refuse"}
        <5>1. leaving[t].how \in {"stay", "exit", "bail", "trap", "refuse"}
          BY <1>0 DEF Departure
        <5>2. leaving[t].how # "stay" /\ leaving[t].how # "exit"
          BY <1>0, <3>1 DEF Exit, SInv, IInv, EndOK, EndPlace, Threads
        <5> QED
          BY <5>1, <5>2
      <4>2. leaving[t].status \in {1, 99}
        BY <4>1 DEF SInv, IInv, EndOK, StartOK, BailingOK
      <4>3. ExitStatus(1) # 0 /\ ExitStatus(99) # 0
        BY DEF ExitStatus
      <4> QED
        BY <3>1, <4>2, <4>3 DEF Exit
    <3>2. CASE ~Exit(t)
      BY <1>0, <2>2, <3>2 DEF BailOut, EndStep, DisablePlan, SayBailOut, Abort, UserAtexit,
         LogEmptyPlan, procVars, InUserCode
    <3> QED
      BY <3>1, <3>2
  <2> QED
    BY <1>0, <2>1, <2>3, <2>4, <2>5 DEF RefusedOK, Written
<1>3. ASSUME NEW t \in Threads, MessageStep(t)
      PROVE  RefusedOK'
  <2>1. proc' # "exited"
    BY <1>3, MessageMoves DEF EndsAtOnce, BailsOut, Wanders
  <2> QED
    BY <1>0, <1>3, <2>1, MessageMoves, MessageElsewhere DEF RefusedOK, Written
<1>4. CASE UNCHANGED allVars
  BY <1>0, <1>4 DEF RefusedOK, Written, allVars, vars, sharedVars, loopVars, procVars, output
<1> QED
  BY <1>1, <1>2, <1>3, <1>4, StepKinds

LEMMA InstalledKept ==
  ASSUME SInv, StartNext
  PROVE  InstalledOK'
<1> USE DEF At
<1>0. InstalledOK /\ (Refused' <=> Refused)
  BY RefusedStable DEF SInv, StartOK
<1>1. CASE StartStep
  <2> USE <1>0 DEF InstalledOK, Early, StartPlace, Started, Install, TrapSaysBailOut
  <2>1. /\ pc[Main] \in StartPlace /\ ~Started /\ proc = "running" /\ proc' # "trapped"
        /\ \A place : Goto(Main, place) => pc'[Main] = place
    BY <1>1, StartMoves, GotoMain DEF SInv, IInv
  <2>2. CASE ParseFlag
    BY <2>1, <2>2 DEF ParseFlag, Parsing
  <2>3. CASE ReadNull \/ AssertUninitialized
    BY <2>1, <2>3 DEF ReadNull, AssertUninitialized, Parsing, startVars
  <2>4. CASE RefusePath \/ RefuseSubprocess
    <3>1. Refused
      <4>1. argi \in DOMAIN args /\ args[argi] \in Bad
        <5>1. args \in Seq(Argument) /\ argi \in 1..(Len(args) + 1)
          BY DEF SInv, StartOK, ArgsOK
        <5>2. Len(args) \in Nat /\ DOMAIN args = 1..Len(args)
          BY <5>1, LenProperties
        <5>3. argi <= Len(args) /\ args[argi] \in Bad
          BY <2>4 DEF RefusePath, RefuseSubprocess, Parsing, Arg, Bad
        <5>4. argi \in 1..Len(args)
          BY <5>1, <5>2, <5>3
        <5> QED
          BY <5>2, <5>3, <5>4
      <4>2. ToSet(args) = {args[i] : i \in DOMAIN args}
        BY DEF ToSet
      <4> QED
        BY <4>1, <4>2 DEF Refused, Bad
    <3>2. /\ pc'[Main] \in {"exit", "bail"} /\ UNCHANGED startVars /\ proc' = "running"
      BY <2>1, <2>4 DEF RefusePath, RefuseSubprocess
    <3> QED
      BY <2>1, <3>1, <3>2 DEF startVars
  <2>5. CASE TestInit
    BY <2>1, <2>5 DEF TestInit, Proceed
  <2>6. CASE SetMask
    BY <2>1, <2>6 DEF SetMask, Proceed
  <2>7. CASE SetHandler \/ SetWriter
    BY <2>1, <2>7 DEF SetHandler, SetWriter, Proceed
  <2>8. CASE SetAtexit \/ SetProbe
    BY <2>1, <2>8 DEF SetAtexit, SetProbe, Proceed
  <2>9. CASE Probe
    BY <2>1, <2>9 DEF Probe, Find, startVars
  <2>10. CASE StoreProbe \/ RemoveProbe
    BY <2>1, <2>10 DEF StoreProbe, RemoveProbe, Proceed
  <2>11. CASE SetSuppress \/ PushVerbosity
    BY <2>1, <2>11 DEF SetSuppress, PushVerbosity, Proceed
  <2>12. CASE SetInitialized
    BY <2>1, <2>12 DEF SetInitialized, Proceed
  <2> QED
    BY <1>1, <2>2, <2>3, <2>4, <2>5, <2>6, <2>7, <2>8, <2>9, <2>10, <2>11, <2>12
       DEF StartStep, ParseStep
<1>2. CASE ProgramStep
  <2>1. UNCHANGED <<installed, lost>>
    BY <1>2 DEF ProgramStep, RunOn, startVars
  <2>2. \/ pc'[Main] = pc[Main]
        \/ pc[Main] \notin StartPlace /\ pc'[Main] \notin StartPlace
    BY <1>2, ProgramPlaces DEF StartPlace, EndPlace
  <2>4. proc' = "trapped" => bail' # "none" \/ (proc = "trapped" /\ UNCHANGED <<pc, bail>>)
    <3>1. CASE proc = "running"
      <4>1. SUFFICES ASSUME proc' = "trapped"
                     PROVE  bail' # "none"
        OBVIOUS
      <4>2. ~(RunStep \/ EndProgram \/ CallRunWithin \/ RefuseRun \/ AssertOutside)
        BY <3>1, <4>1 DEF RunStep, CallRun, EnterPlan, PrintPlan, PassTest, ListPath,
           RunTest, AtTest, ExecInner, NextUnit, Body, Dispose, AfterUnits, NumberResult,
           PrintUnit, PrintResult, ReturnFromRun, EndProgram, CallRunWithin, InUserCode,
           RefuseRun, AssertOutside, procVars
      <4>3. PICK t \in Threads : BailOut(t) \/ EndStep(t)
        BY <1>2, <4>2 DEF ProgramStep, RunOn, Threads
      <4>4. Abort(t)
        BY <3>1, <4>1, <4>3 DEF BailOut, EndStep, DisablePlan, SayBailOut, Abort, UserAtexit,
           LogEmptyPlan, Exit, InUserCode, procVars
      <4> QED
        BY <4>4 DEF Abort, SInv, StartOK, BailingOK, output
    <3>2. CASE proc # "running"
      BY <1>2, <3>2 DEF ProgramStep, RunOn, RunStep, CallRun, EnterPlan, PrintPlan, PassTest, ListPath,
         RunTest, AtTest, NextUnit, Body, Dispose, AfterUnits, NumberResult, PrintUnit,
         PrintResult, ReturnFromRun, EndProgram, CallRunWithin, InUserCode, RefuseRun,
         AssertOutside, BailOut, EndStep, DisablePlan, SayBailOut, Abort, UserAtexit,
         LogEmptyPlan, Exit
    <3> QED
      BY <3>1, <3>2
  <2> QED
    BY <1>0, <2>1, <2>2, <2>4
       DEF InstalledOK, Early, StartPlace, Started, TrapSaysBailOut
<1>3. ASSUME NEW t \in Threads, MessageStep(t)
      PROVE  InstalledOK'
  <2>1. /\ pc'[Main] = pc[Main] /\ proc = "running"
        /\ UNCHANGED <<installed, always, bail>>
    BY <1>3, MessageMoves, MessageElsewhere
  <2>2. SUFFICES ASSUME proc' = "trapped", bail = "none", ~Refused
                 PROVE  \/ pc[Main] \in Early
                        \/ pc[Main] = "writer" /\ lost'.via = "structured"
                        \/ /\ lost'.level = "error"
                           /\ lost'.via = "structured" \/ lost'.expected
    BY <1>0, <2>1 DEF InstalledOK, Started, TrapSaysBailOut, Early
  <2>3. LogEnds(t)
    BY <1>3, <2>1, <2>2 DEF MessageStep, WorkerStep, LogBails, LogHangs, Speak, Find, StoreLate
  <2>4. PICK m \in Notice : Silent(m) /\ lost' = m
    BY <2>2, <2>3 DEF LogEnds
  <2>5. m.via \in {"log", "structured"}
    BY DEF Notice
  <2> QED
    BY <1>0, <2>2, <2>4, <2>5 DEF Silent, HandlerOf, InstalledOK
<1>4. CASE UNCHANGED allVars
  BY <1>0, <1>4 DEF InstalledOK, Started, TrapSaysBailOut, allVars, vars, startVars, procVars,
     output
<1> QED
  BY <1>1, <1>2, <1>3, <1>4, StepKinds

(* The parts of the invariant hold together from main() on. *)
THEOREM StartInvariance == StartSpec => []SInv
<1>1. SInv /\ [StartNext]_allVars => SInv'
  <2> SUFFICES ASSUME SInv, [StartNext]_allVars
               PROVE  SInv'
    OBVIOUS
  <2>1. IInv'
    BY RunInvKept
  <2>2. CASE StartNext
    BY <2>1, <2>2, ArgsKept, UnstartedKept, RefusedKept, BailingKept, InstalledKept
       DEF SInv, StartOK
  <2>3. CASE UNCHANGED allVars
    <3>1. Refused' <=> Refused
      BY RefusedStable
    <3>2. ArgsOK' /\ UnstartedOK' /\ BailingOK'
      BY <2>3 DEF SInv, StartOK, ArgsOK, UnstartedOK, BailingOK, Written,
         allVars, vars, startVars, sharedVars, loopVars, nestVars, output
    <3>3. RefusedOK' /\ InstalledOK'
      BY <2>3, <3>1 DEF SInv, StartOK, RefusedOK, InstalledOK, Started, Written,
         TrapSaysBailOut, allVars, vars, startVars, sharedVars, loopVars, procVars, output
    <3> QED
      BY <2>1, <3>2, <3>3 DEF SInv, StartOK
  <2> QED
    BY <2>2, <2>3
<1> QED
  BY <1>1, StartInitInv, PTL DEF StartSpec

-----------------------------------------------------------------------------
(* What follows from it.                                                    *)

(* A program with a bad argument anywhere on its command line runs, lists   *)
(* and announces nothing and does not succeed (init.c:81-144).              *)
THEOREM NothingRunWhenRefused == StartSpec => []RefusedRunsNothing
<1>1. SInv => RefusedRunsNothing
  BY DEF SInv, StartOK, RefusedOK, RefusedRunsNothing
<1> QED
  BY <1>1, StartInvariance, PTL

(* From the setting of libgtu's handlers on (glib-handlers.c:193-197)       *)
(* nobody traps without the harness having been told, but for the errors    *)
(* that GLib does not leave to libgtu.                                      *)
THEOREM TrapIsAnnounced == StartSpec => []TrapSaysBailOut
<1>1. SInv => TrapSaysBailOut
  BY DEF SInv, StartOK, InstalledOK
<1> QED
  BY <1>1, StartInvariance, PTL

(* From main() on, too, the stream is as it was promised to the harness:    *)
(* gtu_init() gives up the plan, or is as silent as the run expects.        *)
THEOREM StreamFromStart == StartSpec => ImplementsStream
<1>1. StartInit => Stream!Init
  <2>1. Fresh /\ once = "open" => Stream!Init
    BY DEF Fresh, Stream!Init, Written
  <2> QED
    BY <2>1 DEF StartInit
<1>2. SInv /\ [StartNext]_allVars => [Stream!Next]_(Stream!vars)
  <2> SUFFICES ASSUME SInv, [StartNext]_allVars
               PROVE  Stream!Next \/ UNCHANGED Stream!vars
    OBVIOUS
  <2>1. CASE StartStep
    <3>1. /\ proc = "running" /\ plans = <<>> /\ UNCHANGED <<plans, lines, bail>>
          /\ (once' = "done" /\ proc' = "running") \/ UNCHANGED once
          /\ proc' \in {"running", "aborted", "undefined"}
      BY <2>1, StartMoves DEF SInv, StartOK, UnstartedOK
    <3>2. CASE once' = once
      BY <3>1, <3>2 DEF Stream!Next, Stream!End, Stream!vars, Written
    <3>3. CASE once' # once
      <4>1. once # "done" /\ once' = "done" /\ bail = "none"
        BY <3>1, <3>3 DEF SInv, IInv, EndOK
      <4>2. proc' = "running"
        BY <3>1, <3>3
      <4>3. Stream!GiveUp
        BY <3>1, <4>1, <4>2 DEF Stream!GiveUp, Stream!Listening, Stream!Settled, Written
      <4> QED
        BY <4>3 DEF Stream!Next
    <3> QED
      BY <3>2, <3>3
  <2>2. CASE ProgramStep
    BY <2>2, ProgramIsRun, StreamKept DEF SInv
  <2>3. ASSUME NEW t \in Threads, MessageStep(t)
        PROVE  Stream!Next \/ UNCHANGED Stream!vars
    <3>1. /\ proc = "running" /\ UNCHANGED <<once, plans, lines, bail>>
          /\ proc' \in {"running", "aborted", "trapped", "undefined"}
      BY <2>3, MessageMoves DEF EndsAtOnce, BailsOut, Wanders
    <3> QED
      BY <3>1, StreamStep
  <2>4. CASE UNCHANGED allVars
    BY <2>4, StreamKept DEF SInv, allVars
  <2> QED
    BY <2>1, <2>2, <2>3, <2>4, StepKinds
<1> QED
  BY <1>1, <1>2, StartInvariance, PTL DEF StartSpec, ImplementsStream, Stream!Spec

(* From main() on, whatever the command line and whatever the threads of    *)
(* the program log meanwhile, there is one plan at most, no result comes    *)
(* before it, and no body is executed within another or a second time.      *)
THEOREM RunSafeFromStart == StartSpec => [](TypeOK /\ OnePlan /\ PlanFirst /\ BodiesOnce)
<1>1. IInv => TypeOK /\ PlanFirst
  BY DEF IInv, PlanOK, PlanFirst
<1>2. SInv => TypeOK /\ OnePlan /\ PlanFirst /\ BodiesOnce
  BY <1>1, OnePlanHolds, BodiesOnceHolds DEF SInv
<1> QED
  BY <1>2, StartInvariance, PTL

-----------------------------------------------------------------------------
(* What is reported, from main() on.                                        *)

(* No run has left a trace. *)
Blank ==
  /\ ix = 1 /\ unit = 0 /\ verdict = "INVALID" /\ nSkipped = 0 /\ nFailed = 0
  /\ done = {} /\ outer = NoRun /\ again = FALSE
  /\ plans = <<>> /\ Written = 0 /\ testCount = 0

BlankOK == pc[Main] \in StartPlace => Blank

(* Nor has the program been to the end of main(). *)
Unreported ==
  /\ Blank /\ pc[Main] \in StartPlace \cup EndPlace \cup {"program"}
  /\ leaving[Main].how # "exit" /\ proc # "exited"

LEMMA BlankReports == IInv /\ Unreported => PInv
<1> SUFFICES ASSUME IInv, Unreported
             PROVE  PInv
  OBVIOUS
<1>0. /\ Blank /\ pc[Main] \in StartPlace \cup EndPlace \cup {"program"}
      /\ leaving[Main].how # "exit" /\ proc # "exited"
  BY DEF Unreported
<1>1. /\ TypeOK /\ pc[Main] \notin {"plan", "planning", "next", "body", "dispose", "units",
                                    "number", "print"}
      /\ pc[Main] \in MainPlace => pc[Main] = "program"
  BY <1>0 DEF IInv, StartPlace, EndPlace, MainPlace
<1>2. lines.notOk = 0
  <2>1. lines.ok \in Nat /\ lines.notOk \in Nat /\ lines.ok + lines.notOk = 0
    BY <1>0, <1>1 DEF TypeOK, Blank, Written
  <2> QED
    BY <2>1
<1>3. FailOK /\ ExitOK
  BY <1>0, <1>1, <1>2 DEF Blank, FailOK, ExitOK
<1>4. UnitsOK
  BY <1>0, <1>1 DEF Blank, UnitsOK, SummaryHonest, At
<1>5. \A i \in 1..Len(tests) : ~(i < ix)
  BY <1>0, <1>1, CaseTypes DEF Blank
<1>6. DoneOK /\ ApartOK /\ PlanRight /\ AllCounted
  BY <1>0, <1>1, <1>5 DEF Blank, DoneOK, ApartOK, PlanRight, AllCounted
<1>7. LinesWritten = {}
  <2>1. \A i \in 1..Len(tests) : \A k : ~Behind(i, k)
    BY <1>0, <1>1, <1>5 DEF Blank, Behind, Finished, InTest
  <2> QED
    BY <1>1, <2>1, LineOfCase DEF LinesWritten
<1>8. LinesCounted
  BY <1>0, <1>1, <1>7, FS_EmptySet DEF Blank, LinesCounted
<1> QED
  BY <1>3, <1>4, <1>6, <1>8 DEF PInv, FInv

LEMMA BlankReportsNext == IInv' /\ Unreported' => PInv'
BY BlankReports, PTL

LEMMA BlankKept ==
  ASSUME SInv, BlankOK, StartNext
  PROVE  BlankOK'
<1>1. CASE StartStep
  BY <1>1, StartMoves DEF BlankOK, Blank, Written
<1>2. CASE ProgramStep
  <2>1. SUFFICES ASSUME pc'[Main] \in StartPlace
                 PROVE  Blank'
    BY DEF BlankOK
  <2>2. pc[Main] \in StartPlace /\ \E t \in Workers : BailOut(t) \/ EndStep(t)
    BY <1>2, <2>1, ProgramPlaces DEF StartPlace, EndPlace
  <2>3. PICK t \in Workers : BailOut(t) \/ EndStep(t)
    BY <2>2
  <2>4. t \in Threads /\ t # Main
    BY SuiteAssumption DEF Threads
  <2>5. plans' = plans
    BY <2>3, <2>4, EndersWriteNothing
  <2>6. UNCHANGED <<loopVars, done, nestVars, lines, testCount>>
    BY <2>3, <2>4, EndersLeaveRun DEF SInv, IInv
  <2> QED
    BY <2>2, <2>5, <2>6 DEF BlankOK, Blank, Written, loopVars, nestVars
<1>3. ASSUME NEW t \in Threads, MessageStep(t)
      PROVE  BlankOK'
  BY <1>3, MessageMoves, MessageElsewhere DEF BlankOK, Blank, Written
<1>4. CASE UNCHANGED allVars
  BY <1>4 DEF BlankOK, Blank, Written, allVars, vars, loopVars, nestVars, output
<1> QED
  BY <1>1, <1>2, <1>3, <1>4, StepKinds

(* gtu_init() leaves nothing to report. *)
LEMMA StartReports ==
  ASSUME SInv, BlankOK, StartStep
  PROVE  PInv'
<1>1. IInv' /\ BlankOK'
  BY StartKeepsRun, BlankKept DEF StartNext
<1>2. pc[Main] \in StartPlace /\ Main \in Threads /\ leaving[Main].how = "stay"
      /\ leaving \in [Threads -> Departure]
  <2>1. pc[Main] \in StartPlace /\ Main \in Threads
    BY StartMoves DEF Threads
  <2>2. pc[Main] \notin EndPlace
    BY <2>1 DEF StartPlace, EndPlace
  <2> QED
    BY <2>1, <2>2 DEF SInv, IInv, TypeOK, EndOK, Departure
<1>3. pc'[Main] \in StartPlace \cup EndPlace \cup {"program"}
  <2>1. PICK place \in StartPlace \cup {"program", "bail", "exit"} :
          pc' = pc \/ Goto(Main, place)
    BY StartMoves
  <2> QED
    BY <1>2, <2>1 DEF SInv, IInv, TypeOK, Goto, EndPlace
<1>4. Blank'
  BY <1>2, StartMoves DEF BlankOK, Blank, Written
<1>5. leaving'[Main].how # "exit"
  BY <1>2, StartMoves
<1>6. proc' # "exited"
  BY StartMoves
<1> QED
  BY <1>1, <1>3, <1>4, <1>5, <1>6, BlankReportsNext DEF Unreported

(* Nor does a message, which moves nothing of the run and exits from nowhere. *)
LEMMA LogReports ==
  ASSUME SInv, PInv, NEW t \in Threads, MessageStep(t)
  PROVE  PInv'
<1>1. IInv'
  BY MessageKeepsRun
<1>2. CASE EndsAtOnce \/ Wanders(t)
  <2>1. /\ UNCHANGED <<tests, listOnly, once, ix, unit, verdict, nSkipped, nFailed, executed,
                       done, outer, again, status, testCount, plans, lines, leaving>>
        /\ pc'[Main] = pc[Main] /\ proc = "running" /\ proc' # "exited"
    BY <1>2, MessageMoves, MessageElsewhere DEF EndsAtOnce, Wanders
  <2>2. /\ Quitting' = Quitting /\ PlanSize(tests)' = PlanSize(tests) /\ Written' = Written
        /\ (Plannable' <=> Plannable)
    BY <2>1 DEF Quitting, PlanSize, LinesOf, Written, Plannable
  <2>3. FailOK' /\ ExitOK'
    BY <2>1, <2>2 DEF PInv, FInv, FailOK, ExitOK
  <2>4. UnitsOK'
    <3>1. SummaryHonest'
      BY <2>1 DEF PInv, UnitsOK, SummaryHonest, At, test
    <3> QED
      BY <2>1, <3>1 DEF PInv, UnitsOK
  <2>5. DoneOK' /\ ApartOK' /\ PlanRight' /\ AllCounted'
    BY <2>1, <2>2 DEF PInv, DoneOK, ApartOK, PlanRight, AllCounted
  <2>6. LinesWritten' = LinesWritten
    BY <2>1 DEF LinesWritten, AllLines, LinesOf, Behind, Finished
  <2>7. LinesCounted'
    BY <2>1, <2>2, <2>6 DEF PInv, LinesCounted
  <2> QED
    BY <1>1, <2>3, <2>4, <2>5, <2>7 DEF PInv, FInv
<1>3. CASE BailsOut(t)
  <2>1. /\ leaving' = [leaving EXCEPT ![t] = [how |-> "trap", status |-> 99]]
        /\ At(t, "user") /\ Goto(t, "bail") /\ t # Main
        /\ UNCHANGED <<inputVars, once, stdout, loopVars, done, nestVars, procVars, output>>
    BY <1>3, MessageMoves, SuiteAssumption
       DEF BailsOut, At, inputVars, loopVars, nestVars, procVars, output
  <2>2. BailOut(t)
    BY <2>1 DEF BailOut
  <2> QED
    BY <2>1, <2>2, PlanStep DEF Next
<1> QED
  BY <1>2, <1>3, MessageMoves

(* From main() on, whatever the command line and whatever the threads of    *)
(* the program log meanwhile, a completed run has kept to its plan, and its *)
(* exit status and its summaries say what came of the cases.                *)
THEOREM ReportedFromStart ==
  StartSpec => [](PlanKept /\ StatusTellsFailure /\ SummaryHonest)
<1>1. StartInit => BlankOK /\ PInv
  <2> SUFFICES ASSUME StartInit
               PROVE  BlankOK /\ PInv
    OBVIOUS
  <2>1. IInv /\ pc[Main] \in StartPlace /\ leaving[Main].how # "exit" /\ proc # "exited"
    BY StartInitInv DEF SInv, StartInit, Fresh, Stay, StartPlace, Threads
  <2>2. Blank
    <3>1. Written = 0
      BY StartInitInv DEF SInv, StartOK, UnstartedOK, StartInit, StartPlace, Threads
    <3> QED
      BY <3>1 DEF StartInit, Fresh, Blank
  <2> QED
    BY <2>1, <2>2, BlankReports DEF BlankOK, Unreported
<1>2. SInv /\ BlankOK /\ PInv /\ [StartNext]_allVars => BlankOK' /\ PInv'
  <2> SUFFICES ASSUME SInv, BlankOK, PInv, [StartNext]_allVars
               PROVE  BlankOK' /\ PInv'
    OBVIOUS
  <2>1. BlankOK'
    <3>1. CASE UNCHANGED allVars
      BY <3>1 DEF BlankOK, Blank, Written, allVars, vars, loopVars, nestVars, output
    <3> QED
      BY <3>1, BlankKept
  <2>2. CASE StartStep
    BY <2>1, <2>2, StartReports
  <2>3. CASE ProgramStep
    BY <2>1, <2>3, ProgramIsRun, PlanStep
  <2>4. CASE \E t \in Threads : MessageStep(t)
    BY <2>1, <2>4, LogReports
  <2>5. CASE UNCHANGED allVars
    BY <2>1, <2>5, PlanStep DEF allVars
  <2> QED
    BY <2>1, <2>2, <2>3, <2>4, <2>5, StepKinds
<1>3. PInv => PlanKept /\ StatusTellsFailure /\ SummaryHonest
  BY PlanIsKept, StatusTells DEF PInv, UnitsOK
<1> QED
  BY <1>1, <1>2, <1>3, StartInvariance, PTL DEF StartSpec
=============================================================================
