------------------------------ MODULE SuiteRun ------------------------------
(***************************************************************************)
(* gtu_test_suite_run() and what the process writes to its harness: the     *)
(* test plan, one line for each case and each subunit of a complex case, or *)
(* "Bail out!", and the exit status.                                        *)
(*                                                                          *)
(* The main thread runs the cases; what the execution of a body comes to is *)
(* the subject of CaseRun, here it is any verdict, or a bail-out.  A body,  *)
(* or the function that frees what a body was given, may call               *)
(* gtu_test_suite_run() on the same suite once more.  Workers may bail out  *)
(* at any time (a message that is fatal, or an assertion without -k).  All  *)
(* threads share the stdout lock, the once-only test plan and exit() with   *)
(* its handlers.                                                            *)
(*                                                                          *)
(* Sources: src/test-suite/{test-suite,run}.c, src/test-case/complex.c,     *)
(* src/test-case/run-{init,setjmp}.c, src/log/{tap,glib-handlers}.c.  How   *)
(* gtu_init() gets there is in module Startup.                              *)
(***************************************************************************)
EXTENDS Integers, Sequences, FiniteSets

CONSTANTS Main,         \* the thread that called gtu_test_suite_run()
          Workers,      \* the other threads
          Free,         \* the stdout lock when nobody holds it
          Suites,       \* the suites a program may run, flattened
          Verdicts,     \* what a body may come to
          AtexitLogs,   \* the program has an atexit() handler that logs
          LineBuffered  \* stdout is a terminal rather than a pipe

Threads == {Main} \cup Workers

(* A case of the flattened suite: how many subunits it has if it is a       *)
(* complex one, and whether -p and -s leave it out.                         *)
Test == [complex: BOOLEAN, units: Nat, excluded: BOOLEAN]

ASSUME SuiteAssumption ==
  /\ Main \notin Workers
  /\ Free \notin Threads
  /\ \A s \in Suites : s \in Seq(Test)
  /\ Verdicts \subseteq {"PASS", "SKIP", "FAIL"}
  /\ AtexitLogs \in BOOLEAN
  /\ LineBuffered \in BOOLEAN

VARIABLES
  tests,     \* what gtu_test_suite_run() collected
  listOnly,  \* -l
  keepGoing, \* -k
  pc,        \* where each thread is
  leaving,   \* how each thread means to end the process
  once,      \* expected_tests__volatile, the guard of the test plan
  stdout,    \* the stdout lock
  ix,        \* the case run_test() is at
  unit,      \* the subunit _gtu_complex_case_run() is at, 0 outside of it
  verdict,   \* result in run_test() and in _gtu_complex_case_run()
  nSkipped,  \* n_skipped
  nFailed,   \* n_failed
  executed,  \* history: bodies of the current case that were executed
  done,      \* the cases that have a result
  hasRun,    \* has_run
  outer,     \* the run that is waiting for the one within it
  again,     \* history: there has been a run within the run
  proc,      \* how the process stands
  status,    \* its exit status
  testCount, \* test_count
  plans,     \* the test plans written, in order
  lines,     \* written result lines: [ok, notOk]
  listed,    \* the cases written by -l
  bail       \* "Bail out!": not written, in stdio's buffer, or delivered

inputVars  == <<tests, listOnly, keepGoing>>
loopVars   == <<ix, unit, verdict, nSkipped, nFailed, executed>>
nestVars   == <<hasRun, outer, again>>
sharedVars == <<leaving, once, stdout>>
procVars   == <<proc, status>>
output     == <<testCount, plans, lines, listed, bail>>
vars == <<inputVars, pc, sharedVars, loopVars, done, nestVars, procVars, output>>

Stay == [how |-> "stay", status |-> 0]

(* No run is waiting.  A run that does has its local variables saved, and   *)
(* is continued where the one within it was called.                         *)
NoRun == [back |-> "none"]

(* A process that has done nothing yet. *)
Fresh ==
  /\ leaving = [t \in Threads |-> Stay]
  /\ stdout = Free
  /\ ix = 1 /\ unit = 0 /\ verdict = "INVALID"
  /\ nSkipped = 0 /\ nFailed = 0 /\ executed = 0
  /\ done = {} /\ hasRun = FALSE /\ outer = NoRun /\ again = FALSE
  /\ proc = "running" /\ status = 0
  /\ testCount = 0 /\ plans = <<>> /\ listed = {} /\ bail = "none"
  /\ lines = [ok |-> 0, notOk |-> 0]

(* gtu_init() has returned; -l has disabled the plan. *)
Init ==
  /\ tests \in Suites
  /\ listOnly \in BOOLEAN
  /\ keepGoing \in BOOLEAN
  /\ pc = [t \in Threads |-> IF t = Main THEN "program" ELSE "user"]
  /\ once = IF listOnly THEN "done" ELSE "open"
  /\ Fresh

At(t, place) == proc = "running" /\ pc[t] = place
Goto(t, place) == pc' = [pc EXCEPT ![t] = place]

(* exit(): the handlers run on the calling thread. *)
CallExit(t, code) ==
  /\ leaving' = [leaving EXCEPT ![t] = [how |-> "exit", status |-> code]]
  /\ Goto(t, "exiting")

(* The low eight bits of the status are all that a parent gets. *)
ExitStatus(n) == n % 256

-----------------------------------------------------------------------------
(* The program around the run.                                              *)

(* mutant: the plan is left out *)
CallRunUnplanned ==
  /\ At(Main, "program")
  /\ Goto(Main, "next")
  /\ UNCHANGED <<inputVars, sharedVars, loopVars, done, nestVars, procVars, output>>

(* main() calls gtu_test_suite_run(): the cases are collected and counted.  *)
CallRun ==
  /\ At(Main, "program")
  /\ Goto(Main, "plan")
  /\ UNCHANGED <<inputVars, sharedVars, loopVars, done, nestVars, procVars, output>>

(* main() returns without having run a suite. *)
EndProgram ==
  /\ At(Main, "program")
  /\ \E code \in {0, 1} : CallExit(Main, code)
  /\ UNCHANGED <<inputVars, once, stdout, loopVars, done, nestVars, procVars, output>>

(* The program's code that is called by the run: a body, or the function    *)
(* that frees the target of one.                                            *)
InUserCode == At(Main, "body") \/ At(Main, "dispose")

(* That code calls gtu_test_suite_run() with the suite that is being run:   *)
(* has_run is not set before the end of a run.  Bound: one run within       *)
(* another.                                                                 *)
CallRunWithin ==
  /\ InUserCode
  /\ ~hasRun /\ outer = NoRun
  /\ outer' = [back |-> pc[Main], ix |-> ix, unit |-> unit, verdict |-> verdict,
               nSkipped |-> nSkipped, nFailed |-> nFailed, executed |-> executed]
  /\ again' = TRUE
  /\ ix' = 1 /\ unit' = 0 /\ verdict' = "INVALID"
  /\ nSkipped' = 0 /\ nFailed' = 0 /\ executed' = 0
  /\ Goto(Main, "plan")
  /\ UNCHANGED <<inputVars, sharedVars, done, hasRun, procVars, output>>

(* Any other second run is refused with a critical of libgtu's own domain.  *)
RefuseRun ==
  /\ \/ InUserCode /\ hasRun
     \/ At(Main, "next") /\ ix > Len(tests) /\ outer = NoRun
  /\ leaving' = [leaving EXCEPT ![Main] = [how |-> "trap", status |-> 99]]
  /\ Goto(Main, "bail")
  /\ UNCHANGED <<inputVars, once, stdout, loopVars, done, nestVars, procVars, output>>

-----------------------------------------------------------------------------
(* The test plan.                                                           *)

(* mutant: the line of the complex case itself is not counted *)
LinesUnits(test) == IF test.complex THEN test.units ELSE 1

(* count_tests() *)
Lines(test) == IF test.complex THEN test.units + 1 ELSE 1

(* The lines that will be written: of each case, the first, second and so on. *)
LinesOf(suite, i) == {i} \X (1..Lines(suite[i]))
PlanSize(suite) == Cardinality(UNION {LinesOf(suite, i) : i \in DOMAIN suite})

(* g_once_init_enter(): true for the first caller only, to the others false *)
(* when the first has left.                                                 *)
EnterPlan ==
  /\ At(Main, "plan")
  /\ \/ once = "open" /\ once' = "busy" /\ Goto(Main, "planning")
     \/ once = "done" /\ once' = once /\ Goto(Main, "next")
  /\ UNCHANGED <<inputVars, leaving, stdout, loopVars, done, nestVars, procVars, output>>

(* mutant: the guard is opened again *)
PrintPlanAgain ==
  /\ At(Main, "planning")
  /\ stdout = Free
  /\ plans' = Append(plans, PlanSize(tests))
  /\ once' = "open"
  /\ Goto(Main, "next")
  /\ UNCHANGED <<inputVars, leaving, stdout, loopVars, done, nestVars, procVars,
                 testCount, lines, listed, bail>>

PrintPlan ==
  /\ At(Main, "planning")
  /\ stdout = Free
  /\ plans' = Append(plans, PlanSize(tests))
  /\ once' = "done"
  /\ IF PlanSize(tests) = 0
     THEN CallExit(Main, 0)
     ELSE Goto(Main, "next") /\ UNCHANGED leaving
  /\ UNCHANGED <<inputVars, stdout, loopVars, done, nestVars, procVars,
                 testCount, lines, listed, bail>>

-----------------------------------------------------------------------------
(* run_test(), and _gtu_complex_case_run() within it.                       *)

test == tests[ix]
AtTest == At(Main, "next") /\ ix <= Len(tests)

(* A case the run within this one has already dealt with. *)
PassTest ==
  /\ AtTest
  /\ ix \in done
  /\ ix' = ix + 1
  /\ UNCHANGED <<inputVars, pc, sharedVars, unit, verdict, nSkipped, nFailed,
                 executed, done, nestVars, procVars, output>>

(* mutant: the run does not advance *)
ListPathStuck == AtTest /\ listOnly /\ UNCHANGED vars

(* mutant: the index is advanced first *)
ListPathLate ==
  /\ AtTest /\ listOnly
  /\ listed' = listed \cup {ix + 1}
  /\ ix' = ix + 1
  /\ UNCHANGED <<inputVars, pc, sharedVars, unit, verdict, nSkipped, nFailed,
                 executed, done, nestVars, procVars, testCount, plans, lines, bail>>

(* -l writes the path, past the lock, whatever -s says of it. *)
ListPath ==
  /\ AtTest /\ listOnly
  /\ listed' = listed \cup {ix}
  /\ ix' = ix + 1
  /\ UNCHANGED <<inputVars, pc, sharedVars, unit, verdict, nSkipped, nFailed,
                 executed, done, nestVars, procVars, testCount, plans, lines, bail>>

(* mutant: the body is entered whatever context there is *)
ExecInnerUnchecked == Goto(Main, "body") /\ UNCHANGED proc

(* _gtu_test_case_exec_inner() asserts that there is no context yet.        *)
ExecInner ==
  IF outer # NoRun /\ outer.back = "body"
  THEN proc' = "aborted" /\ UNCHANGED pc
  ELSE Goto(Main, "body") /\ UNCHANGED proc

RunTest ==
  /\ AtTest /\ ~listOnly
  /\ ix \notin done
  /\ executed' = 0
  /\ \/ /\ test.excluded
        /\ verdict' = "SKIP"
        /\ Goto(Main, "number")
        /\ UNCHANGED <<unit, proc>>
     \/ /\ ~test.excluded /\ ~test.complex
        /\ ExecInner
        /\ UNCHANGED <<unit, verdict>>
     \/ /\ ~test.excluded /\ test.complex
        /\ unit' = 1
        /\ Goto(Main, "units")
        /\ UNCHANGED <<verdict, proc>>
  /\ UNCHANGED <<inputVars, sharedVars, ix, nSkipped, nFailed, done, nestVars,
                 status, output>>

(* mutant: a failure does not keep the next subunit from being executed *)
NextUnitRegardless ==
  /\ At(Main, "units")
  /\ unit <= test.units
  /\ ExecInner
  /\ UNCHANGED <<inputVars, sharedVars, loopVars, done, nestVars, status, output>>

(* The loop over the subunits: after a failure they are written, not run.   *)
NextUnit ==
  /\ At(Main, "units")
  /\ unit <= test.units
  /\ IF verdict = "FAIL" THEN Goto(Main, "number") /\ UNCHANGED proc ELSE ExecInner
  /\ UNCHANGED <<inputVars, sharedVars, loopVars, done, nestVars, status, output>>

(* mutant: the result of the case is stored after its disposal *)
BodyUnrecorded ==
  /\ At(Main, "body")
  /\ \E v \in Verdicts : verdict' = v
  /\ executed' = executed + 1
  /\ Goto(Main, IF unit = 0 THEN "dispose" ELSE "number")
  /\ UNCHANGED <<inputVars, sharedVars, ix, unit, nSkipped, nFailed, done,
                 nestVars, procVars, output>>

(* The body ends.  A simple case has its result, and is disposed of.        *)
Body ==
  /\ At(Main, "body")
  /\ \E v \in Verdicts : verdict' = v
  /\ executed' = executed + 1
  /\ IF unit = 0
     THEN done' = done \cup {ix} /\ Goto(Main, "dispose")
     ELSE done' = done /\ Goto(Main, "number")
  /\ UNCHANGED <<inputVars, sharedVars, ix, unit, nSkipped, nFailed, nestVars,
                 procVars, output>>

(* func_target_destroy() returns; that of a subclass frees nothing here.    *)
Dispose ==
  /\ At(Main, "dispose")
  /\ Goto(Main, "number")
  /\ UNCHANGED <<inputVars, sharedVars, loopVars, done, nestVars, procVars, output>>

(* An assertion of the user's in func_target_destroy() finds no context.    *)
AssertOutside ==
  /\ At(Main, "dispose")
  /\ proc' = "aborted"
  /\ UNCHANGED <<inputVars, pc, sharedVars, loopVars, done, nestVars, status, output>>

(* mutant: the verdict of the last subunit, whatever the others came to *)
SummaryOfLast == IF verdict = "INVALID" THEN "PASS" ELSE verdict

(* mutant: no case for a failure *)
SummaryOfSkips ==
  IF verdict = "SKIP" /\ nSkipped = test.units THEN "SKIP" ELSE "PASS"

(* The verdict of the whole complex case. *)
Summary ==
  IF verdict = "FAIL" \/ (verdict = "SKIP" /\ nSkipped = test.units)
  THEN verdict ELSE "PASS"

AfterUnits ==
  /\ At(Main, "units")
  /\ unit > test.units
  /\ verdict' = Summary
  /\ unit' = 0
  /\ done' = done \cup {ix}
  /\ Goto(Main, "number")
  /\ UNCHANGED <<inputVars, sharedVars, ix, nSkipped, nFailed, executed, nestVars,
                 procVars, output>>

(* log_test_result(): take the next number, then write the line. *)
NumberResult ==
  /\ At(Main, "number")
  /\ testCount' = testCount + 1
  /\ Goto(Main, "print")
  /\ UNCHANGED <<inputVars, sharedVars, loopVars, done, nestVars, procVars, plans,
                 lines, listed, bail>>

WriteLine ==
  /\ stdout = Free
  /\ lines' = IF verdict = "FAIL" THEN [lines EXCEPT !.notOk = @ + 1]
                                  ELSE [lines EXCEPT !.ok = @ + 1]

PrintUnit ==
  /\ At(Main, "print")
  /\ unit > 0
  /\ WriteLine
  /\ nSkipped' = IF verdict = "SKIP" THEN nSkipped + 1 ELSE nSkipped
  /\ unit' = unit + 1
  /\ Goto(Main, "units")
  /\ UNCHANGED <<inputVars, sharedVars, ix, verdict, nFailed, executed, done,
                 nestVars, procVars, testCount, plans, listed, bail>>

PrintResult ==
  /\ At(Main, "print")
  /\ unit = 0
  /\ WriteLine
  /\ nFailed' = IF verdict = "FAIL" THEN nFailed + 1 ELSE nFailed
  /\ ix' = ix + 1 /\ verdict' = "INVALID" /\ nSkipped' = 0
  /\ Goto(Main, "next")
  /\ UNCHANGED <<inputVars, sharedVars, unit, executed, done, nestVars, procVars,
                 testCount, plans, listed, bail>>

(* gtu_test_suite_run() returns: to main(), which returns what it returned, *)
(* or to the code that called it within a run.                              *)
ReturnFromRun ==
  /\ At(Main, "next")
  /\ ix > Len(tests)
  /\ hasRun' = TRUE
  /\ \/ /\ outer = NoRun
        /\ CallExit(Main, nFailed)
        /\ UNCHANGED <<loopVars, outer>>
     \/ /\ outer # NoRun
        /\ outer' = NoRun
        /\ ix' = outer.ix /\ unit' = outer.unit /\ verdict' = outer.verdict
        /\ nSkipped' = outer.nSkipped /\ nFailed' = outer.nFailed
        /\ executed' = outer.executed
        /\ Goto(Main, outer.back)
        /\ UNCHANGED leaving
  /\ UNCHANGED <<inputVars, once, stdout, done, again, procVars, output>>

RunStep ==
  \/ CallRun \/ EnterPlan \/ PrintPlan \/ PassTest \/ ListPath \/ RunTest
  \/ NextUnit \/ Body \/ Dispose \/ AfterUnits \/ NumberResult \/ PrintUnit
  \/ PrintResult \/ ReturnFromRun

-----------------------------------------------------------------------------
(* gtu_log_bail_out() and the end of the process.                           *)

(* A fatal message, or an assertion without -k, in a body or on a worker;   *)
(* or any warning where no test is running.                                 *)
BailOut(t) ==
  /\ IF t = Main THEN InUserCode ELSE At(t, "user")
  /\ \E how \in {"bail", "trap"} :
       /\ how = "trap" \/ ~(keepGoing \/ pc[t] = "dispose")
       /\ leaving' = [leaving EXCEPT ![t] = [how |-> how, status |-> 99]]
  /\ Goto(t, "bail")
  /\ UNCHANGED <<inputVars, once, stdout, loopVars, done, nestVars, procVars, output>>

(* Pre-empt the atexit() handler. *)
DisablePlan(t) ==
  /\ At(t, "bail")
  /\ once # "busy"
  /\ once' = "done"
  /\ Goto(t, "bailing")
  /\ UNCHANGED <<inputVars, leaving, stdout, loopVars, done, nestVars, procVars, output>>

(* mutant: give the lock back after the line *)
SayBailOutUnlocked(t) ==
  /\ At(t, "bailing")
  /\ stdout = Free
  /\ bail' = IF LineBuffered THEN "delivered" ELSE "buffered"
  /\ Goto(t, "exiting")
  /\ UNCHANGED <<inputVars, sharedVars, loopVars, done, nestVars, procVars,
                 testCount, plans, lines, listed>>

(* Take the lock for good, write the line, then g_abort() or exit (99).     *)
SayBailOut(t) ==
  /\ At(t, "bailing")
  /\ stdout = Free
  /\ stdout' = t
  /\ bail' = IF LineBuffered THEN "delivered" ELSE "buffered"
  /\ Goto(t, IF leaving[t].how = "trap" THEN "abort" ELSE "exiting")
  /\ UNCHANGED <<inputVars, leaving, once, loopVars, done, nestVars, procVars,
                 testCount, plans, lines, listed>>

(* SIGABRT: stdio's buffers are not flushed. *)
Abort(t) ==
  /\ At(t, "abort")
  /\ proc' = "trapped"
  /\ UNCHANGED <<inputVars, pc, sharedVars, loopVars, done, nestVars, status, output>>

(* The program's own atexit() handler, registered after gtu_init(). *)
UserAtexit(t) ==
  /\ At(t, "exiting")
  /\ AtexitLogs => stdout = Free
  /\ Goto(t, "atexit")
  /\ UNCHANGED <<inputVars, sharedVars, loopVars, done, nestVars, procVars, output>>

(* mutant: the exit handler does nothing *)
LogNoPlan(t) ==
  /\ At(t, "atexit")
  /\ Goto(t, "exit")
  /\ UNCHANGED <<inputVars, sharedVars, loopVars, done, nestVars, procVars, output>>

(* log_empty_plan(): unless there was a plan or it was disabled, write an   *)
(* empty one and exit (0), whatever the status was to be.                   *)
LogEmptyPlan(t) ==
  /\ At(t, "atexit")
  /\ \/ /\ once = "open" /\ stdout = Free
        /\ once' = "done"
        /\ plans' = Append(plans, 0)
        /\ leaving' = [leaving EXCEPT ![t].status = 0]
     \/ /\ once = "done"
        /\ UNCHANGED <<once, plans, leaving>>
  /\ Goto(t, "exit")
  /\ UNCHANGED <<inputVars, stdout, loopVars, done, nestVars, procVars, testCount,
                 lines, listed, bail>>

(* Flush and end.  Where two threads are in exit(), either may get here.    *)
Exit(t) ==
  /\ At(t, "exit")
  /\ proc' = "exited"
  /\ status' = ExitStatus(leaving[t].status)
  /\ bail' = IF bail = "buffered" THEN "delivered" ELSE bail
  /\ UNCHANGED <<inputVars, pc, sharedVars, loopVars, done, nestVars, testCount,
                 plans, lines, listed>>

EndStep(t) ==
  \/ DisablePlan(t) \/ SayBailOut(t) \/ Abort(t)
  \/ UserAtexit(t) \/ LogEmptyPlan(t) \/ Exit(t)

Stop == proc # "running" /\ UNCHANGED vars

Next ==
  \/ RunStep
  \/ EndProgram \/ CallRunWithin \/ RefuseRun \/ AssertOutside
  \/ \E t \in Threads : BailOut(t) \/ EndStep(t)
  \/ Stop

(* Threads are scheduled, bodies end, and main() runs the suite or returns. *)
Fairness ==
  /\ WF_vars(RunStep \/ EndProgram)
  /\ \A t \in Threads : WF_vars(EndStep(t))

Spec == Init /\ [][Next]_vars
FairSpec == Spec /\ Fairness

-----------------------------------------------------------------------------
(* The places of gtu_init(), in module Startup. *)
StartPlace == {"parse", "test_init", "mask", "handler", "writer", "register",
               "probe", "probing", "finding", "probed", "suppress", "push",
               "initialized"}

MainPlace == {"program", "plan", "planning", "next", "body", "dispose", "units",
              "number", "print"}
EndPlace == {"bail", "bailing", "abort", "exiting", "atexit", "exit"}
Verdict == {"INVALID", "PASS", "SKIP", "FAIL"}

WaitingRun ==
  [back: {"body", "dispose"}, ix: Nat, unit: Nat, verdict: Verdict,
   nSkipped: Nat, nFailed: Nat, executed: Nat]

(* Each variable has values of its kind. *)
TypeOK ==
  /\ tests \in Suites
  /\ listOnly \in BOOLEAN /\ keepGoing \in BOOLEAN
  /\ pc \in [Threads -> StartPlace \cup MainPlace \cup EndPlace \cup {"user", "stuck"}]
  /\ leaving \in [Threads -> [how: {"stay", "exit", "bail", "trap", "refuse"}, status: Nat]]
  /\ once \in {"open", "busy", "done"}
  /\ stdout \in Threads \cup {Free}
  /\ ix \in 1..(Len(tests) + 1) /\ unit \in Nat /\ verdict \in Verdict
  /\ nSkipped \in Nat /\ nFailed \in Nat /\ executed \in Nat
  /\ done \subseteq 1..Len(tests)
  /\ hasRun \in BOOLEAN /\ again \in BOOLEAN
  /\ outer \in WaitingRun \cup {NoRun}
  /\ proc \in {"running", "trapped", "aborted", "exited", "undefined"} /\ status \in 0..255
  /\ testCount \in Nat /\ plans \in Seq(Nat) /\ listed \subseteq 1..Len(tests)
  /\ lines \in [ok: Nat, notOk: Nat]
  /\ bail \in {"none", "buffered", "delivered"}

Written == lines.ok + lines.notOk

(* Somebody ends the process before its time. *)
Quitting == \E t \in Threads : leaving[t].how \in {"bail", "trap", "refuse"}

(* The run came to its end: main() returned n_failed, nobody bailed out.    *)
Completed ==
  proc = "exited" /\ ~Quitting /\ tests # <<>> /\ ix > Len(tests)

(* A program that runs its suite to the end writes as many lines as its     *)
(* plan announced, through failures, skips and abandoned complex cases, as  *)
(* long as no complex case was left out by -s, and through a run within the *)
(* run, as long as no case was (run.c:10-44 against 50-64,                  *)
(* complex.c:110-154).                                                      *)
PlanKept ==
  Completed /\ ~listOnly /\ (\A i \in DOMAIN tests :
                               tests[i].excluded => ~(tests[i].complex \/ again))
    => plans # <<>> /\ plans[1] = Written /\ testCount = Written

(* logio.h:15-17 without the proviso.                                       *)
PlanAlwaysKept ==
  Completed /\ ~listOnly => plans # <<>> /\ plans[1] = Written

(* Whoever gets to it first, of the run, a bail-out and the exit handler,   *)
(* the harness sees at most one plan, and none from -l; a program that ends *)
(* by itself without -l has written exactly one (tap.c:58-81,103-104,       *)
(* glib-handlers.c:161-163,202-205).                                        *)
OnePlan ==
  /\ Len(plans) <= 1
  /\ listOnly => plans = <<>>
  /\ proc = "exited" /\ ~Quitting /\ ~listOnly => Len(plans) = 1

(* A result is never written before the plan, unless the plan was given up  *)
(* to a bail-out that is under way.                                         *)
PlanFirst ==
  Written > 0 /\ plans = <<>> => Quitting

(* The exit status of a completed run of fewer than 256 cases is never more *)
(* than the number of lines that said "not ok", and zero only when there    *)
(* was none, unless a run within the run kept its failures to itself        *)
(* (run.c:37-40,58-67, complex.c:156-175).                                  *)
StatusTellsFailure ==
  Completed /\ Len(tests) < 256 =>
    /\ status = 0 => lines.notOk = 0 \/ again
    /\ status <= lines.notOk

(* A complex case is skipped just when each of its subunits was, and failed *)
(* when some of its subunits were never executed.                           *)
SummaryHonest ==
  At(Main, "number") /\ unit = 0 /\ executed > 0 /\ test.complex =>
    /\ verdict = "SKIP" <=> executed = nSkipped
    /\ executed < test.units => verdict = "FAIL"

(* No body is executed within another, and none a second time, wherever in  *)
(* a run another one is started: one is prevented by an assertion, the      *)
(* other by the results stored before any code of the program is called     *)
(* again (run-setjmp.c:91, run.c:10, run-init.c:72,83,94).                  *)
BodiesOnce ==
  At(Main, "body") =>
    /\ ix \notin done
    /\ outer # NoRun => outer.back = "dispose" /\ outer.ix # ix

(* logio.h:45-46: the harness is told before the program is ended.          *)
TrapIsSignalled == proc = "trapped" => bail = "delivered"

-----------------------------------------------------------------------------
(* The harness hears nothing more after "Bail out!": the lock is never      *)
(* given back, and whoever wants to write waits (tap.c:103-122).  What -l   *)
(* writes does not take the lock and is excepted.                           *)
SilentAfterBailOut ==
  [][bail # "none" => UNCHANGED <<plans, lines>>]_vars

(* gtu-complex.h:12-13: once a subunit has failed, no further subunit of    *)
(* the case is executed.                                                    *)
AbandonedAfterFailure ==
  [][unit > 0 /\ verdict = "FAIL" /\ outer' = outer => executed' = executed]_vars

(* What the harness sees is a stream as TapStream promises it: every step   *)
(* of the run and of whoever ends the process writes one item of the stream *)
(* in its turn or nothing at all.                                           *)
Stream == INSTANCE TapStream WITH
  plan <- plans,
  givenUp <- once = "done" /\ plans = <<>>,
  results <- Written,
  bailedOut <- bail # "none",
  end <- IF proc = "running" THEN "open"
         ELSE IF proc = "exited" /\ status = 0 THEN "success" ELSE "failure"

ImplementsStream == Stream!Spec

-----------------------------------------------------------------------------
(* logio.h:45-46: a bail-out ends the program. *)
BailOutEnds == bail # "none" ~> proc # "running"
=============================================================================
