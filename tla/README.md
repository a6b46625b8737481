# giitestutils in TLA+

giitestutils (libgtu) is a C library for unit tests. A program builds a tree of
suites and cases and hands it to `gtu_test_suite_run()`, which executes the
cases and writes TAP to a harness. This directory holds TLA+ models of the
library, the TLC runs that check them and theorems checked by TLAPS. File
references such as `run-init.c:45` are to `src/src/**` and `src/include/**`.

What makes so small a library hard to get right:

* A test body is left by `longjmp()`. A log message that fails the test leaves
  it from inside `g_logv()`, by rewriting the return address of that frame
  (`log/hooks.c:9-121`).
* Every GLib message of every thread passes through one stack of hooks, and the
  hook of the running test appears and disappears while other threads log.
* A bail-out may come from any thread at any moment. It takes the lock on
  stdout for good and calls `exit()`, whose handlers write to stdout again.
* Objects are floating references in a tree of bare parent pointers and cached
  paths, invalidated by a signal that travels down the tree.

## 1. Inventory

| Component | State | Operations | Meets the others through |
|---|---|---|---|
| Test case execution (`test-case/run-init.c`, `run-setjmp.c`, `test-case.c`) | result and `has_disposed` of a case, `_current_tr_context` with its `jmp_buf` | run, exec_inner, preempt, assertion, skip, dispose | pushes and pops `log_hook`; bails out without `-k` |
| Expected messages (`test-case/expect.c`) | `expected_msgs` of a case | expect_message, expect_check, expect_count | `log_hook` reads and counts, from any thread |
| Log hooks (`log/hooks.c`) | hook stack, its mutex | scan, push, pop, do_abort | called by the GLib handlers; calls `log_hook` and `verbosity_handler` |
| GLib handlers (`log/glib-handlers.c`) | fatal masks | classify, show, trap, exit handler | GLib above, hooks and TAP below |
| TAP output (`log/tap.c`) | once-only plan, stdout lock, test number | plan, result, bail-out | run loop, every bailing thread, `exit()` |
| Suite run (`test-suite/run.c`, `test-suite.c`) | `has_run`, failures, the collected cases | run (also from within a run), count, list | cases, TAP, arguments |
| Complex cases (`test-case/complex.c`) | subunit, skips, verdict | loop over the subunits, summary | writes its own result lines |
| Object tree (`object.c`, `test-suite.c`, `test-case.c`) | references, floating flag, parent, children, cached path, target of a case | new, ref, unref, ref_sink, add, get_path, ancestry-changed, dispose, the GValue table | the run holds pointers into it |
| Paths (`path.c`) | elements, cached string | parse, prepend, append, prefix, should_run | object tree, `-p` and `-s` |
| Initialisation (`init.c`, `flags.c`) | arguments, GLib's masks, which handlers are installed, the address of `g_logv()` | parse arguments, gtu_init | installs all handlers, one by one, while other threads log |
| Formatting, colours, macros, bindings | none | none | none |

What makes each correct, and what is hard about it:

* Cases: each is run once, its verdict tells how the body ended, and it is
  disposed of when nobody can reach its expectations. Hard: longjmp() out of a
  lock, an array that moves under its reader, warnings on other threads.
* Hooks: the mutex is held exactly during a scan, and the stack does not change
  under one. Hard: four ways out, one of which does not return.
* TAP: one plan, kept, before the results; silence after "Bail out!"; an exit
  status that agrees with the lines. Hard: three writers and `exit()` reentered.
* Run: every body once, as many lines as announced, no failure forgotten. Hard:
  code of the program is called in the middle and may start the run again.
* Initialisation: nothing is run with arguments that are refused, and a message
  that traps says so to the harness. Hard: between two installations a message
  meets only half of the handlers, and GLib has the last word on an error.
* Object tree: no leak, no early free, paths current and distinct. Hard: who
  adopts a floating reference, what the targets of cases keep alive, and calls in
  the middle of a signal.

`PROJECT.json` lists the hazards, each at its line, with the properties that
would catch it.

## 2. Modules

| Module | Models | Uses |
|---|---|---|
| `LogPolicy` | pure operators: the FATAL bit on arrival, matching of an expectation, the action each hook asks for | |
| `CaseRun` | execution of simple cases on the main thread, messages of all threads through the hooks, expectations, assertions, skips, disposal | `LogPolicy`, `CaseLife` |
| `CaseLife` | abstract: what the run loop is promised of the execution of cases | |
| `CaseRun_proofs` | theorems about `CaseRun`: invariants, action properties, the implementation of `CaseLife`, verdicts, counts, and a program whose workers log calmly | `CaseRun` |
| `SuiteRun` | the run loop, complex cases, plan and result lines, a run within the run, bail-out and the end of the process | `TapStream` |
| `TapStream` | abstract: what the harness is promised of a test program | |
| `SuiteRun_proofs` | theorems about `SuiteRun`: the inductive invariant, what rests on it alone, the implementation of `TapStream` | `SuiteRun` |
| `SuiteRun_report_proofs` | that exit status and summaries are honest and the plan is kept | `SuiteRun_proofs` |
| `Startup` | the arguments, `gtu_init()` step by step with other threads logging, then the program of `SuiteRun` | `SuiteRun` |
| `Startup_proofs` | theorems about `Startup`, and those of `SuiteRun` from its beginning on | `Startup`, `SuiteRun_report_proofs` |
| `ObjectTree` | references, the tree, the signal, targets, GValues, paths as sequences of names, the run's hold on them | |
| `ObjectTree_proofs` | the theorem that references are counted exactly | `ObjectTree` |
| `ObjectTree_paths_proofs` | theorems about cycles, paths and the cases collected | `ObjectTree_proofs`, `Induction` |
| `Paths` | path objects of characters, the parser, the cached string, prefixes and `-s` | |
| `Paths_proofs` | theorems about all of `Paths` | `Paths`, `Induction` |
| `Induction` | induction over the numbers and functions defined by recursion, with sets for predicates | |
| `MCCaseRun`, `MCSuiteRun`, `MCStartup`, `MCObjectTree`, `MCPaths` | values of the constants for TLC | the module of that name |

### LogPolicy and CaseRun

A message has a domain, a level, one of a few texts that regular expressions
tell apart, and the function it arrived through. A pattern is a domain, a set
of levels and the set of texts its regular expression matches. Levels that
every switch of the code treats alike (info, debug) are one level.

`pc` holds the place of each thread. One action is one step between two points
where another thread can change what is read next: `LockHooks` is the
`g_mutex_lock()` of `invoke_hooks()`, `Verbosity` and the `LogHook...` actions
are one hook of the scan each, `MarkMessage` and `MarkFailed` the stores through the context
fetched by fetched by `LogHookFail`. `Unwind` is `do_abort()`: GLib's clean-up runs (the
recursion count `depth` goes down) and `Preempt` is the `longjmp()`.
`Expect`/`FillExpectation` are the two halves of `expect_message()`, between
which another thread can see a zeroed element. `Expect` may also move the array,
without a lock: any of the threads that read it (`Reading`) may be left in the
old block. `LogHookFind` and `LogHookCount` are two steps because of that; a
thread with a stale pointer counts in vain (`LogHookMiscount`) or writes into
what has been put there since (`LogHookClobber`). `AssertFail`/`AssertLeave` and
`SkipReached`/`SkipLeave` are split before their stores, for the same reason.
In front of `Dispose` the destructor of the function's target is code of the
program: it may log (`DestroyLog`), or fail an assertion for which there is no
context (`DestroyAssert`). A level that GLib has no name for runs into the
`g_assert_not_reached()` of `flags.c:65` (`VerbosityAssert`).

The process ends in one of four ways: `trapped` (a fatal message), `bailed`
(`exit (99)` of a failed assertion), `aborted` (an assertion of the library or
of GLib), `undefined` (freed memory, a NULL pointer, `longjmp()` on the wrong
thread). Reading freed or unfilled memory is always taken to be the end; the
model looks no further.

`CaseLife` knows the running case, the verdicts, the disposed cases and the end
of the process. `CaseRun` implements it (`ImplementsLife`) under the mapping of
`cur`, `result`, `{c : disposed[c]}` and `proc # "running"`: `Begin`,
`ReadVerdict` and `Dispose` are its steps, whatever ends the process is its
`End`, and everything that messages, bodies and `longjmp()` do is a stutter.

History variables: `cause` (what the body did to end itself), `seen` (matching
messages since the last count) and `moved` (the cases whose array moved under a
reader) exist for the properties only.

### SuiteRun and TapStream

The suite is flattened, as `_gtu_test_object_collect_tests()` leaves it; a case
is its number of subunits and whether the arguments leave it out. What a body
comes to is any verdict or a bail-out: `CaseRun` has the reasons. `once` is the
`g_once_init_enter()` guard of the plan, `stdout` the stream lock. `leaving`
is what a thread in `exit()` or `g_abort()` means to do. When two threads are in
`exit()`, either may end the process: the model does not serialise them.
`bail = "buffered"` is a line that stdio still holds: with stdout a pipe,
`exit()` flushes it and SIGABRT does not.

Code of the program is called in two places, the body of a case and, in
`Dispose`, the function that frees its target. Both may call
`gtu_test_suite_run()` again (`CallRunWithin`), which is accepted because
`has_run` is set when a run is over (`test-suite.c:66,79`). The local variables of
the run that waits are saved in `outer`; `done` is the result that each case has
stored, and `PassTest` the early return that it causes. From a body, the run
within gets as far as the assertion of `ExecInner`; from
`func_target_destroy()` it executes the rest of the suite. `AssertOutside` is an
assertion of the user's in that function, where no context is live.

`TapStream` knows the plan, whether it was given up, the number of results, a
bail-out and how the process ended. `SuiteRun` implements it
(`ImplementsStream`) under the mapping of `plans`, `once = "done"` without a
plan, the lines written, `bail # "none"`, and `proc` with `status`.

### Startup

`pc[Main]` walks through `gtu_init()`, a place for each call that other threads
can notice. `args` and `argi` are the command line and the index in
`parse_args()`; arguments that are refused end in `exit (1)` before there is an
exit handler, in "Bail out!", or in a NULL pointer that is read (`-p`).
`always` is GLib's always-fatal mask, which `g_test_init()` widens and
`gtu_log_g_install_handlers()` replaces; `installed` says which of the default
handler, the writer function, the suppress function, the verbosity hook and
`_has_initialized` are in place.

A message is a `Notice`: a level, the function it came through, and whether the
running test expects it. What it comes to follows from what is installed at the
time:

* `Silent`: GLib's own handler is in place still, or GLib lets no error pass that
  libgtu has shown (`g_log_structured()`, whose errors are not in `fatal_mask`) or
  suppressed (one that is expected): a trap without "Bail out!" (`LogEnds`);
* `Fatal`: a bail-out (`LogBails`, and `BailOut` of `SuiteRun` once the program is
  running);
* `Breaks`: the end of the process on the way through the hooks, by a warning that
  would fail the running test and cannot unwind to it (`Stray`), by a level
  without a name, or by a mild message in `g_log()` before `_has_initialized`
  is set, about which `flags.c:7` logs a critical from within `g_logv()`;
* `LogHangs`: the same through `g_log_structured()`, where the critical waits for
  the hooks that its own thread has locked. `Hung` says so from then on: no
  message gets through and no body is entered.

`Find` is the check of `find_glogv_address()` and `StoreProbe` or `StoreLate` its
store, of the main thread or of a worker whose message ran into the probe
(`Speak`); no lock is held in between, and a worker may store long after.
After `SetInitialized` the program of `SuiteRun` begins: `ProgramStep` is its
`Next`, with less in it where the hooks are locked for good. A program that has
called `g_test_init()` itself ends in `AssertUninitialized`.

### ObjectTree

The program, the bodies and handlers of the signal call the API in any order.
They keep to the rules of reference counting (`held` counts what the program
owns): they drop what they own, and do not drop or give away the floating
reference of what others keep alive, which nothing in an object would tell them
and which a later `gtu_test_suite_add()` would adopt. `emission` is the stack of
emissions in progress and `drops` the calls of `unref()` still to be made, so
cascades and the signal are stepwise and a handler may read paths between two
steps. `target` is the object that the `func_target` of a case owns a reference
to: disposal gives it up, after the body (`EndBody`) or in the finalizer,
whichever is first, and may so free objects in the middle of a run. `value` is
what each GValue holds; the four operations on one are the entries of the value
table (`object.c:40-112`); a copy frees what its destination held, as
`g_value_copy()` does. A name that is refused, a child that already has a
parent, or a NULL in a GValue that is copied, copied over or freed is a critical of libgtu's
own domain, which is fatal after `gtu_init()`: the process is `trapped`.
`taken` says whether the path that `run_test()` holds across the body still
exists.

### Paths

An element is a sequence of characters. The parser is a recursive function
(`Scanned`) that applies `Scan`, the body of its loop, along the text; the
properties compare it with a definition of a path by positions (`IsPath`) and
with the string the path gives back. `asked` and
`stale` remember which paths were modified after `gtu_path_to_string()`, which
keeps its first answer; `parsed` is the call just made. `Skip` is `gtu_init()`
with `-s` arguments, `Select` with a `-p`. The paths of `ObjectTree` are
sequences of names: what it needs of this module is that they are told apart.

## 3. Runs

| Run | Kind | States | Shows |
|---|---|---|---|
| `case_calm` | pass | 750,000 | messages of every named level in the bodies, two expectations that may overlap, destructors that log, a worker whose messages no `log_hook` acts on: no assertion of the library fails, counts are right, verdicts are honest |
| `case_threads` | pass | 267,000 | a worker logs anything while two cases begin, expect messages, end and are disposed of: mutex, hook stack, recursion count, counts and verdicts, the refinement of `CaseLife`, and both liveness properties |
| `suite_run` | pass | 536,000 | from the first argument to the end of the process, every kind of suite, two workers that log and bail out, a run within the run: plan, lines, bail-out and status agree, no body is executed twice, nothing runs when arguments are refused, which traps are announced, the refinement of `TapStream`, and the process ends |
| `tree` | pass | 497,000 | three suites and a case: references, cached paths, distinct names, the run's cases |
| `tree_calls` | pass | 820,000 | a target and GValues that own references, trees with cycles: references are exact, finalizers and signal come to an end where no suite is beneath itself |
| `paths` | pass | 52,000 | two paths, calls in any order, every text of up to four characters: the parser accepts the paths and nothing else, its end pointer, cached strings, `-s` |
| `case_structured` | violation | | `g_log_structured()` warnings abort the process |
| `case_worker` | violation | | a worker's warning jumps through the main thread's `jmp_buf` |
| `suite_skipped_complex` | violation | | a complex case left out by `-s` breaks the plan |
| `suite_trap` | violation | | "Bail out!" is lost when stdout is a pipe |
| `suite_atexit` | violation | | an exit handler that logs waits for its own thread |
| `tree_held_path` | violation | | a path freed by a body and used after it |

Bounds, all named in the modules or the `.cfg` files:

* `MaxLogs = 3` messages and `MaxExpect = 2` expectations. A message fails the
  test, is fatal, is suppressed or passes; three messages give one that is
  expected, one that ends a case and one that finds the state left behind.
  In `case_threads` `MaxLogs = 2`: a worker's message is in the scan of the
  first expectation while the second is appended, and one more is logged.
* Two cases: the second one meets what the first left. The hook stack is never
  deeper than two in the code either, which the theorems prove in general.
* One worker beside the main thread in `case_threads`: the properties are about
  a scan against the main thread or against another scan. Two in `suite_run`,
  where three threads can be in `exit()` at once.
* One run within another: a third is accepted under the same condition as the
  second, and meets the same `done`. The theorems share this bound.
* `SomeLines`: each argument that changes anything, and each way to be refused,
  two of them behind arguments that are good. `DebugFatal = {}`;
  `--g-fatal-warnings` has the effect that `G_DEBUG` would have.
* The suites of `SmallSuites`: no case, complex cases with zero to three
  subunits in both orders with simple ones, cases left out before ones that are
  not. Each difference between the plan and the lines shows in one of them.
* Three suites and a case: a tree of three levels under a new root is the least
  in which the signal must be passed on by a child. `MaxHeld = 1`: the program
  owns one reference to each object besides those of suites and the run.
* In `tree_calls` two suites, a case, `Shared = {s1}`, two values: one object that
  targets and values refer to, which may be the suite of the case itself, and a
  value to copy to.
* Texts of up to four characters over stroke, space and one letter, and two
  elements to a path: every way a text goes wrong, and an element that begins
  like another, fit in.

In `case_calm` the worker's messages have no domain and are no warnings, no
message has a level of the program's own, and destructors assert nothing: with
others `NoInternalFailure` is false. `case_worker` shows what a warning does; a
message that the expectations are compared with may meet the zeroed element of
`gtu_test_case_expect_message()` or write into a block that was freed. `case_threads`
has all of them. `CountsAnswer` is in both: in `case_calm` for expectations that
overlap, in `case_threads` for the array that moves.

## 4. Fairness

Weak fairness throughout: threads are scheduled by the operating system, and
no step here is a choice between the program's own alternatives alone.

* `CaseRun`: the library's own steps on each thread, and `BodyReturn`. That a
  body which is not otherwise stopped returns is an assumption about the
  program; a body that loops for ever makes the library wait for ever. The
  mutex needs no strong fairness in `case_threads` because the number of
  messages is bounded, so it cannot be taken again and again.
* `SuiteRun`: the main thread and the exit path of each thread. That bodies
  return is an assumption again. Bailing out, logging and calling a run within
  the run are never obliged to happen.
* `Startup`: the same, and the steps of `gtu_init()`, which wait for nobody.
* `ObjectTree`: the steps inside a call, since nothing can suspend them.

## 5. Proofs

Every theorem holds for every value of the constants: any set of workers, any
suites, cases and objects, any messages, patterns, command lines, values and
bounds.

| Theorem | Property | Module |
|---|---|---|
| `TypeCorrect` | `TypeOK` | `CaseRun_proofs` |
| `LockDiscipline` | `LockExact` | |
| `RecursionCountRestored` | `DepthBalanced` | |
| `NoDisposedHook` | `HookTargetAlive` | |
| `StackStableUnderScan` | `ScanStable` | |
| `VerdictIsFinal` | `VerdictFinal` | |
| `Implementation` | `ImplementsLife` | |
| `HonestVerdicts` | `VerdictHonest` | |
| `CountsRight` | `CountsAnswer` | |
| `SoundIfCalm` | `NoInternalFailure`, where workers log calmly | |
| `TypeCorrect` | `TypeOK` | `SuiteRun_proofs` |
| `PlanWrittenOnce` | `OnePlan` | |
| `PlanBeforeResults` | `PlanFirst` | |
| `NoBodyTwice` | `BodiesOnce` | |
| `NothingAfterBailOut` | `SilentAfterBailOut` | |
| `NoUnitAfterFailure` | `AbandonedAfterFailure` | |
| `StreamImplemented` | `ImplementsStream` | |
| `StatusIsHonest` | `StatusTellsFailure` | `SuiteRun_report_proofs` |
| `SummaryIsHonest` | `SummaryHonest` | |
| `PlanHonoured` | `PlanKept` | |
| `NothingRunWhenRefused` | `RefusedRunsNothing` | `Startup_proofs` |
| `TrapIsAnnounced` | `TrapSaysBailOut` | |
| `StreamFromStart` | `ImplementsStream` | |
| `RunSafeFromStart` | `TypeOK`, `OnePlan`, `PlanFirst`, `BodiesOnce` | |
| `ReportedFromStart` | `PlanKept`, `StatusTellsFailure`, `SummaryHonest` | |
| `ReferencesExact` | `RefsExact` | `ObjectTree_proofs` |
| `DistinctPaths` | `PathsDistinct` | `ObjectTree_paths_proofs` |
| `NoCycleAtRest` | no object is its own ancestor between calls | |
| `CollectedLive` | `CollectedAlive` | |
| `CurrentPaths` | `CachedPathCurrent` | |
| `TreeTypes` | `TypeOK` | |
| `ValidPaths` | `TypeOK` | `Paths_proofs` |
| `ParserRight` | `ParseRight` | |
| `EndPointer` | `EndRight` | |
| `CachedStrings` | `StringCurrent` | |
| `StemsSkipped` | `SkipsStems` | |

### CaseRun

They assume what `LogPolicy` and `CaseRun` state as `ASSUME`: the main thread is
not a worker, `Free` is not a thread, `NoCase` not a case, inputs are of their
types, there is at least one text. TLC evaluates these on every run.

`HookTargetAlive` is not inductive: that a scan stands at no disposed case
depends on where the main thread is. The invariant `IInv` adds five parts:

* `PlacesOK`: a thread inside `g_log()` returns to where its kind of thread may
  have called it from;
* `HooksOK`: the stack is the verbosity hook alone, or with the hook of the
  current case on top, exactly from the push to the pop;
* `CaseOK`: the current case is not disposed of and has a verdict exactly from
  `ReadVerdict` on; disposed cases have one;
* `ContextOK`: a context is live exactly inside `exec_inner()`, of the current
  case;
* `FoundOK`: a thread about to count has an element of the case whose hook it
  stands at.

`Home` makes this work across calls of `g_log()`: it is the place of the main
thread, or the one its log call returns to. There is one lemma per action
(`...Step`), `NextInv` combines them and `Invariance` is the temporal step. The
action properties follow from `IInv` and one case split over `Next`.

`Implementation` splits `Next` into the steps that `CaseLife` does not see
(`Unseen`: they leave the cases alone and at most end the process) and the three
that it does, whose guards there follow from `CaseOK` and `ContextOK`.

`VerdictHonest` speaks of finished cases only. The second part of the module adds
what holds on the way: nothing has been said of a case before its body starts
(`Unspoken`); inside the body nothing has ended it but a warning, its own when
the main thread is on its way out of `g_logv()` or a worker's at any time
(`BodyHonest`); from there to the end of `exec_inner()` the context holds the
verdict (`ContextHonest`); a thread about to store a failure has a context to
charge (`ChargeOK`). Most steps are one lemma, `Frame`: they move the main
thread within the body or not at all. TLC checked `HonestOK` and `IInv` on the
instance of `case_threads` before they were proved.

`CountsRight` rests on two invariants. `ScanOK`: the element a thread has found
stays the first that its message matches until it is counted, because what the
body appends meanwhile is unfilled and comes later; and a pointer is stale only
where the array of the running case moved. `CountOK`: `seen` and the array grow
together, and a count is never more than what was seen; it is less only in a case
of `moved`. No thread is excluded here: the lost counts are the code's, and what
is proved is that they are the only error.

`SoundIfCalm` has a hypothesis, `Calm`, each part of which is needed.
Workers, of which there may be any number, log only messages that no hook
acts on: warnings only where they are fatal (`case_worker` shows what another
does), and, unless bodies expect nothing at all, without a domain, since
`log_hook` compares only messages that have one with the expectations, the one
being made included. Bodies log with `g_log()` (`case_structured`). Nobody logs at
a level that GLib has no name for, since `_gtu_should_log()` asserts that there is
none. The destructor of a function's target asserts nothing, having no context.
Assertions are not fatal, since they abort by intention then. A program of one
thread that logs with `g_log()` is the case without workers.

The invariant `CalmOK` has three parts. `MainOK`, of the main thread: a message
that fails the test comes from the body, through a frame of `g_log()`, and is
charged to the context that is live (`CallOK`); no failure is in that context
while the body goes on (`Uncharged`); every expectation but the one being made
is filled (`ReadyOK`). `WorkersCalm`: a worker's message stays what it was on its
way through the hooks, whose verbosity handler only ever adds the FATAL bit, and
the worker never comes to the places that lead out of a failed test.
`Unexpecting`: where nothing can be expected, nothing is. A worker's step then
leaves the main thread's state alone (`WorkerFrame`) or ends the process by a trap,
because a `log_hook` it stands at is that of the running case, by `IInv`, and passes
the message on. TLC checked `CalmOK` on the instance of `case_calm` before it was
proved.

### SuiteRun

The assumption is `SuiteAssumption`: the main thread is not a worker, `Free` is
not a thread, suites are sequences of tests, verdicts are verdicts. The bound of
one run within another is part of the model.

`SuiteRun_proofs` has the inductive invariant `IInv`, `TypeOK` and four parts:

* `EndOK`: a thread on its way out knows how it leaves, and the plan is settled
  before it gets to say so; a written "Bail out!" has taken the lock for good;
* `PlanOK`: the plan is written while `once` is busy, and the guard, the list of
  plans, `-l` and a bail-out fit together at every place of the main thread;
* `RunOK`: place, case, subunit and verdict of the run that is going on;
* `WaitingOK`: what the run that waits has saved, and that a run started by a body
  never gets to another one.

`OnePlan` is not inductive alone: it rests on who may still write a plan, which
is in `EndOK` and `PlanOK` together. Each action is a lemma; `NextInv` combines
them. `SilentAfterBailOut`, `AbandonedAfterFailure` and `ImplementsStream` follow
from `IInv` and a case split over `Next`: a step writes one item of the stream, or
none (`StreamStep`).

`SuiteRun_report_proofs` adds `FailOK` (the failures counted by the run and by
the one that waits are lines that were written, one to a case at most), `ExitOK`
(what `main()` returns is what was counted) and `UnitsOK` (which subunits of the
case were executed and skipped).

For the plan it relates the number counted before the run to the lines
written in it. A line is a pair of a case and its number there; `Behind` says
which have been written, from the place of the run and of the one that waits.
`LinesCounted` is the heart: as many lines are written as there are behind.
`DoneOK` (cases that were passed are done or were left out) and `ApartOK` (a
run and the one that waits are never at the same case) are what makes a line
that is written one that was not behind before. At the end all lines are behind,
so that both counts are the cardinality of one finite set (`AllCounted`).

### Startup

The assumptions are `SuiteAssumption` and `StartAssumption`. `SInv` is `IInv`
with `StartOK`: the arguments passed were good ones (`ArgsOK`), nothing has been
run or written before `gtu_init()` returns (`UnstartedOK`), nor at all when an
argument is refused (`RefusedOK`); whoever bails out has status 99 and speaks
before it aborts (`BailingOK`); and which handlers are in place where
(`InstalledOK`). `TrapSaysBailOut` is part of it: a message can trap in silence
only where its handler is not installed, or where GLib does it after libgtu has
handled an error, which `lost` remembers. Nothing is assumed of `found`: workers
may run into the probe at any of its steps.

Steps of the program are steps of `SuiteRun` (`ProgramIsRun`), so `NextInv` is
used as it is, and what is proved from `IInv` holds from `main()` on
(`RunSafeFromStart`, `StreamFromStart`). `ReportedFromStart` needs more, since the
invariants of the report speak of counters that `gtu_init()` must leave as it
found them: `BlankOK`. A message is the end of the process on the spot, or, of a
worker, a bail-out or another place of its own (`MessageMoves`), and none of
these writes a result (`MessageKeepsRun`).

### ObjectTree

The assumption is `ObjectAssumption`; objects and GValues must be finitely many
for their references to be counted, but nothing is assumed of the shape of the
tree, and `Cycles` may be true: references balance there too, though the objects
on a cycle are never freed. `RefsExact` is not inductive. `OInv` adds to it the
types of what it depends on and four parts:

* `PlaceOK`: a child is in one suite only, the one its parent pointer names, and
  has no namesake there. So an object occurs once in the list of what the
  finalizer of its suite drops, where the owners are counted as a set;
* `FloatOK`: a floating reference is the program's, until the call that drops it.
  So whoever adopts it, `Add` or `Run`, takes over what the program is counted
  for;
* `TargetOK`: only live cases have targets, so that construction loses none;
* `HoldOK`: the run has its suite while there is one, and is between two cases
  only when no call is under way.

`Owed` is a sum of six numbers, four of them cardinalities. `RootMoved`,
`HeldMoved`, `TargetMoved`, `ValueMoved` and `ChildrenMoved` say what becomes of
the sum when one owner changes, the last three from `OneApart`: two sets that
agree but for one element. The lemmas for the actions then only have to add up.
The hard one is `DropLast`, a finalizer: the object that goes is owed nothing
else (`LastOne`), and each reference it had is now one about to be dropped.

`ObjectTree_paths_proofs` is about notions defined by recursion along the tree:
what is above an object, its path, what is collected from a suite. The induction
theorems of the library take a predicate, which the provers cannot instantiate; a
set stands for one here, of numbers (`Induction`) or of objects: a set of objects
from which no parent is missing has one without a parent in it, if there is no
cycle (`UpWellFounded`). All of it is stated for any function from objects to
parents and used for the tree before a step and the one after. The parts of the
invariant, each checked by TLC on three suites and on the instance of
`tree_calls` first:

* `KinOK` and `ParentsLive`: who has a parent lives, and is its child if that
  lives too. `PathsDistinct` follows, since siblings differ in name and two paths
  from one root can be followed up to where they part;
* `EmissionOK`: the stack of emissions is a path down the tree, no object twice,
  and no call of `unref()` is under way in it;
* `CycleOK`: a cycle exists only while the emission that comes around it is under
  way, and its first object is to be restarted or is still awaited. Hence
  `NoCycleAtRest`: where a suite is added beneath itself the call never returns;
* `PathOK`: a cached path is the parent's with the name appended, or the signal
  is yet to reach the object (`Pending`). When nothing is pending, induction from
  the root gives `CachedPathCurrent`;
* `RunOK`: the cases collected are distinct and the suite of the run is above each
  of them, whatever bodies add, so that they live as long as it does;
* `Bounded` and `Stages`: the counters the model bounds and the places of a run.

### Paths

The assumption is `PathAssumption`: there is a letter, stroke and space are none,
arguments and elements are sequences of characters, and `Null` is not one of them.
Texts and paths have any length, though the calls of `NewParse` are of texts up
to `MaxText`.

Parser and string are recursive functions that `Recursion` (`Induction`) shows to
exist; without it nothing is known of what a `CHOOSE` picks. `Kept` is the
invariant of the loop: what has been read is fine so far, the buffer is empty just
behind a stroke, and elements and buffer joined by strokes are the text read; or
the loop has stopped at a character after which nothing can be. `ParseIs` sums up
the parser and serves `ParseRight`, `EndRight` and, with `-s`, the skippers.

The invariant `PInv` has `StringCurrent` among its parts. It needs `CacheOK`, that
there is a string only where it was asked for: so a new path at the address of
a freed one has none, nor has a copy.

`SkipsStems` compares `HasPrefix`, which goes by elements, with strings. A stroke is
put behind both strings: then one path has the other for a prefix just when one
string begins with the other (`PrefixIsBefore`). The hard direction finds the
elements in the string one after the other (`Section`, `SameElement`): an
element has no stroke and one follows, so that neither can be the longer.

## 6. Only model-checked

Liveness: `CaseEnds`, `LogReturns`, `RunEnds` and `CallsReturn`, under the fairness
of section 4. It is beyond the prover. `RunEnds` and `CallsReturn` each except one
defect of section 7: hooks that are locked for good, and a suite beneath itself. Every invariant and action property of a
passing run is a theorem; `NoInternalFailure` under the hypothesis `Calm`, of which
`case_calm` is an instance. What the violation runs show is TLC's alone.

## 7. Where code and documents disagree

The violation runs and `findings` in `PROJECT.json` hold those a run shows.
Further ones, met while modelling, that have no run:

* Without `-k`, a warning fails the test and the run goes on; a failed
  assertion bails out. `docs/considerations/logging.md:6` has them alike
  (`LogHookFail` against `AssertFail`).
* `-l` lists what `-s` would leave out (`ListPath`); `args.xml:123` says it lists
  what would be run.
* Of two expectations that both match a message only the first counts it
  (`LogHookFind`); `gtu-case.h:169` has every handle answer for its matches.
* 256 failures make an exit status of zero (`ExitStatus`); `args.xml:176`.
* `-p` reads NULL, since it parses the argument of `-s` (`init.c:116`, `Select`).
  Were it mended, a test would have to match every one of several `-p`
  (`path.c:201-206`); `args.xml:93` has them as alternatives.
* `gtu_path_to_string()` keeps its string when the path is modified afterwards
  (`path.c:118`); `gtu-path.h` has it collect the elements.
* `*endptr` is one too far when the first character is no stroke (`path.c:21`).
* A path appended or prepended to itself never returns (`path.c:164,176`,
  `NeverEnds`).
* A run started by `func_target_destroy()` is accepted, though `gtu-suite.h` has it
  called once only, and executes the cases that are left (`CallRunWithin`). Its
  failures do not reach the exit status, and it consumes a reference to the
  suite, so the program needs another. Started by a body, it aborts at
  `run-setjmp.c:91` (`ExecInner`); so does an assertion of the user's in
  `func_target_destroy()` (`AssertOutside`).
* A message that is fatal before its handler is in place traps without a word to
  the harness; so does, at any time, an error that is structured or that a test
  expects, since GLib lets no error pass that libgtu took for dealt with
  (`glib-handlers.c:101,153`, `run-init.c:33-38`, `Silent`).
* Warnings go by, at start-up, between the mask and the verbosity hook, although
  `init.c:157` has them fatal (`Fatal`).
* `gtu_log_hooks_init()` takes a message of another thread for its own while it
  looks for `g_logv()`: the assertion of `hooks.c:187` may end a program that has
  done nothing wrong. Check and store are not under a lock (`Find`, `StoreLate`).
* Between `init.c:231` and `init.c:233` a message of another thread makes
  `flags.c:7` log within the hooks: with `g_log()` the process aborts (`Breaks`),
  with `g_log_structured()` the thread holds the hooks for ever (`LogHangs`).
* A level of the program's own, or several at once, ends in `flags.c:65`
  (`VerbosityAssert`), whichever thread logs it.
* `gtu_test_case_expect_message()` may move the array under a worker in
  `log_hook()` (`expect.c:35`): counts are lost, freed memory is read or written
  (`LogHookMiscount`, `LogHookClobber`, `LogHookCrash`).
* `complex.c:108` and `run-init.c:70` hold a path across code of the program as
  `run.c:13` does, which is the one `tree_held_path` shows.
* A GValue that holds NULL cannot be unset, copied or copied over, so one that was
  just initialised cannot receive a copy (`object.c:44-52`, `FreeValue`,
  `CopyValue`).
* Nothing in an object says whose its floating reference is: a reference added
  and dropped in the wrong order leaves one that is adopted after it has gone
  (`Unref`). A case whose target owns the suite of the case is a cycle, and
  leaks, until the case is run.
* A suite can be added beneath itself, where the ancestry signal is restarted
  for ever (`test-suite.c:25`, `Cycles`), and a child that outlives its suite
  keeps a pointer to it (`Strays`); `gtu-object.h:155` promises an ancestry that
  ends in a root.

## 8. Not modelled

* Formatting, colours, diagnostics: wording, which no property is about. Texts
  that are used as a `printf()` format (`run-setjmp.c:56`) are a matter of their
  characters and not modelled either.
* The unwinding of machine frames and the disassembly it rests on: `Unwind` is
  its effect, `Probe` who finds the address.
* What happens in the process after SIGABRT.
* `gtu_log_g_uninstall_suppress_func()`, which nothing calls.
* Type registration, class boilerplate, Vala bindings, make.
* References counted by several threads at once: the operations are single
  atomic instructions, and legal programs own what they pass.
* Calls on a case after its end, which dereference NULL for certain.
* A run within a run within a run. `ObjectTree` has one run at a time.
* Calls of `gtu_init()` without arguments or for a second time, which do nothing.
* Fields of a structured message that have a length (`glib-handlers.c:116`).

## 9. Plan

Written, most important first: `LogPolicy`, `CaseRun` with `CaseLife` and its
proofs, `SuiteRun` with the run within a run, `TapStream` and its proofs,
`Startup` and its proofs, `ObjectTree` and `Paths` and theirs. Left, in this order:

1. The bound of one run within another, which the theorems about `SuiteRun` share.
2. An abstract specification of the object tree, of which paths and references
   are what a program sees, and `ObjectTree` shown to implement it.
