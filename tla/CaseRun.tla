------------------------------ MODULE CaseRun ------------------------------
(***************************************************************************)
(* The execution of test cases: _gtu_test_case_run() with the setjmp()      *)
(* machinery its body runs under, the hook stack through which every GLib   *)
(* message of every thread passes meanwhile, and the path on which an       *)
(* unexpected message unwinds through g_logv() and stops the test.          *)
(*                                                                          *)
(* The main thread runs the cases one after another; a body is any sequence *)
(* of the operations the API offers it.  Worker threads, started by a body  *)
(* and perhaps outliving it, log whenever they like.                        *)
(*                                                                          *)
(* Sources: src/test-case/{run-init,run-setjmp,expect,test-case}.c,         *)
(* src/log/{hooks,glib-handlers}.c.  Complex cases, the run loop around     *)
(* _gtu_test_case_run() and the TAP output are in module SuiteRun.          *)
(***************************************************************************)
EXTENDS LogPolicy, FiniteSets

CONSTANTS Main,          \* the thread that called gtu_test_suite_run()
          Workers,       \* the other threads that log
          Cases,         \* the test cases
          NoCase,        \* NULL
          Free,          \* the hooks mutex when nobody holds it
          BodyMessages,  \* what a body may log
          WorkerMessages,\* what a worker may log
          DestroyMessages,\* what the destructor of a function's target may log
          DestroyAsserts,\* such a destructor may fail an assertion of its own
          Patterns,      \* what a body may expect
          KeepGoing,     \* -k
          FatalAsserts,  \* GTU_DEBUG=fatal-asserts
          MaxLogs,       \* bound: messages logged by bodies and workers
          MaxExpect      \* bound: expectations of one case

Threads == {Main} \cup Workers

ASSUME ThreadAssumption ==
  /\ Main \notin Workers
  /\ Free \notin Threads
  /\ NoCase \notin Cases

ASSUME InputAssumption ==
  /\ BodyMessages \subseteq Message
  /\ WorkerMessages \subseteq Message
  /\ DestroyMessages \subseteq Message
  /\ DestroyAsserts \in BOOLEAN
  /\ Patterns \subseteq Pattern
  /\ KeepGoing \in BOOLEAN
  /\ FatalAsserts \in BOOLEAN
  /\ MaxLogs \in Nat
  /\ MaxExpect \in Nat

(* g_info() of run-init.c: libgtu's own domain, below any warning. *)
Announcement ==
  [domain |-> "GiiTestUtils", level |-> "info",
   body |-> CHOOSE b \in Bodies : TRUE, via |-> "log"]

ASSUME BodiesAssumption == Bodies # {}

VARIABLES
  pc,        \* where each thread is
  call,      \* the g_log() call each thread is in: message, FATAL bit, the
             \*   place it returns to, the context it is to be charged to, the
             \*   expectation it was found to match, and whether the array of
             \*   expectations moved away under log_hook()'s pointer into it
  cursor,    \* the hook each thread that holds the mutex has reached
  depth,     \* GLib's per-thread count of the g_logv() calls in progress
  hooks,     \* the hook stack, top first: a case stands for log_hook with
             \*   that target, NoCase for verbosity_handler with its NULL one
  lock,      \* the mutex of the hook stack
  cur,       \* the case _gtu_test_case_run() is working on
  ctx,       \* *_current_tr_context; owner = NoCase when the pointer is NULL
  expected,  \* expected_msgs of each case
  result,    \* result of each case
  disposed,  \* has_disposed of each case
  proc,      \* how the process stands
  logs,      \* messages logged by bodies and workers (bound MaxLogs)
  cause,     \* history: what the body of each case did to end itself
  seen,      \* history: for each expectation, the messages matching it that
             \*   were logged since it was last counted
  moved      \* history: the cases whose expectations moved under a log_hook()

threadVars == <<pc, call, cursor, depth>>
hookVars   == <<hooks, lock>>
caseVars   == <<expected, result, disposed>>
history    == <<cause, seen, moved>>
vars == <<threadVars, hookVars, cur, ctx, caseVars, proc, logs, history>>

NoContext == [owner |-> NoCase, message |-> FALSE, result |-> "INVALID"]
NewContext(c) == [owner |-> c, message |-> FALSE, result |-> "PASS"]
NewCall(m, back) ==
  [msg |-> m, fatal |-> FatalOnArrival(m), back |-> back, charged |-> NoCase,
   element |-> 0, stale |-> FALSE]

MainUser == {"idle", "push", "exec", "body", "fill", "asserting", "skipping",
             "unwound", "reap", "pop", "dispose"}
Locked  == {"hook", "count", "mark", "fail"}   \* holds the hooks mutex
InGLib  == {"lock", "handled", "emit", "unwind"} \cup Locked
InLog   == InGLib \cup {"preempt"}

Init ==
  /\ pc = [t \in Threads |-> IF t = Main THEN "idle" ELSE "user"]
  /\ call = [t \in Threads |-> NewCall(Announcement, "idle")]
  /\ cursor = [t \in Threads |-> 0]
  /\ depth = [t \in Threads |-> 0]
  /\ hooks = <<NoCase>>
  /\ lock = Free
  /\ cur = NoCase
  /\ ctx = NoContext
  /\ expected = [c \in Cases |-> <<>>]
  /\ result = [c \in Cases |-> "INVALID"]
  /\ disposed = [c \in Cases |-> FALSE]
  /\ proc = "running"
  /\ logs = 0
  /\ cause = [c \in Cases |-> {}]
  /\ seen = [c \in Cases |-> <<>>]
  /\ moved = {}

At(t, place) == proc = "running" /\ pc[t] = place
Goto(t, place) == pc' = [pc EXCEPT ![t] = place]

(* The process ends: by a trap the library asked for, by exit(99), by a    *)
(* failed assertion of the library or a crash.                              *)
EndProcess(how) ==
  /\ proc' = how
  /\ UNCHANGED <<threadVars, hookVars, cur, ctx, caseVars, logs, history>>

-----------------------------------------------------------------------------
(* g_log() and g_log_structured(), as far as libgtu meets them.             *)

(* A call made while g_logv() is already in progress on the thread is taken *)
(* for a recursive one, and is fatal.                                       *)
EnterLog(t, m, back) ==
  IF depth[t] > 0 /\ m.via = "log"
  THEN proc' = "aborted" /\ UNCHANGED threadVars
  ELSE /\ call' = [call EXCEPT ![t] = NewCall(m, back)]
       /\ depth' = [depth EXCEPT ![t] = IF m.via = "log" THEN @ + 1 ELSE @]
       /\ Goto(t, "lock")
       /\ UNCHANGED <<cursor, proc>>

(* mutant: undo the count for a structured message too *)
LeaveDepthAlways(t) == depth' = [depth EXCEPT ![t] = @ - 1]

LeaveDepth(t) ==
  depth' = [depth EXCEPT ![t] = IF call[t].msg.via = "log" THEN @ - 1 ELSE @]

(* The handler has returned to GLib, which lets no error pass. *)
ReturnFromLog(t) ==
  IF call[t].msg.level = "error"
  THEN EndProcess("trapped")
  ELSE /\ LeaveDepth(t)
       /\ Goto(t, call[t].back)
       /\ UNCHANGED <<call, cursor, hookVars, cur, ctx, caseVars, proc, logs,
                      history>>

-----------------------------------------------------------------------------
(* invoke_hooks(): the scan of the hook stack, under the mutex.             *)

LockHooks(t) ==
  /\ At(t, "lock")
  /\ lock = Free
  /\ lock' = t
  /\ cursor' = [cursor EXCEPT ![t] = 1]
  /\ Goto(t, "hook")
  /\ UNCHANGED <<call, depth, hooks, cur, ctx, caseVars, proc, logs, history>>

(* mutant: the cursor is not advanced *)
NextHookStuck(t) == UNCHANGED <<cursor, pc, lock>>

NextHook(t) ==
  /\ cursor' = [cursor EXCEPT ![t] = @ + 1]
  /\ UNCHANGED <<pc, lock>>

(* IGNORE and SUPPRESS: the message goes no further. *)
StopScan(t) ==
  /\ lock' = Free
  /\ Goto(t, "handled")
  /\ UNCHANGED cursor

AtVerbosity(t) ==
  /\ At(t, "hook")
  /\ cursor[t] <= Len(hooks)
  /\ hooks[cursor[t]] = NoCase

Verbosity(t) ==
  LET fatal == VerbosityFatal(call[t].msg, call[t].fatal) IN
  /\ AtVerbosity(t)
  /\ ~Unreached(call[t].msg.level, fatal)
  /\ call' = [call EXCEPT ![t].fatal = fatal]
  /\ IF VerbosityAction(call[t].msg, call[t].fatal) = "CONTINUE"
     THEN NextHook(t)
     ELSE StopScan(t)
  /\ UNCHANGED <<depth, hooks, cur, ctx, caseVars, proc, logs, history>>

(* g_assert_not_reached () at the end of _gtu_should_log() *)
VerbosityAssert(t) ==
  /\ AtVerbosity(t)
  /\ Unreached(call[t].msg.level, VerbosityFatal(call[t].msg, call[t].fatal))
  /\ EndProcess("aborted")

(* history: every ready expectation the message satisfies has seen one more *)
SawMessage(c, m) ==
  seen' = [seen EXCEPT ![c] =
    [h \in DOMAIN @ |-> IF expected[c][h].ready
                           /\ Matches(m, expected[c][h].pattern)
                        THEN @[h] + 1 ELSE @[h]]]

HookCase(t) == hooks[cursor[t]]

AtLogHook(t) ==
  /\ At(t, "hook")
  /\ cursor[t] <= Len(hooks)
  /\ HookCase(t) \in Cases

(* The scan meets a freed array, one that moved away under it, or an        *)
(* element that is not filled.                                              *)
LogHookCrash(t) ==
  /\ AtLogHook(t)
  /\ \/ disposed[HookCase(t)]
     \/ call[t].stale
     \/ \E i \in DOMAIN expected[HookCase(t)] :
          /\ StopsAt(call[t].msg, expected[HookCase(t)], i)
          /\ ~expected[HookCase(t)][i].ready
  /\ EndProcess("undefined")

(* The scan finds the element to count the message for.  If the array moved *)
(* meanwhile the pointer is either fetched anew, for a later element, or    *)
(* still leads into the block that was freed.                               *)
LogHookFind(t, i) ==
  /\ AtLogHook(t)
  /\ ~disposed[HookCase(t)]
  /\ StopsAt(call[t].msg, expected[HookCase(t)], i)
  /\ expected[HookCase(t)][i].ready
  /\ \E still \in {FALSE, call[t].stale} :
       call' = [call EXCEPT ![t] = [@ EXCEPT !.element = i, !.stale = still]]
  /\ Goto(t, "count")
  /\ UNCHANGED <<cursor, depth, hookVars, cur, ctx, caseVars, proc, logs,
                 history>>

(* g_atomic_int_inc (&expect->match_count.s) *)
LogHookCount(t) ==
  LET c == HookCase(t) IN
  /\ At(t, "count")
  /\ ~call[t].stale
  /\ expected' = [expected EXCEPT ![c][call[t].element].count = @ + 1]
  /\ SawMessage(c, call[t].msg)
  /\ StopScan(t)
  /\ UNCHANGED <<call, depth, hooks, cur, ctx, result, disposed, proc, logs,
                 cause, moved>>

(* ... which in the freed block counts nothing ... *)
LogHookMiscount(t) ==
  /\ At(t, "count")
  /\ call[t].stale
  /\ SawMessage(HookCase(t), call[t].msg)
  /\ StopScan(t)
  /\ UNCHANGED <<call, depth, hooks, cur, ctx, caseVars, proc, logs, cause,
                 moved>>

(* ... or hits what has been put there since. *)
LogHookClobber(t) ==
  /\ At(t, "count")
  /\ call[t].stale
  /\ EndProcess("undefined")

LogHookPass(t) ==
  /\ AtLogHook(t)
  /\ ~disposed[HookCase(t)]
  /\ RunsOff(call[t].msg, expected[HookCase(t)])
  /\ UnmatchedAction(call[t].msg, call[t].fatal) = "CONTINUE"
  /\ NextHook(t)
  /\ UNCHANGED <<call, depth, hooks, cur, ctx, caseVars, proc, logs, history>>

(* The message fails the test: fetch the context to charge.  CURRENT_CONTEXT *)
(* asserts that there is one and that nothing has been charged to it yet.   *)
LogHookFail(t) ==
  /\ AtLogHook(t)
  /\ ~disposed[HookCase(t)]
  /\ RunsOff(call[t].msg, expected[HookCase(t)])
  /\ UnmatchedAction(call[t].msg, call[t].fatal) = "ABORT"
  /\ IF ctx.owner = NoCase \/ ctx.message
     THEN EndProcess("aborted")
     ELSE /\ call' = [call EXCEPT ![t].charged = ctx.owner]
          /\ Goto(t, "mark")
          /\ UNCHANGED <<cursor, depth, hookVars, cur, ctx, caseVars, proc,
                         logs, history>>

(* The message is stored through the pointer fetched above ... *)
MarkMessage(t) ==
  /\ At(t, "mark")
  /\ IF ctx.owner # call[t].charged
     THEN EndProcess("undefined")          \* the context was freed meanwhile
     ELSE /\ ctx' = [ctx EXCEPT !.message = TRUE]
          /\ cause' = [cause EXCEPT ![ctx.owner] =
                         @ \cup {IF t = Main THEN "warned" ELSE "worker"}]
          /\ Goto(t, "fail")
          /\ UNCHANGED <<call, cursor, depth, hookVars, cur, caseVars, proc,
                         logs, seen, moved>>

(* mutant: the result is forgotten *)
MarkNothing(t) ==
  /\ At(t, "fail")
  /\ lock' = Free
  /\ Goto(t, "unwind")
  /\ UNCHANGED <<call, cursor, depth, hooks, cur, ctx, caseVars, proc, logs,
                 history>>

(* mutant: ABORT leaves the mutex locked *)
MarkKeepsLock(t) ==
  /\ At(t, "fail")
  /\ ctx.owner = call[t].charged
  /\ ctx' = [ctx EXCEPT !.result = "FAIL"]
  /\ Goto(t, "unwind")
  /\ UNCHANGED <<call, cursor, depth, hookVars, cur, caseVars, proc, logs,
                 history>>

(* ... then the result; log_hook() asks for ABORT, and invoke_hooks() gives *)
(* the mutex back before it unwinds.                                        *)
MarkFailed(t) ==
  /\ At(t, "fail")
  /\ IF ctx.owner # call[t].charged
     THEN EndProcess("undefined")
     ELSE /\ ctx' = [ctx EXCEPT !.result = "FAIL"]
          /\ lock' = Free
          /\ Goto(t, "unwind")
          /\ UNCHANGED <<call, cursor, depth, hooks, cur, caseVars, proc, logs,
                         history>>

EndScan(t) ==
  /\ At(t, "hook")
  /\ cursor[t] > Len(hooks)
  /\ lock' = Free
  /\ Goto(t, "emit")
  /\ UNCHANGED <<call, cursor, depth, hooks, cur, ctx, caseVars, proc, logs,
                 history>>

(* message_handler() and structured_handler() after the hooks. *)
Handled(t) ==
  /\ At(t, "handled")
  /\ ReturnFromLog(t)

Emit(t) ==
  /\ At(t, "emit")
  /\ IF call[t].fatal THEN EndProcess("trapped") ELSE ReturnFromLog(t)

(* mutant: jump out of the handler without letting g_logv() clean up *)
UnwindDirectly(t) ==
  /\ At(t, "unwind")
  /\ Goto(t, "preempt")
  /\ UNCHANGED <<call, cursor, depth, hookVars, cur, ctx, caseVars, proc, logs,
                 history>>

(* do_abort(): resume in the g_logv() frame so that GLib cleans up, having   *)
(* replaced its return address by _gtu_test_preempt().  A structured         *)
(* message has no such frame on its stack.                                  *)
Unwind(t) ==
  /\ At(t, "unwind")
  /\ IF call[t].msg.via = "structured"
     THEN EndProcess("aborted")
     ELSE /\ LeaveDepth(t)
          /\ Goto(t, "preempt")
          /\ UNCHANGED <<call, cursor, hookVars, cur, ctx, caseVars, proc, logs,
                         history>>

(* _gtu_test_preempt(): longjmp() to the setjmp() of the current context,   *)
(* which is only defined on the thread that made it.                        *)
Preempt(t) ==
  /\ At(t, "preempt")
  /\ IF t # Main \/ ctx.owner = NoCase
     THEN EndProcess("undefined")
     ELSE /\ Goto(t, "unwound")
          /\ UNCHANGED <<call, cursor, depth, hookVars, cur, ctx, caseVars,
                         proc, logs, history>>

LogStep(t) ==
  \/ LockHooks(t) \/ Verbosity(t) \/ VerbosityAssert(t) \/ LogHookCrash(t)
  \/ \E i \in 1..MaxExpect : LogHookFind(t, i)
  \/ LogHookCount(t) \/ LogHookMiscount(t) \/ LogHookClobber(t)
  \/ LogHookPass(t) \/ LogHookFail(t) \/ MarkMessage(t) \/ MarkFailed(t)
  \/ EndScan(t) \/ Handled(t) \/ Emit(t) \/ Unwind(t) \/ Preempt(t)

-----------------------------------------------------------------------------
(* _gtu_test_case_run() and _gtu_test_case_exec_inner(), on the main thread. *)

Begin(c) ==
  /\ At(Main, "idle")
  /\ result[c] = "INVALID"
  /\ cur' = c
  /\ Goto(Main, "push")
  /\ UNCHANGED <<call, cursor, depth, hookVars, ctx, caseVars, proc, logs,
                 history>>

(* gtu_log_hooks_push (&log_hook, self), then the opening announcement. *)
Push ==
  /\ At(Main, "push")
  /\ lock = Free
  /\ hooks' = <<cur>> \o hooks
  /\ EnterLog(Main, Announcement, "exec")
  /\ UNCHANGED <<lock, cur, ctx, caseVars, logs, history>>

(* exec_inner() asserts that no context is live and makes one. *)
Exec ==
  /\ At(Main, "exec")
  /\ IF ctx.owner # NoCase
     THEN EndProcess("aborted")
     ELSE /\ ctx' = NewContext(cur)
          /\ Goto(Main, "body")
          /\ UNCHANGED <<call, cursor, depth, hookVars, cur, caseVars, proc,
                         logs, history>>

(* The body returned, or a longjmp() landed: read the verdict ...           *)
ReadVerdict ==
  /\ At(Main, "unwound")
  /\ result' = [result EXCEPT ![cur] = ctx.result]
  /\ Goto(Main, "reap")
  /\ UNCHANGED <<call, cursor, depth, hookVars, cur, ctx, expected, disposed,
                 proc, logs, history>>

(* ... then free the context, and make the closing announcement.            *)
FreeContext ==
  /\ At(Main, "reap")
  /\ ctx' = NoContext
  /\ EnterLog(Main, Announcement, "pop")
  /\ UNCHANGED <<hookVars, cur, caseVars, logs, history>>

(* mutant: unlink the hook at the other end *)
PopBottom ==
  /\ At(Main, "pop")
  /\ lock = Free
  /\ hooks' = Front(hooks)
  /\ Goto(Main, "dispose")
  /\ UNCHANGED <<call, cursor, depth, lock, cur, ctx, caseVars, proc, logs,
                 history>>

Topmost(i) ==
  /\ i \in 1..Len(hooks)
  /\ hooks[i] # NoCase
  /\ \A j \in 1..Len(hooks) : hooks[j] # NoCase => i <= j

(* mutant: the mutex is not waited for *)
PopUnlocked ==
  /\ At(Main, "pop")
  /\ \E i \in 1..Len(hooks) : Topmost(i) /\ hooks' = RemoveAt(hooks, i)
  /\ Goto(Main, "dispose")
  /\ UNCHANGED <<call, cursor, depth, lock, cur, ctx, caseVars, proc, logs,
                 history>>

(* gtu_log_hooks_pop (&log_hook): unlink the first log_hook on the stack.   *)
Pop ==
  /\ At(Main, "pop")
  /\ lock = Free
  /\ \E i \in 1..Len(hooks) : Topmost(i) /\ hooks' = RemoveAt(hooks, i)
  /\ Goto(Main, "dispose")
  /\ UNCHANGED <<call, cursor, depth, lock, cur, ctx, caseVars, proc, logs,
                 history>>

(* mutant: the case is put back into its initial state *)
DisposeResets ==
  /\ At(Main, "dispose")
  /\ result' = [result EXCEPT ![cur] = "INVALID"]
  /\ disposed' = [disposed EXCEPT ![cur] = TRUE]
  /\ cur' = NoCase
  /\ Goto(Main, "idle")
  /\ UNCHANGED <<call, cursor, depth, hookVars, ctx, expected, proc, logs,
                 history>>

(* mutant: has_disposed is not set *)
DisposeUnmarked ==
  /\ At(Main, "dispose")
  /\ cur' = NoCase
  /\ Goto(Main, "idle")
  /\ UNCHANGED <<call, cursor, depth, hookVars, ctx, caseVars, proc, logs,
                 history>>

(* The destructor of the function's target, which _gtu_test_case_dispose()  *)
(* calls first, is code of the program.  It may log ...                     *)
DestroyLog(m) ==
  /\ At(Main, "dispose")
  /\ logs < MaxLogs
  /\ logs' = logs + 1
  /\ EnterLog(Main, m, "dispose")
  /\ UNCHANGED <<hookVars, cur, ctx, caseVars, history>>

(* ... or fail an assertion or reach a skip, for which it has no context.   *)
DestroyAssert ==
  /\ At(Main, "dispose")
  /\ DestroyAsserts
  /\ EndProcess("aborted")

(* _gtu_test_case_dispose(): drop the function's target and the             *)
(* expectations, once.                                                      *)
Dispose ==
  /\ At(Main, "dispose")
  /\ disposed' = [disposed EXCEPT ![cur] = TRUE]
  /\ expected' = [expected EXCEPT ![cur] = <<>>]
  /\ seen' = [seen EXCEPT ![cur] = <<>>]
  /\ cur' = NoCase
  /\ Goto(Main, "idle")
  /\ UNCHANGED <<call, cursor, depth, hookVars, ctx, result, proc, logs, cause,
                 moved>>

-----------------------------------------------------------------------------
(* What a body may do.                                                      *)

BodyReturn ==
  /\ At(Main, "body")
  /\ cause' = [cause EXCEPT ![cur] = @ \cup {"returned"}]
  /\ Goto(Main, "unwound")
  /\ UNCHANGED <<call, cursor, depth, hookVars, cur, ctx, caseVars, proc, logs,
                 seen, moved>>

BodyLog(m) ==
  /\ At(Main, "body")
  /\ logs < MaxLogs
  /\ logs' = logs + 1
  /\ EnterLog(Main, m, "body")
  /\ UNCHANGED <<hookVars, cur, ctx, caseVars, history>>

(* The threads that log_hook() of c is comparing a message with its         *)
(* expectations for, or has found an expectation for.                       *)
Reading(c) ==
  {t \in Threads : /\ pc[t] \in {"hook", "count"}
                   /\ cursor[t] <= Len(hooks)
                   /\ hooks[cursor[t]] = c
                   /\ call[t].msg.domain # "none"
                   /\ expected[c] # <<>>}

(* gtu_test_case_expect_message(): g_array_set_size() appends a zeroed      *)
(* element, without a lock.  If that takes another block, a thread that     *)
(* reads the array may be left with a pointer into the old one, and one     *)
(* that has found its element surely is ...                                 *)
Expect(p) ==
  /\ At(Main, "body")
  /\ Len(expected[cur]) < MaxExpect
  /\ expected' = [expected EXCEPT ![cur] =
                    Append(@, [pattern |-> p, ready |-> FALSE, count |-> 0])]
  /\ seen' = [seen EXCEPT ![cur] = Append(@, 0)]
  /\ \E under \in SUBSET Reading(cur) :
       /\ call' = [t \in Threads |->
                    IF t \in under THEN [call[t] EXCEPT !.stale = TRUE] ELSE call[t]]
       /\ moved' = IF under = {} THEN moved ELSE moved \cup {cur}
  /\ Goto(Main, "fill")
  /\ UNCHANGED <<cursor, depth, hookVars, cur, ctx, result, disposed, proc, logs,
                 cause>>

(* ... which the caller then fills. *)
FillExpectation ==
  /\ At(Main, "fill")
  /\ expected' = [expected EXCEPT ![cur][Len(expected[cur])].ready = TRUE]
  /\ Goto(Main, "body")
  /\ UNCHANGED <<call, cursor, depth, hookVars, cur, ctx, result, disposed,
                 proc, logs, history>>

(* mutant: fetch without clearing *)
CountWithoutReset(h) ==
  /\ At(Main, "body")
  /\ h \in DOMAIN expected[cur]
  /\ seen' = [seen EXCEPT ![cur][h] = 0]
  /\ UNCHANGED <<threadVars, hookVars, cur, ctx, caseVars, proc, logs, cause,
                 moved>>

(* gtu_test_case_expect_count(): fetch and clear in one atomic operation.   *)
ExpectCount(h) ==
  /\ At(Main, "body")
  /\ h \in DOMAIN expected[cur]
  /\ expected' = [expected EXCEPT ![cur][h].count = 0]
  /\ seen' = [seen EXCEPT ![cur][h] = 0]
  /\ UNCHANGED <<threadVars, hookVars, cur, ctx, result, disposed, proc, logs,
                 cause, moved>>

(* CURRENT_CONTEXT_CHECK: the context lives and nothing is charged to it.   *)
ContextChecked == ctx.owner # NoCase /\ ~ctx.message

(* A failing gtu_assert(): _gtu_assertion_message() up to its stores.       *)
AssertFail ==
  /\ At(Main, "body")
  /\ CASE ~ContextChecked                  -> EndProcess("aborted")
       [] ContextChecked /\ FatalAsserts   -> EndProcess("aborted")
       [] ContextChecked /\ ~FatalAsserts /\ ~KeepGoing -> EndProcess("bailed")
       [] OTHER -> /\ Goto(Main, "asserting")
                   /\ UNCHANGED <<call, cursor, depth, hookVars, cur, ctx,
                                  caseVars, proc, logs, history>>

(* gtu_skip_if_reached(): _gtu_skip_if_reached_message() up to its stores.  *)
SkipReached ==
  /\ At(Main, "body")
  /\ IF ~ContextChecked
     THEN EndProcess("aborted")
     ELSE /\ Goto(Main, "skipping")
          /\ UNCHANGED <<call, cursor, depth, hookVars, cur, ctx, caseVars,
                         proc, logs, history>>

(* Their stores, and the longjmp() of PREEMPT_TEST. *)
Leave(from, verdict, why) ==
  /\ At(Main, from)
  /\ ctx' = [ctx EXCEPT !.message = TRUE, !.result = verdict]
  /\ cause' = [cause EXCEPT ![cur] = @ \cup {why}]
  /\ Goto(Main, "unwound")
  /\ UNCHANGED <<call, cursor, depth, hookVars, cur, caseVars, proc, logs,
                 seen, moved>>

AssertLeave == Leave("asserting", "FAIL", "asserted")
SkipLeave   == Leave("skipping", "SKIP", "skipped")

BodyStep ==
  \/ BodyReturn
  \/ \E m \in BodyMessages : BodyLog(m)
  \/ \E p \in Patterns : Expect(p)
  \/ FillExpectation
  \/ \E h \in 1..MaxExpect : ExpectCount(h)
  \/ AssertFail \/ SkipReached \/ AssertLeave \/ SkipLeave

RunStep ==
  \/ \E c \in Cases : Begin(c)
  \/ Push \/ Exec \/ ReadVerdict \/ FreeContext \/ Pop \/ Dispose

DestroyStep == DestroyAssert \/ \E m \in DestroyMessages : DestroyLog(m)

WorkerLog(t, m) ==
  /\ At(t, "user")
  /\ logs < MaxLogs
  /\ logs' = logs + 1
  /\ EnterLog(t, m, "user")
  /\ UNCHANGED <<hookVars, cur, ctx, caseVars, history>>

-----------------------------------------------------------------------------
Over ==
  \/ proc # "running"
  \/ pc[Main] = "idle" /\ \A c \in Cases : result[c] # "INVALID"

Stop == Over /\ (\A t \in Workers : proc = "running" => pc[t] = "user")
             /\ UNCHANGED vars

Next ==
  \/ RunStep
  \/ BodyStep
  \/ DestroyStep
  \/ \E t \in Threads : LogStep(t)
  \/ \E t \in Workers, m \in WorkerMessages : WorkerLog(t, m)
  \/ Stop

(* Threads are scheduled; a body ends of its own accord if nothing stops it. *)
Fairness ==
  /\ WF_vars(RunStep)
  /\ WF_vars(BodyReturn)
  /\ WF_vars(FillExpectation \/ AssertLeave \/ SkipLeave)
  /\ \A t \in Threads : WF_vars(LogStep(t))

Spec == Init /\ [][Next]_vars
FairSpec == Spec /\ Fairness

-----------------------------------------------------------------------------
(* Types. *)

Call == [msg: Message, fatal: BOOLEAN, charged: Cases \cup {NoCase},
         back: {"idle", "exec", "body", "pop", "dispose", "user"},
         element: 0..MaxExpect, stale: BOOLEAN]

(* Each variable has values of its kind. *)
TypeOK ==
  /\ pc \in [Threads -> MainUser \cup InLog \cup {"user"}]
  /\ call \in [Threads -> Call]
  /\ cursor \in [Threads -> Nat]
  /\ depth \in [Threads -> Nat]
  /\ hooks \in Seq(Cases \cup {NoCase})
  /\ lock \in Threads \cup {Free}
  /\ cur \in Cases \cup {NoCase}
  /\ ctx \in [owner: Cases \cup {NoCase}, message: BOOLEAN,
              result: {"INVALID", "PASS", "SKIP", "FAIL"}]
  /\ expected \in [Cases -> Seq(Expectation)]
  /\ result \in [Cases -> {"INVALID", "PASS", "SKIP", "FAIL"}]
  /\ disposed \in [Cases -> BOOLEAN]
  /\ proc \in {"running", "trapped", "bailed", "aborted", "undefined"}
  /\ logs \in 0..MaxLogs
  /\ cause \in [Cases -> SUBSET {"returned", "asserted", "skipped", "warned",
                               "worker"}]
  /\ seen \in [Cases -> Seq(Nat)]
  /\ moved \subseteq Cases

-----------------------------------------------------------------------------
(* Safety.                                                                  *)

(* The test hook is popped under the mutex before its case is disposed of,  *)
(* so no thread that is scanning the hooks ever stands at a log_hook whose  *)
(* expectations have been freed (run-init.c:92-94 against hooks.c:128-134). *)
HookTargetAlive ==
  \A t \in Threads :
    pc[t] \in {"hook", "count"} /\ cursor[t] \in 1..Len(hooks) /\ hooks[cursor[t]] # NoCase
      => ~disposed[hooks[cursor[t]]]

(* The hooks mutex is held by exactly the threads inside the scan: a thread *)
(* that leaves it by any of the four actions, the stack-mangling ABORT      *)
(* included, leaves it unlocked (hooks.c:128-170).                          *)
LockExact == \A t \in Threads : lock = t <=> pc[t] \in Locked

(* Whatever way a thread comes out of g_log(), even thrown out of it by a   *)
(* message that fails the test, GLib's recursion count is back at zero; had *)
(* the hook jumped straight out, the thread's next message would be taken   *)
(* for a recursive one and abort the program (hooks.c:9-54).                *)
DepthBalanced ==
  \A t \in Threads :
    depth[t] = IF pc[t] \in InGLib /\ call[t].msg.via = "log" THEN 1 ELSE 0

(* The body of c ended in a way that verdict v stands for. *)
Fits(v, c) ==
  LET own == cause[c] \ {"worker"} IN
  /\ v = "PASS" => own = {"returned"}
  /\ v = "SKIP" => own = {"skipped"}
  /\ v = "FAIL" => cause[c] \cap {"asserted", "warned", "worker"} # {}

(* A verdict tells how the body ended: PASS for one that came back to       *)
(* exec_inner() without having logged an unexpected warning on the way,     *)
(* SKIP for one a skip stopped and nothing else, FAIL only for a failed     *)
(* assertion or a warning (run-setjmp.c:60-61,75-79, run-init.c:52-54).     *)
VerdictHonest == \A c \in Cases : Fits(result[c], c)

(* A program whose bodies log through g_log() at GLib's own levels, expect, *)
(* count, assert and skip and do nothing else to the library, whose         *)
(* destructors assert nothing, and whose other threads log nothing that     *)
(* fails a test or that its expectations are compared with, never trips an  *)
(* assertion of the library and never jumps through a dead context: it runs *)
(* on, bails out, or traps on a message that is fatal (run-setjmp.c:8-35,   *)
(* 93, hooks.c:76-121, flags.c:64-65).                                      *)
NoInternalFailure == proc \in {"running", "trapped", "bailed"}

Disjoint(p, q) ==
  p.domain # q.domain \/ p.levels \cap q.levels = {} \/ p.bodies \cap q.bodies = {}

(* expect_check() and expect_count() answer for the messages matching the   *)
(* handle since it was last counted, as long as no earlier expectation of   *)
(* the case overlaps with it: log_hook charges the first match only         *)
(* (run-init.c:20-39, expect.c:45-71).  An array that moved under log_hook  *)
(* may have lost some of them, but never answers for one too many.          *)
CountsAnswer ==
  \A c \in Cases : \A h \in DOMAIN expected[c] :
    (\A g \in 1..(h-1) : Disjoint(expected[c][g].pattern, expected[c][h].pattern))
      => /\ expected[c][h].count <= seen[c][h]
         /\ c \notin moved => expected[c][h].count = seen[c][h]

(* logging.md: a critical or warning makes the running test fail, just as a *)
(* failed assertion would; it does not bring the process down through an    *)
(* abort of the library's own.                                              *)
WarningOnlyFailsTest == proc # "aborted"

(* A warning from another thread stops the running test in the same way; it *)
(* does not take the process into undefined behaviour.                      *)
WorkerWarningDefined ==
  proc = "undefined" => \A c \in Cases : "worker" \notin cause[c]

-----------------------------------------------------------------------------
(* What a step may not do.                                                  *)

(* No hook is linked or unlinked while a thread walks the stack, in         *)
(* particular not the test hook a worker's message has just reached when    *)
(* the test ends (hooks.c:229-270 against hooks.c:128-137).                 *)
ScanStable ==
  [][(\E t \in Threads : pc[t] \in Locked) => hooks' = hooks]_vars

(* A case is run once: its verdict is final, and once it has one nothing    *)
(* but the freeing of the expectations happens to it.                       *)
VerdictFinal ==
  [][\A c \in Cases : result[c] # "INVALID" => result'[c] = result[c]]_vars

-----------------------------------------------------------------------------
(* What it implements.                                                      *)

Life ==
  INSTANCE CaseLife WITH running <- cur, verdict <- result,
    gone <- {c \in Cases : disposed[c]}, over <- proc # "running"

(* For the run loop all this is CaseLife: one case at a time, one verdict   *)
(* for each, disposed of after it (run-init.c:62-101, run.c:5-48), with     *)
(* messages of any thread and longjmp() in between.                         *)
ImplementsLife == Life!Spec

-----------------------------------------------------------------------------
(* Liveness.                                                                *)

(* A case that is begun gets its verdict, or the process ends. *)
CaseEnds ==
  \A c \in Cases :
    cur = c ~> (result[c] # "INVALID" /\ disposed[c]) \/ proc # "running"

(* A message logged by any thread is dealt with, whoever holds the mutex.   *)
LogReturns ==
  \A t \in Threads :
    pc[t] = "lock" ~> pc[t] \notin InLog \/ proc # "running"
=============================================================================
