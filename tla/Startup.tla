------------------------------ MODULE Startup ------------------------------
(***************************************************************************)
(* gtu_init(): the arguments, then the handlers through which libgtu gets   *)
(* hold of the messages of every thread, one after the other, while other   *)
(* threads may be logging already; then the program of SuiteRun.            *)
(*                                                                          *)
(* Sources: src/init.c, src/log/glib-handlers.c, src/log/hooks.c.           *)
(***************************************************************************)
EXTENDS SuiteRun, SequencesExt

CONSTANTS CommandLines, \* the arguments a program may be started with
          DebugFatal    \* the levels that G_DEBUG makes fatal

(* What parse_args() tells apart.  "-s", "-p" and their paths are one.      *)
Argument == {"-k", "-l", "-s good", "-s bad", "-p", "--g-fatal-warnings",
             "--GTestSubprocess", "other"}

ASSUME StartAssumption ==
  /\ \A line \in CommandLines : line \in Seq(Argument)
  /\ DebugFatal \subseteq {"warning"}

(* A message as gtu_init() and the handlers tell it apart: "warning" stands *)
(* for criticals too, "mild" for everything below, "custom" for levels that *)
(* GLib has no name for.  It is expected if the running test expects it.    *)
Notice == [level: {"error", "warning", "mild", "custom"},
           via: {"log", "structured"}, expected: BOOLEAN]
NoNotice == [level |-> "none"]

VARIABLES
  args,      \* the command line
  argi,      \* i in parse_args()
  always,    \* the levels of GLib's always-fatal mask, and of fatal_mask
  installed, \* what of libgtu stands between GLib and the threads
  found,     \* glogv_address is not NULL
  lost       \* history: the message that trapped without "Bail out!"

startVars == <<args, argi, always, installed, found, lost>>
allVars == <<vars, startVars>>

(* main() calls gtu_init().  Only -s leaves cases out.                      *)
StartInit ==
  /\ tests \in Suites
  /\ args \in CommandLines /\ argi = 1
  /\ (\E i \in DOMAIN tests : tests[i].excluded) => "-s good" \in ToSet(args)
  /\ listOnly = FALSE /\ keepGoing = FALSE
  /\ pc = [t \in Threads |-> IF t = Main THEN "parse" ELSE "user"]
  /\ once = "open"
  /\ always = {"error"} /\ installed = {} /\ found = FALSE /\ lost = NoNotice
  /\ Fresh

(* What gtu_init() leaves alone, whatever it does. *)
RunUntouched ==
  UNCHANGED <<tests, stdout, loopVars, done, nestVars, status, output>>

-----------------------------------------------------------------------------
(* parse_args()                                                             *)

Arg == args[argi]
Parsing == At(Main, "parse") /\ argi <= Len(args)

(* mutant: a path that does not parse is only complained about *)
ParseAnyFlag ==
  /\ Parsing /\ Arg \notin {"-p", "--GTestSubprocess"}
  /\ keepGoing' = (keepGoing \/ Arg = "-k")
  /\ listOnly' = (listOnly \/ Arg = "-l")
  /\ once' = IF Arg = "-l" THEN "done" ELSE once
  /\ argi' = argi + 1
  /\ RunUntouched
  /\ UNCHANGED <<pc, leaving, proc, args, always, installed, found,
                 lost>>

ParseFlag ==
  /\ Parsing /\ Arg \notin {"-s bad", "-p", "--GTestSubprocess"}
  /\ keepGoing' = (keepGoing \/ Arg = "-k")
  /\ listOnly' = (listOnly \/ Arg = "-l")
  /\ once' = IF Arg = "-l" THEN "done" ELSE once
  /\ argi' = argi + 1
  /\ RunUntouched
  /\ UNCHANGED <<pc, leaving, proc, args, always, installed, found,
                 lost>>

(* exit (1), before there are any handlers for it to call ... *)
RefusePath ==
  /\ Parsing /\ Arg = "-s bad"
  /\ leaving' = [leaving EXCEPT ![Main] = [how |-> "refuse", status |-> 1]]
  /\ Goto(Main, "exit")
  /\ RunUntouched
  /\ UNCHANGED <<listOnly, keepGoing, once, proc, startVars>>

(* ... a NULL path that is parsed ... *)
ReadNull ==
  /\ Parsing /\ Arg = "-p"
  /\ proc' = "undefined"
  /\ RunUntouched
  /\ UNCHANGED <<listOnly, keepGoing, pc, leaving, once, startVars>>

(* ... or "Bail out!". *)
RefuseSubprocess ==
  /\ Parsing /\ Arg = "--GTestSubprocess"
  /\ leaving' = [leaving EXCEPT ![Main] = [how |-> "bail", status |-> 99]]
  /\ Goto(Main, "bail")
  /\ RunUntouched
  /\ UNCHANGED <<listOnly, keepGoing, once, proc, startVars>>

(* Before all that: the program has called g_test_init() itself.            *)
AssertUninitialized ==
  /\ At(Main, "parse") /\ argi = 1
  /\ proc' = "aborted"
  /\ RunUntouched
  /\ UNCHANGED <<listOnly, keepGoing, pc, leaving, once, startVars>>

ParseStep ==
  \/ ParseFlag \/ RefusePath \/ ReadNull \/ RefuseSubprocess
  \/ AssertUninitialized

-----------------------------------------------------------------------------
(* Between GLib and the threads.                                            *)

(* A step of gtu_init() from one place to the next. *)
Proceed(from, to) ==
  /\ At(Main, from)
  /\ Goto(Main, to)
  /\ RunUntouched
  /\ UNCHANGED <<listOnly, keepGoing, leaving, once, proc, args, argi, lost>>

Install(part) ==
  installed' = installed \cup {part} /\ UNCHANGED <<always, found>>

(* g_test_init() makes criticals and warnings fatal ... *)
TestInit ==
  \/ /\ argi > Len(args) /\ Proceed("parse", "test_init")
     /\ UNCHANGED <<always, installed, found>>
  \/ /\ Proceed("test_init", "mask")
     /\ always' = {"error", "warning"}
     /\ UNCHANGED <<installed, found>>

(* ... and gtu_log_g_install_handlers() makes what it was asked for so.     *)
SetMask ==
  /\ Proceed("mask", "handler")
  /\ always' = {"error"} \cup DebugFatal
                 \cup IF "--g-fatal-warnings" \in ToSet(args) THEN {"warning"} ELSE {}
  /\ UNCHANGED <<installed, found>>

(* mutant: the writer function is set, the default handler is not *)
SetNoHandler ==
  /\ Proceed("handler", "writer")
  /\ UNCHANGED <<installed, always, found>>

(* message_handler() for g_log(), structured_handler() for g_log_structured() *)
SetHandler == Proceed("handler", "writer") /\ Install("handler")
SetWriter  == Proceed("writer", "register") /\ Install("writer")

(* log_empty_plan() becomes a handler of exit(); the domains of libgtu.     *)
SetAtexit ==
  /\ Proceed("register", "probe")
  /\ UNCHANGED <<always, installed, found>>

(* For the time of one message find_glogv_address() is a handler.           *)
SetProbe ==
  /\ Proceed("probe", "probing")
  /\ UNCHANGED <<always, installed, found>>

(* find_glogv_address(): it asserts that nobody has been there, and stores  *)
(* the address later; no lock is held.                                      *)
Find(t) ==
  /\ \/ ~found /\ Goto(t, "finding") /\ UNCHANGED proc
     \/ found /\ proc' = "aborted" /\ UNCHANGED pc
  /\ RunUntouched
  /\ UNCHANGED <<listOnly, keepGoing, leaving, once, startVars>>

Probe == At(Main, "probing") /\ Find(Main)

StoreProbe ==
  /\ Proceed("finding", "probed")
  /\ found' = TRUE
  /\ UNCHANGED <<always, installed>>

RemoveProbe ==
  /\ Proceed("probed", "suppress")
  /\ UNCHANGED <<always, installed, found>>

(* gtu_log_g_install_suppress_func(), gtu_log_hooks_push(), and at last     *)
(* _has_initialized = true.                                                 *)
SetSuppress   == Proceed("suppress", "push") /\ Install("suppress")
PushVerbosity == Proceed("push", "initialized") /\ Install("hook")
SetInitialized == Proceed("initialized", "program") /\ Install("initialized")

StartStep ==
  \/ ParseStep \/ TestInit \/ SetMask \/ SetHandler \/ SetWriter \/ SetAtexit
  \/ SetProbe \/ Probe \/ StoreProbe \/ RemoveProbe \/ SetSuppress
  \/ PushVerbosity \/ SetInitialized

-----------------------------------------------------------------------------
(* The messages of the threads meanwhile, and of the program later on.      *)

Started == "initialized" \in installed
Hooked == {"suppress", "hook"} \subseteq installed
HandlerOf(m) == IF m.via = "log" THEN "handler" ELSE "writer"

(* The log_hook() of a test is on the stack, where it stays if the main     *)
(* thread bails out in the body.                                            *)
Testing ==
  \/ pc[Main] = "body"
  \/ outer # NoRun /\ outer.back = "body"
  \/ /\ Started /\ leaving[Main].how \in {"bail", "trap"}
     /\ ix <= Len(tests) /\ ix \notin done

(* A worker has found gtu_has_initialized () false in verbosity_handler()   *)
(* and logs a critical, whose hooks are locked: by itself.                  *)
Hung == \E t \in Workers : pc[t] = "stuck"

Speaking(t) == IF t = Main THEN InUserCode ELSE At(t, "user")

(* GLib, whose own handler traps without telling the harness, lets no error *)
(* pass, whatever was done about it: structured_handler() has only shown    *)
(* it, and one that is expected is suppressed.                              *)
Silent(m) ==
  IF HandlerOf(m) \notin installed
  THEN m.level \in always
  ELSE m.level = "error" /\ (m.via = "structured" \/ m.expected)

(* libgtu bails out of a message that carries the FATAL bit on arrival, or  *)
(* that verbosity_handler() gives it.                                       *)
Fatal(m) ==
  /\ HandlerOf(m) \in installed /\ ~m.expected
  /\ m.level \in always \/ (m.level = "warning" /\ Hooked /\ ~Testing)
  /\ ~Silent(m)

(* The hooks have the process end on the way: log_hook() has no g_logv() to *)
(* return to, or jumps from a worker into the body of the main thread;      *)
(* verbosity_handler() fails an assertion, or logs within g_logv().         *)
Stray(t, m) ==
  /\ m.level = "warning" /\ m.level \notin always /\ Testing
  /\ t = Main => m.via = "structured"

Breaks(t, m) ==
  /\ Hooked /\ ~m.expected
  /\ \/ Stray(t, m)
     \/ m.level = "custom"
     \/ m.level = "mild" /\ m.via = "log" /\ ~Started

(* A message with which the process ends on the spot ... *)
LogEnds(t) ==
  /\ Speaking(t) /\ ~Hung
  /\ \E m \in Notice :
       /\ m.expected => Testing
       /\ \/ Silent(m) /\ proc' = "trapped" /\ lost' = m
          \/ /\ Breaks(t, m)
             /\ proc' = IF Stray(t, m) /\ m.via = "log" THEN "undefined" ELSE "aborted"
             /\ UNCHANGED lost
  /\ RunUntouched
  /\ UNCHANGED <<listOnly, keepGoing, pc, leaving, once, args, argi, always,
                 installed, found>>

(* ... one of a worker's that makes it bail out, as BailOut in SuiteRun     *)
(* once the program is running ...                                          *)
LogBails(t) ==
  /\ At(t, "user") /\ ~Hung
  /\ \E m \in Notice : (m.expected => Testing) /\ Fatal(m)
  /\ leaving' = [leaving EXCEPT ![t] = [how |-> "trap", status |-> 99]]
  /\ Goto(t, "bail")
  /\ RunUntouched
  /\ UNCHANGED <<listOnly, keepGoing, once, proc, startVars>>

(* ... or that hangs it.                                                    *)
LogHangs(t) ==
  /\ At(t, "user") /\ ~Hung
  /\ Hooked /\ ~Started       \* a mild one, through g_log_structured()
  /\ Goto(t, "stuck")
  /\ RunUntouched
  /\ UNCHANGED <<listOnly, keepGoing, leaving, once, proc, startVars>>

(* A worker's message without a domain, while the probe is out for Main's.  *)
Speak(t) ==
  /\ At(t, "user")
  /\ At(Main, "probing") \/ At(Main, "finding") \/ At(Main, "probed")
  /\ Find(t)

StoreLate(t) ==
  /\ At(t, "finding")
  /\ found' = TRUE
  /\ Goto(t, "user")
  /\ RunUntouched
  /\ UNCHANGED <<listOnly, keepGoing, leaving, once, proc, args, argi, always,
                 installed, lost>>

WorkerStep(t) ==
  LogEnds(t) \/ LogBails(t) \/ LogHangs(t) \/ Speak(t) \/ StoreLate(t)

-----------------------------------------------------------------------------
(* The program of SuiteRun: the main thread gets to its places by itself.   *)

(* It gets into no body if the hooks are locked for good. *)
RunOn ==
  /\ UNCHANGED startVars
  /\ RunStep \/ EndProgram
  /\ Hung => pc'[Main] # "body"

ProgramStep ==
  \/ RunOn
  \/ /\ UNCHANGED startVars
     /\ \/ CallRunWithin \/ AssertOutside
        \/ ~Hung /\ (RefuseRun \/ BailOut(Main))
        \/ EndStep(Main)
        \/ \E t \in Workers : (Started /\ ~Hung /\ BailOut(t)) \/ EndStep(t)

StartNext ==
  \/ StartStep \/ ProgramStep
  \/ LogEnds(Main)
  \/ \E t \in Workers : WorkerStep(t)
  \/ (proc # "running" \/ Hung) /\ UNCHANGED allVars

StartSpec == StartInit /\ [][StartNext]_allVars

(* As in SuiteRun; nothing holds up gtu_init(). *)
StartFairSpec ==
  /\ StartSpec
  /\ WF_allVars(StartStep \/ RunOn)
  /\ \A t \in Threads : WF_allVars(UNCHANGED startVars /\ EndStep(t))

-----------------------------------------------------------------------------
Refused == {"-s bad", "-p", "--GTestSubprocess"} \cap ToSet(args) # {}

(* Arguments that cannot be honoured keep everything from being run, listed *)
(* or announced, wherever they stand among the others and whatever other    *)
(* threads do, and the process does not end in success (init.c:81-144).     *)
RefusedRunsNothing ==
  Refused =>
    /\ Written = 0 /\ plans = <<>> /\ listed = {} /\ executed = 0
    /\ proc = "exited" => status # 0

(* Once gtu_init() has got to g_log_set_default_handler() and              *)
(* g_log_set_writer_func() (glib-handlers.c:193-197), no message of any     *)
(* thread traps without "Bail out!", whatever the masks, the command line   *)
(* and G_DEBUG say and whatever test is running; but for an error that is   *)
(* structured or that a test expects, which libgtu takes for dealt with and *)
(* GLib does not.                                                           *)
TrapSaysBailOut ==
  proc = "trapped" /\ bail = "none" =>
    \/ Refused \/ pc[Main] \in {"parse", "test_init", "mask", "handler"}
    \/ pc[Main] = "writer" /\ lost.via = "structured"
    \/ lost.level = "error" /\ (lost.via = "structured" \/ lost.expected)

-----------------------------------------------------------------------------
(* The program ends, whoever bails out and however often, unless a worker   *)
(* has locked itself out of the hooks (flags.c:7).                          *)
RunEnds == <>(proc # "running" \/ Hung)
=============================================================================
