----------------------------- MODULE LogPolicy -----------------------------
(***************************************************************************)
(* How one GLib message is classified: the FATAL bit it carries when it     *)
(* reaches libgtu, whether it matches an expectation of the running test,   *)
(* and the action each of the two log hooks of the library asks for.  Pure  *)
(* operators; the modules that model logging build on them.                 *)
(*                                                                          *)
(* Sources: src/test-case/run-init.c, src/init.c, src/flags.c,              *)
(* src/log/glib-handlers.c, src/log/hooks.c.                                *)
(***************************************************************************)
EXTENDS Integers, Sequences, SequencesExt

CONSTANTS Verbose,      \* GTU_TEST_MODE_FLAGS_VERBOSE
          Quiet,        \* GTU_TEST_MODE_FLAGS_QUIET
          AlwaysFatal,  \* the levels G_DEBUG or --g-fatal-warnings make fatal
          Bodies        \* the message texts that regexes tell apart

Grave == {"critical", "warning"}

ASSUME ModeAssumption ==
  /\ Verbose \in BOOLEAN
  /\ Quiet \in BOOLEAN
  /\ ~(Verbose /\ Quiet)            \* flags.c asserts it
  /\ AlwaysFatal \subseteq Grave

(* "info" stands for G_LOG_LEVEL_INFO and G_LOG_LEVEL_DEBUG, which every    *)
(* switch treats alike; "custom" is a level of the program's own, beyond    *)
(* G_LOG_LEVEL_MASK's named ones, or several milder ones at once.  "none"   *)
(* is the NULL domain.  A message arrives through g_log() or through        *)
(* g_log_structured().                                                      *)
Levels == {"error", "critical", "warning", "message", "info", "custom"}
InternalDomains == {"GiiTestUtils", "GiiTestUtils-Log"}
Domains == InternalDomains \cup {"user", "none"}
Message == [domain: Domains, level: Levels, body: Bodies,
            via: {"log", "structured"}]

(* The arguments of gtu_test_case_expect_message(): a domain that is neither *)
(* NULL nor GTU_LOG_DOMAIN, a level mask, and the texts the regex matches.  *)
Pattern == [domain: Domains \ {"none", "GiiTestUtils"},
            levels: SUBSET Levels, bodies: SUBSET Bodies]

(* An element of expected_msgs.  It is not ready between the resizing of    *)
(* the array and the stores that fill the new, zeroed element.              *)
Expectation == [pattern: Pattern, ready: BOOLEAN, count: Nat]

(* The FATAL bit on arrival.  g_logv() sets it for an error, for the        *)
(* always-fatal mask and for the fatal mask of a domain, which              *)
(* gtu_log_g_register_internal_domain() sets for libgtu's two domains;      *)
(* structured_handler() sets it from the always-fatal mask alone.           *)
FatalOnArrival(m) ==
  \/ m.level \in AlwaysFatal
  \/ m.via = "log" /\ m.level = "error"
  \/ m.via = "log" /\ m.level \in Grave /\ m.domain \in InternalDomains

(* _gtu_should_log() knows the named levels one by one, and asserts that    *)
(* there is no other.                                                       *)
Unreached(level, fatal) == ~fatal /\ level = "custom"

ShouldLog(level, fatal) ==
  \/ fatal
  \/ level \in {"error"} \cup Grave
  \/ level = "message" /\ ~Quiet
  \/ level = "info" /\ Verbose

Matches(m, p) ==
  /\ m.domain = p.domain
  /\ m.level \in p.levels
  /\ m.body \in p.bodies

(* log_hook()'s scan ends at an element that matches, or at one that is not *)
(* ready, whose NULL domain it hands to strcmp().  It is not made at all    *)
(* for a message without a domain.                                          *)
Stops(m, e) == m.domain # "none" /\ (~e.ready \/ Matches(m, e.pattern))

StopsAt(m, expected, i) ==
  /\ i \in DOMAIN expected
  /\ Stops(m, expected[i])
  /\ \A j \in DOMAIN expected : Stops(m, expected[j]) => i <= j

RunsOff(m, expected) == \A i \in DOMAIN expected : ~Stops(m, expected[i])

(* What log_hook() returns when the scan found a match ... *)
MatchedAction == IF ShouldLog("info", FALSE) THEN "SUPPRESS" ELSE "IGNORE"

(* ... and when it found none. *)
UnmatchedAction(m, fatal) ==
  IF ~fatal /\ m.level \in Grave THEN "ABORT" ELSE "CONTINUE"

(* verbosity_handler(): the hook beneath the one of a running test. *)
VerbosityFatal(m, fatal) == fatal \/ m.level \in Grave
VerbosityAction(m, fatal) ==
  IF ShouldLog(m.level, VerbosityFatal(m, fatal)) THEN "CONTINUE" ELSE "IGNORE"
=============================================================================
