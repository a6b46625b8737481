----------------------------- MODULE MCCaseRun -----------------------------
(* Instances of CaseRun for TLC. *)
EXTENDS CaseRun, TLC

CONSTANTS w1, c1, c2

Msg(d, l, v) == [domain |-> d, level |-> l, body |-> "b1", via |-> v]

(* One message of every fate: fails the test, is fatal by its domain, is an *)
(* error, is merely shown; and the first again with another text.           *)
AllMessages ==
  {Msg("user", "warning", "log"), Msg("GiiTestUtils", "critical", "log"),
   Msg("user", "error", "log"), Msg("none", "warning", "log"),
   Msg("user", "info", "log"),
   [Msg("user", "warning", "log") EXCEPT !.body = "b2"]}

TwoMessages == {Msg("user", "warning", "log"), Msg("user", "message", "log")}
StructuredMessages == {Msg("user", "warning", "structured"),
                       Msg("user", "warning", "log")}
SomeMessages == {Msg("user", "warning", "log"), Msg("user", "error", "log"),
                 Msg("user", "info", "structured"), Msg("none", "custom", "log")}
OneMessage == {Msg("none", "warning", "log")}

(* What a worker may log at any time. *)
CalmMessages == {Msg("none", "message", "log"), Msg("none", "info", "structured")}

Pat(ls, bs) == [domain |-> "user", levels |-> ls, bodies |-> bs]
OverlappingPatterns ==
  {Pat({"warning", "critical"}, {"b1"}), Pat({"warning"}, {"b2"}),
   Pat({"warning", "info"}, {"b1", "b2"})}
OnePattern == {Pat({"warning"}, {"b1"})}
TwoBodies == {"b1", "b2"}
NoLevels == {}

Symmetric == Permutations({c1, c2})
=============================================================================
