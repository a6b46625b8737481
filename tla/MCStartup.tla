----------------------------- MODULE MCStartup -----------------------------
(* Instances of Startup for TLC. *)
EXTENDS MCSuiteRun, Startup

(* Each argument that changes anything, and a bad one behind good ones.     *)
SomeLines ==
  {<<"other">>, <<"-l", "-s good">>,
   <<"--g-fatal-warnings", "-k", "-s good">>, <<"-l", "-s bad">>,
   <<"-k", "--GTestSubprocess">>, <<"-p">>}
=============================================================================
