----------------------------- MODULE ObjectTree -----------------------------
(***************************************************************************)
(* Suites and cases as objects: floating and counted references, the tree   *)
(* that gtu_test_suite_add() builds, the path each object caches and the    *)
(* "ancestry-changed" signal that makes it drop it, and the run, which      *)
(* consumes its suite and holds a path while a body executes.               *)
(*                                                                          *)
(* The program, between gtu_init() and its end, calls the API in any order, *)
(* and so do the bodies during the run.  It keeps to the rules for          *)
(* references: it drops only those it owns, passes only live objects, and   *)
(* does not drop the floating reference to what others keep alive.          *)
(*                                                                          *)
(* Sources: src/object.c, src/test-suite/{test-suite,run}.c and             *)
(* src/test-case/{test-case,complex,run-init}.c.  What running a case comes *)
(* to and what is written is in CaseRun and SuiteRun.                       *)
(***************************************************************************)
EXTENDS Integers, Sequences, FiniteSets, SequencesExt

CONSTANTS Suites, Cases,  \* the objects a program may construct
          None,           \* NULL
          Names,          \* the path elements it may give them
          Shared,         \* bound: the objects that targets and values refer to
          Values,         \* the GValues of the program
          MaxHeld,        \* bound: references to one object the program owns
          Cycles,         \* it may add a suite to itself or one of its own
          BodyAdds        \* bodies may add objects to suites

Objects == Suites \cup Cases

ASSUME ObjectAssumption ==
  /\ Suites \cap Cases = {}
  /\ None \notin Objects
  /\ IsFiniteSet(Objects) /\ IsFiniteSet(Values)
  /\ Shared \subseteq Objects
  /\ MaxHeld \in Nat \ {0}
  /\ Cycles \in BOOLEAN
  /\ BodyAdds \in BOOLEAN

VARIABLES
  state,    \* of each object: "none" before its construction, "live", "freed"
  name,     \* name
  refs,     \* ref_count
  floating, \* is_floating
  parent,   \* parent: a bare pointer
  children, \* children of each suite
  path,     \* path: the cached one, as a sequence of names; <<>> for NULL
  held,     \* the references the program owns, the floating one included
  target,   \* what the func_target of each case owns a reference to, if any
  value,    \* what each GValue refers to
  emission, \* the emissions of ancestry-changed in progress, innermost last:
            \*   the object, the child propagate_signal() is at, and whether
            \*   the emission is to be restarted
  drops,    \* the calls of gtu_test_object_unref() to be made, next first
  phase,    \* "program", or where the run is: "next", in a "body", or about
            \*   to "report" its result
  root,     \* the suite being run
  tests,    \* what was collected from it
  at,       \* the case run_test() is at
  taken,    \* the path run_test() holds: "none", "valid", or "freed"
  hasRun,   \* has_run
  proc      \* how the process stands

objectVars == <<state, name, refs, floating, held>>
ownerVars  == <<target, value>>
treeVars   == <<parent, children>>
callVars   == <<emission, drops>>
runVars    == <<phase, root, tests, at, hasRun>>
vars == <<objectVars, ownerVars, treeVars, path, callVars, runVars, taken, proc>>

Init ==
  /\ state = [o \in Objects |-> "none"]
  /\ name \in [Objects -> Names]
  /\ refs = [o \in Objects |-> 0]
  /\ floating = [o \in Objects |-> FALSE]
  /\ held = [o \in Objects |-> 0]
  /\ target = [c \in Cases |-> None]
  /\ value = [v \in Values |-> None]
  /\ parent = [o \in Objects |-> None]
  /\ children = [s \in Suites |-> <<>>]
  /\ path = [o \in Objects |-> <<>>]
  /\ emission = <<>> /\ drops = <<>>
  /\ phase = "program" /\ root = None /\ tests = <<>> /\ at = 0
  /\ taken = "none"
  /\ hasRun = FALSE
  /\ proc = "running"

Live(o) == state[o] = "live"
Child(o, s) == o \in ToSet(children[s])
InCall == emission # <<>> \/ drops # <<>>

(* The program, or a body, makes its next call. *)
Calls == proc = "running" /\ ~InCall /\ phase \in {"program", "body"}

EndProcess(how) ==
  /\ proc' = how
  /\ UNCHANGED <<objectVars, ownerVars, treeVars, path, callVars, runVars, taken>>

(* o, its parent, its parent's parent and so on. *)
Above(o) ==
  LET up[n \in Nat] ==
        IF n = 0 THEN {o}
        ELSE LET lower == up[n-1]
             IN  lower \cup ({parent[x] : x \in lower} \ {None})
  IN  up[Cardinality(Objects)]

OnCycle(o) == parent[o] # None /\ o \in Above(parent[o])

-----------------------------------------------------------------------------
(* References.                                                              *)

(* _gtu_test_object_construct(): one reference, floating. *)
Construct(o) ==
  /\ Calls
  /\ state[o] = "none"
  /\ state' = [state EXCEPT ![o] = "live"]
  /\ refs' = [refs EXCEPT ![o] = 1]
  /\ floating' = [floating EXCEPT ![o] = TRUE]

(* A suite, a complex case, a case of a subclass, or one whose target owns  *)
(* no object.                                                               *)
New(o) ==
  /\ Construct(o)
  /\ held' = [held EXCEPT ![o] = 1]
  /\ UNCHANGED <<name, ownerVars, treeVars, path, callVars, runVars, taken, proc>>

(* gtu_test_case_new() with a target that the program's reference to an     *)
(* object goes to.                                                          *)
NewCase(c, o) ==
  /\ Construct(c)
  /\ held[o] > IF floating[o] THEN 1 ELSE 0
  /\ held' = [held EXCEPT ![c] = 1, ![o] = @ - 1]
  /\ target' = [target EXCEPT ![c] = o]
  /\ UNCHANGED <<name, value, treeVars, path, callVars, runVars, taken, proc>>

(* A type, a name, a nick or a function that cannot be used: a critical of  *)
(* libgtu's own domain, which is fatal, or an assertion.                    *)
RefuseNew(o) ==
  /\ Calls
  /\ state[o] = "none"
  /\ EndProcess("trapped")

Ref(o) ==
  /\ Calls
  /\ Live(o)
  /\ held[o] < MaxHeld
  /\ refs' = [refs EXCEPT ![o] = @ + 1]
  /\ held' = [held EXCEPT ![o] = @ + 1]
  /\ UNCHANGED <<state, name, floating, ownerVars, treeVars, path, callVars, runVars,
                 taken, proc>>

(* gtu_test_object_ref_sink(): adopt the floating reference, or add one.    *)
Sink(o) ==
  /\ floating' = [floating EXCEPT ![o] = FALSE]
  /\ refs' = [refs EXCEPT ![o] = IF floating[o] THEN @ ELSE @ + 1]

(* The program sinks; a floating reference was already its own.             *)
RefSink(o) ==
  /\ Calls
  /\ Live(o)
  /\ floating[o] \/ held[o] < MaxHeld
  /\ Sink(o)
  /\ held' = [held EXCEPT ![o] = IF floating[o] THEN @ ELSE @ + 1]
  /\ UNCHANGED <<state, name, ownerVars, treeVars, path, callVars, runVars, taken, proc>>

(* The program drops a reference of its own, the floating one only where it *)
(* is the last: nothing in an object says whose the floating reference is,  *)
(* and it could be adopted after it has gone.                               *)
Unref(o) ==
  /\ Calls
  /\ held[o] > 0
  /\ floating[o] => held[o] > 1 \/ refs[o] = 1
  /\ held' = [held EXCEPT ![o] = @ - 1]
  /\ drops' = <<o>>
  /\ UNCHANGED <<state, name, refs, floating, ownerVars, treeVars, path, emission,
                 runVars, taken, proc>>

(* The path of o is freed; run_test() may be holding it. *)
TakenAfterFree(o) ==
  taken' = IF taken = "valid" /\ tests[at] = o THEN "freed" ELSE taken

(* mutant: the suite keeps the references to its children *)
FinalizeShallow(o) ==
  /\ state' = [state EXCEPT ![o] = "freed"]
  /\ parent' = [parent EXCEPT ![o] = None]
  /\ path' = [path EXCEPT ![o] = <<>>]
  /\ TakenAfterFree(o)
  /\ children' = [s \in Suites |-> IF s = o THEN <<>> ELSE children[s]]
  /\ target' = [c \in Cases |-> IF c = o THEN None ELSE target[c]]
  /\ drops' = Tail(drops)

(* _gtu_test_case_dispose(): the target goes, once, and what it owns.       *)
Released(c) == IF target[c] = None THEN <<>> ELSE <<target[c]>>

(* mutant: the case does not know that it has been disposed of *)
DisposeAgain(c) == UNCHANGED target /\ drops' = Released(c)

Dispose(c) ==
  /\ target' = [target EXCEPT ![c] = None]
  /\ drops' = Released(c)

(* The finalizers: a suite drops its children, whose parent pointers stay   *)
(* as they are, and a case is disposed of; then name, parent and path go.   *)
Finalize(o) ==
  /\ state' = [state EXCEPT ![o] = "freed"]
  /\ parent' = [parent EXCEPT ![o] = None]
  /\ path' = [path EXCEPT ![o] = <<>>]
  /\ TakenAfterFree(o)
  /\ children' = [s \in Suites |-> IF s = o THEN <<>> ELSE children[s]]
  /\ target' = [c \in Cases |-> IF c = o THEN None ELSE target[c]]
  /\ drops' = (IF o \in Suites THEN children[o] ELSE Released(o)) \o Tail(drops)

(* gtu_test_object_unref() *)
Drop ==
  /\ proc = "running"
  /\ drops # <<>>
  /\ LET o == Head(drops) IN
     /\ refs' = [refs EXCEPT ![o] = @ - 1]
     /\ \/ /\ refs[o] = 1
           /\ Finalize(o)
        \/ /\ refs[o] > 1
           /\ drops' = Tail(drops)
           /\ UNCHANGED <<state, target, treeVars, path, taken>>
  /\ UNCHANGED <<name, floating, held, value, emission, runVars, proc>>

-----------------------------------------------------------------------------
(* The value table, as GLib calls it: a GValue that was initialised holds   *)
(* NULL, and one that was freed is initialised again before it is used.     *)

(* _value_collect() *)
CollectValue(v, o) ==
  /\ Calls
  /\ value[v] = None
  /\ Live(o)
  /\ refs' = [refs EXCEPT ![o] = @ + 1]
  /\ value' = [value EXCEPT ![v] = o]
  /\ UNCHANGED <<state, name, floating, held, target, treeVars, path, callVars,
                 runVars, taken, proc>>

(* _value_copy(), before which GLib has the destination freed: neither of   *)
(* the two can be NULL.  The source keeps its reference while the object    *)
(* that was there before is dropped.                                        *)
CopyValue(v, w) ==
  /\ Calls
  /\ v # w
  /\ IF value[v] = None \/ value[w] = None
     THEN EndProcess("trapped")
     ELSE /\ refs' = [refs EXCEPT ![value[v]] = @ + 1]
          /\ value' = [value EXCEPT ![w] = value[v]]
          /\ drops' = <<value[w]>>
          /\ UNCHANGED <<state, name, floating, held, target, treeVars, path,
                         emission, runVars, taken, proc>>

(* _value_lcopy() into a variable of the program; where it asks for no      *)
(* reference nothing changes.                                               *)
LcopyValue(v) ==
  /\ Calls
  /\ value[v] # None
  /\ held[value[v]] < MaxHeld
  /\ refs' = [refs EXCEPT ![value[v]] = @ + 1]
  /\ held' = [held EXCEPT ![value[v]] = @ + 1]
  /\ UNCHANGED <<state, name, floating, ownerVars, treeVars, path, callVars,
                 runVars, taken, proc>>

(* _value_free(): nor can NULL be freed. *)
FreeValue(v) ==
  /\ Calls
  /\ IF value[v] = None
     THEN EndProcess("trapped")
     ELSE /\ value' = [value EXCEPT ![v] = None]
          /\ drops' = <<value[v]>>
          /\ UNCHANGED <<objectVars, target, treeVars, path, emission, runVars,
                         taken, proc>>

-----------------------------------------------------------------------------
(* The tree.                                                                *)

(* An emission starts with dirty_path(), the first handler connected.       *)
DirtyPath(o) ==
  /\ path' = [path EXCEPT ![o] = <<>>]
  /\ IF path[o] # <<>> THEN TakenAfterFree(o) ELSE UNCHANGED taken

Emitting(o) == [obj |-> o, next |-> 1, again |-> FALSE]

(* mutant: the name is not looked up *)
AcceptsAnyName(s, o) == parent[o] = None

Accepts(s, o) ==
  /\ parent[o] = None
  /\ \A c \in ToSet(children[s]) : name[c] # name[o]

(* gtu_test_suite_add() up to the signal.  A precondition that fails logs a *)
(* critical of libgtu's own domain, which is fatal.                         *)
Add(s, o) ==
  /\ Calls
  /\ phase = "body" => BodyAdds
  /\ Live(s) /\ Live(o)
  /\ Cycles \/ o \notin Above(s)
  /\ IF ~Accepts(s, o)
     THEN EndProcess("trapped")
     ELSE /\ Sink(o)
          /\ held' = [held EXCEPT ![o] = IF floating[o] THEN @ - 1 ELSE @]
          /\ children' = [children EXCEPT ![s] = Append(@, o)]
          /\ parent' = [parent EXCEPT ![o] = s]
          /\ emission' = <<Emitting(o)>>
          /\ DirtyPath(o)
          /\ UNCHANGED <<state, name, ownerVars, drops, runVars, proc>>

Depth == Len(emission)
Frame == emission[Depth]
Heirs(o) == IF o \in Suites THEN children[o] ELSE <<>>

(* mutant: the signal reaches the children and goes no further *)
PropagateOnce ==
  /\ proc = "running" /\ emission # <<>>
  /\ Frame.next <= Len(Heirs(Frame.obj))
  /\ emission' = [emission EXCEPT ![Depth].next = @ + 1]
  /\ IF Depth = 1 THEN DirtyPath(Heirs(Frame.obj)[Frame.next])
                  ELSE UNCHANGED <<path, taken>>
  /\ UNCHANGED <<objectVars, ownerVars, treeVars, drops, runVars, proc>>

(* propagate_signal(): emit on the next child.  The signal does not recurse: *)
(* an object it is already being emitted on has that emission restarted.    *)
Propagate ==
  /\ proc = "running" /\ emission # <<>>
  /\ Frame.next <= Len(Heirs(Frame.obj))
  /\ LET child == Heirs(Frame.obj)[Frame.next]
         moved == [emission EXCEPT ![Depth].next = @ + 1]
         busy  == {i \in 1..Depth : emission[i].obj = child}
     IN  IF busy = {}
         THEN emission' = Append(moved, Emitting(child)) /\ DirtyPath(child)
         ELSE /\ emission' = [i \in 1..Depth |-> IF i \in busy
                                THEN [moved[i] EXCEPT !.again = TRUE]
                                ELSE moved[i]]
              /\ UNCHANGED <<path, taken>>
  /\ UNCHANGED <<objectVars, ownerVars, treeVars, drops, runVars, proc>>

Propagated ==
  /\ proc = "running" /\ emission # <<>>
  /\ Frame.next > Len(Heirs(Frame.obj))

(* mutant: a finished emission is taken up again *)
EndEmissionStuck ==
  /\ Propagated
  /\ emission' = [emission EXCEPT ![Depth].next = 1]
  /\ UNCHANGED <<objectVars, ownerVars, treeVars, path, drops, runVars, taken, proc>>

EndEmission ==
  /\ Propagated
  /\ IF Frame.again
     THEN /\ emission' = [emission EXCEPT ![Depth] = Emitting(Frame.obj)]
          /\ DirtyPath(Frame.obj)
     ELSE emission' = Front(emission) /\ UNCHANGED <<path, taken>>
  /\ UNCHANGED <<objectVars, ownerVars, treeVars, drops, runVars, proc>>

-----------------------------------------------------------------------------
(* Paths.                                                                   *)

(* The objects gtu_test_object_get_path() builds a path for: o and those    *)
(* above it, up to the first that has one.                                  *)
Unbuilt(o) ==
  LET built == {y \in Above(o) : path[y] # <<>> \/ ~Live(y)}
  IN  {x \in Above(o) : \A y \in built : x \notin Above(y)}

Built(o) ==
  LET whole[x \in Above(o)] ==
        IF path[x] # <<>> THEN path[x]
        ELSE Append(IF parent[x] = None THEN <<>> ELSE whole[parent[x]], name[x])
  IN  whole

GetPath(o) ==
  LET new == Unbuilt(o)
      built == Built(o)
  IN  path' = [x \in Objects |-> IF x \in new THEN built[x] ELSE path[x]]

(* The path of some object on the way is read through a parent pointer that *)
(* outlived the parent.                                                     *)
Strays(o) ==
  \E x \in Unbuilt(o) : parent[x] # None /\ state[parent[x]] = "freed"

(* The program asks for a path; so may a handler it has connected to the    *)
(* signal, which comes after the library's own.  A read amid an emission    *)
(* that will never end is left out.                                         *)
Read(o) ==
  /\ Calls \/ (Propagated /\ ~Frame.again)
  /\ Live(o)
  /\ \A x \in Above(o) : ~OnCycle(x)
  /\ IF Strays(o)
     THEN EndProcess("undefined")
     ELSE /\ GetPath(o)
          /\ UNCHANGED <<objectVars, ownerVars, treeVars, callVars, runVars, taken, proc>>

-----------------------------------------------------------------------------
(* The run.                                                                 *)

(* _gtu_test_object_collect_tests() *)
Collected(s) ==
  LET collect[x \in Objects] ==
        IF x \in Cases THEN <<x>>
        ELSE FlattenSeq([i \in DOMAIN children[x] |-> collect[children[x][i]]])
  IN  collect[s]

(* mutant: the reference is left floating *)
RunUnsunk(s) ==
  /\ Calls /\ phase = "program" /\ ~hasRun
  /\ held[s] > 0
  /\ held' = [held EXCEPT ![s] = @ - 1]
  /\ root' = s
  /\ tests' = Collected(s)
  /\ at' = 1
  /\ phase' = "next"
  /\ UNCHANGED <<state, name, refs, floating, ownerVars, treeVars, path, callVars,
                 taken, hasRun, proc>>

(* gtu_test_suite_run(): it takes over the program's reference, floating or *)
(* not.  A second run is refused.                                           *)
Run(s) ==
  /\ Calls
  /\ phase = "program"
  /\ held[s] > 0
  /\ IF hasRun
     THEN EndProcess("trapped")
     ELSE /\ floating' = [floating EXCEPT ![s] = FALSE]
          /\ held' = [held EXCEPT ![s] = @ - 1]
          /\ root' = s
          /\ tests' = Collected(s)
          /\ at' = 1
          /\ phase' = "next"
          /\ UNCHANGED <<state, name, refs, ownerVars, treeVars, path, callVars,
                         taken, hasRun, proc>>

(* run_test() takes the path.  The body follows, unless the case is left    *)
(* out.                                                                     *)
BeginTest ==
  /\ proc = "running" /\ phase = "next"
  /\ at <= Len(tests)
  /\ IF Strays(tests[at])
     THEN EndProcess("undefined")
     ELSE /\ GetPath(tests[at])
          /\ taken' = "valid"
          /\ phase' \in {"body", "report"}
          /\ UNCHANGED <<objectVars, ownerVars, treeVars, callVars, root, tests, at,
                         hasRun, proc>>

(* The body returns, and the case is disposed of. *)
EndBody(c) ==
  /\ Calls
  /\ phase = "body" /\ c = tests[at]
  /\ Dispose(c)
  /\ phase' = "report"
  /\ UNCHANGED <<objectVars, value, treeVars, path, emission, root, tests, at, taken,
                 hasRun, proc>>

(* The result is written under the path taken. *)
Report ==
  /\ proc = "running" /\ ~InCall
  /\ phase = "report"
  /\ IF taken = "freed"
     THEN EndProcess("undefined")
     ELSE /\ taken' = "none"
          /\ at' = at + 1
          /\ phase' = "next"
          /\ UNCHANGED <<objectVars, ownerVars, treeVars, path, callVars, root, tests,
                         hasRun, proc>>

EndRun ==
  /\ proc = "running" /\ phase = "next"
  /\ at > Len(tests)
  /\ drops' = <<root>>
  /\ hasRun' = TRUE
  /\ phase' = "program" /\ root' = None /\ tests' = <<>> /\ at' = 0
  /\ UNCHANGED <<objectVars, ownerVars, treeVars, path, emission, taken, proc>>

-----------------------------------------------------------------------------
ProgramStep ==
  \E o \in Objects :
    New(o) \/ RefuseNew(o) \/ Ref(o) \/ RefSink(o) \/ Unref(o) \/ Read(o)

ValueStep ==
  \E v \in Values :
    \/ \E o \in Shared : CollectValue(v, o)
    \/ \E w \in Values : CopyValue(v, w)
    \/ LcopyValue(v)
    \/ FreeValue(v)

CallStep == Drop \/ Propagate \/ EndEmission

RunStep == BeginTest \/ (\E c \in Cases : EndBody(c)) \/ Report \/ EndRun

(* main() returns, or the process has ended. *)
Stop == (proc # "running" \/ (Calls /\ phase = "program")) /\ UNCHANGED vars

Next ==
  \/ ProgramStep
  \/ ValueStep
  \/ \E c \in Cases, o \in Shared : NewCase(c, o)
  \/ \E s \in Suites, o \in Objects : Add(s, o)
  \/ \E s \in Suites : Run(s)
  \/ CallStep
  \/ RunStep
  \/ Stop

(* The calls of the library, being plain function calls, are not suspended. *)
Fairness == WF_vars(Drop) /\ WF_vars(Propagate) /\ WF_vars(EndEmission)

Spec == Init /\ [][Next]_vars
FairSpec == Spec /\ Fairness

-----------------------------------------------------------------------------
(* Each variable has values of its kind. *)
TypeOK ==
  /\ state \in [Objects -> {"none", "live", "freed"}]
  /\ name \in [Objects -> Names]
  /\ refs \in [Objects -> Nat]
  /\ floating \in [Objects -> BOOLEAN]
  /\ held \in [Objects -> 0..MaxHeld]
  /\ target \in [Cases -> Shared \cup {None}]
  /\ value \in [Values -> Shared \cup {None}]
  /\ parent \in [Objects -> Suites \cup {None}]
  /\ children \in [Suites -> Seq(Objects)]
  /\ path \in [Objects -> Seq(Names)]
  /\ emission \in Seq([obj: Objects, next: Nat, again: BOOLEAN])
  /\ drops \in Seq(Objects)
  /\ phase \in {"program", "next", "body", "report"}
  /\ root \in Suites \cup {None}
  /\ tests \in Seq(Cases) /\ at \in Nat
  /\ taken \in {"none", "valid", "freed"}
  /\ hasRun \in BOOLEAN
  /\ proc \in {"running", "trapped", "undefined"}

Count(o, seq) == Cardinality({i \in DOMAIN seq : seq[i] = o})

(* The references that are owed: the program's, one for each place in a     *)
(* suite, those of targets and of values, the run's, and those about to be  *)
(* dropped.                                                                 *)
Owed(o) ==
  held[o] + Cardinality({s \in Suites : Child(o, s)})
    + Cardinality({c \in Cases : target[c] = o})
    + Cardinality({v \in Values : value[v] = o})
    + (IF root = o THEN 1 ELSE 0) + Count(o, drops)

(* Nothing is freed while somebody has a reference to it and nothing lives  *)
(* on once everybody has dropped theirs, whoever adopted the floating one:  *)
(* the program, a suite or the run, and whether it is the run or the        *)
(* finalizer that disposes of a case (object.c:40-112,167-215,              *)
(* test-suite.c:25-37,70-77,84-94, test-case.c:6-30).                       *)
RefsExact ==
  \A o \in Objects :
    /\ refs[o] = Owed(o)
    /\ Live(o) <=> refs[o] > 0

(* Objects that can be followed up to a live root. *)
Anchored(o) == \A x \in Above(o) : Live(x) /\ ~OnCycle(x)

PathNow(o) ==
  LET whole[x \in Above(o)] ==
        Append(IF parent[x] = None THEN <<>> ELSE whole[parent[x]], name[x])
  IN  whole[o]

(* Once the signal has run its course every path that is cached is the one  *)
(* the tree has now, even when handlers of the program had paths built amid *)
(* the propagation (object.c:228-247,306-316, test-suite.c:100-111).        *)
CachedPathCurrent ==
  emission = <<>> =>
    \A o \in Objects :
      path[o] # <<>> /\ Anchored(o) => path[o] = PathNow(o)

(* Two objects under one root never have the same path, so a harness can    *)
(* tell all results apart (test-suite.c:25-33).                             *)
PathsDistinct ==
  LET rooted == {o \in Objects : Anchored(o)}
  IN  \A o, x \in rooted :
        o # x /\ Above(o) \cap Above(x) # {} => PathNow(o) # PathNow(x)

(* The run holds bare pointers to the cases it collected: each of them      *)
(* lives until the run is over, whatever references the bodies drop, and    *)
(* none is collected twice (test-suite.c:40-77).                            *)
CollectedAlive ==
  /\ \A i \in DOMAIN tests : Live(tests[i])
  /\ Cardinality(ToSet(tests)) = Len(tests)

(* The path run_test() reports a result under is the one it took before the *)
(* body, and still there (run.c:13-35).                                     *)
HeldPathAlive == taken # "freed"

-----------------------------------------------------------------------------
(* A cascade of finalizers and a signal travelling down the tree come to    *)
(* their end, unless a suite was added beneath itself, where the emission   *)
(* is restarted for ever (test-suite.c:84-111, object.c:178-192,294-303).   *)
CallsReturn ==
  InCall /\ (\A o \in Objects : ~OnCycle(o)) ~> ~InCall \/ proc # "running"
=============================================================================
