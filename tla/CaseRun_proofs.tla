-------------------------- MODULE CaseRun_proofs --------------------------
(***************************************************************************)
(* Theorems about CaseRun, for any number of workers, cases, expectations   *)
(* and messages: the inductive invariant IInv and what rests on it alone,   *)
(* that verdicts are honest, that expectations count what they should, and  *)
(* that a program whose workers log calmly meets no failure of the library. *)
(***************************************************************************)
EXTENDS CaseRun, SequenceTheorems, TLAPS

(* The place of the main thread in _gtu_test_case_run(): where it is, or    *)
(* where the g_log() call it is in will return to.                          *)
Home == IF pc[Main] \in InLog THEN call[Main].back ELSE pc[Main]

(* log_hook is on the stack from the push to the pop. *)
Pushed == Home \notin {"idle", "push", "dispose"}

PlacesOK ==
  /\ pc[Main] # "user"
  /\ pc[Main] \in InLog => call[Main].back \in {"exec", "body", "pop", "dispose"}
  /\ \A t \in Workers : /\ pc[t] \in InLog \cup {"user"}
                        /\ pc[t] \in InLog => call[t].back = "user"

HooksOK ==
  IF Pushed
  THEN Len(hooks) = 2 /\ hooks[1] = cur /\ hooks[2] = NoCase
  ELSE Len(hooks) = 1 /\ hooks[1] = NoCase

CaseOK ==
  /\ cur = NoCase <=> pc[Main] = "idle"
  /\ cur \in Cases => ~disposed[cur]
  /\ \A c \in Cases : disposed[c] => result[c] # "INVALID"
  /\ Home \in {"reap", "pop", "dispose"} => result[cur] # "INVALID"
  /\ cur \in Cases /\ Home \notin {"reap", "pop", "dispose"}
       => result[cur] = "INVALID"

(* The context is live from exec_inner()'s calloc() to its free(). *)
ContextOK ==
  IF Home \in {"body", "fill", "asserting", "skipping", "unwound", "reap"}
  THEN ctx.owner = cur /\ ctx.result # "INVALID"
  ELSE ctx.owner = NoCase

(* A thread about to count a message has an element of the expectations of  *)
(* the case whose hook it stands at.                                        *)
FoundOK ==
  \A t \in Threads :
    /\ pc[t] \in {"hook", "count"} => cursor[t] > 0
    /\ pc[t] = "count" =>
         /\ cursor[t] <= Len(hooks)
         /\ hooks[cursor[t]] \in Cases
         /\ call[t].element \in DOMAIN expected[hooks[cursor[t]]]

(* The inductive invariant.  HookTargetAlive says nothing of the main       *)
(* thread's progress, and is not inductive without it: what keeps a worker  *)
(* from a disposed case is that the stack holds the hook of a case only     *)
(* while the main thread is between its push and its pop (HooksOK), and     *)
(* that the case is not disposed of there (CaseOK).                         *)
IInv ==
  /\ TypeOK /\ LockExact /\ DepthBalanced
  /\ PlacesOK /\ HooksOK /\ CaseOK /\ ContextOK /\ FoundOK

(* Taking an element out of a sequence shifts those behind it forward. *)
LEMMA RemoveAtProperties ==
  ASSUME NEW S, NEW s \in Seq(S), NEW i \in 1..Len(s)
  PROVE  /\ RemoveAt(s, i) \in Seq(S)
         /\ Len(RemoveAt(s, i)) = Len(s) - 1
         /\ \A j \in 1..(Len(s) - 1) :
              RemoveAt(s, i)[j] = IF j < i THEN s[j] ELSE s[j + 1]
<1> DEFINE a == SubSeq(s, 1, i - 1)
           b == SubSeq(s, i + 1, Len(s))
<1>0. Len(s) \in Nat /\ \A j \in 1..Len(s) : s[j] \in S
  BY LenProperties, ElementOfSeq
<1>1. /\ a \in Seq(S) /\ Len(a) = i - 1
      /\ \A j \in 1..(i - 1) : a[j] = s[j]
  <2>1. \A j \in 1..(i-1) : s[j] \in S
    BY <1>0
  <2> QED BY <2>1, <1>0, SubSeqProperties
<1>2. /\ b \in Seq(S) /\ Len(b) = Len(s) - i
      /\ \A j \in 1..(Len(s) - i) : b[j] = s[i + j]
  <2>1. \A j \in (i+1)..Len(s) : s[j] \in S
    BY <1>0
  <2>2. i + 1 \in Int /\ Len(s) \in Int
    BY <1>0
  <2>3. /\ b \in Seq(S)
        /\ Len(b) = IF i + 1 <= Len(s) THEN Len(s) - (i + 1) + 1 ELSE 0
        /\ \A j \in 1..(Len(s) - (i + 1) + 1) : b[j] = s[(i + 1) + j - 1]
    BY <2>1, <2>2, SubSeqProperties
  <2> QED BY <2>3, <1>0
<1>3. RemoveAt(s, i) = a \o b
  BY DEF RemoveAt
<1> HIDE DEF a, b
<1>4. /\ a \o b \in Seq(S)
      /\ Len(a \o b) = Len(a) + Len(b)
      /\ \A j \in 1..(Len(a) + Len(b)) :
           (a \o b)[j] = IF j <= Len(a) THEN a[j] ELSE b[j - Len(a)]
  BY <1>1, <1>2, ConcatProperties
<1> QED
  BY <1>0, <1>1, <1>2, <1>3, <1>4

Outcomes == {"trapped", "bailed", "aborted", "undefined"}

(* The end of the process disturbs nothing but proc. *)
LEMMA EndProcessStep ==
  ASSUME IInv, NEW how \in Outcomes, EndProcess(how)
  PROVE  IInv'
BY DEF EndProcess, Outcomes, threadVars, hookVars, caseVars, history, IInv,
   TypeOK, LockExact, DepthBalanced, PlacesOK, HooksOK, CaseOK, ContextOK,
   FoundOK, Home, Pushed

(* The classification of a message is a truth value. *)
LEMMA FlagsType ==
  ASSUME NEW m \in Message, NEW f \in BOOLEAN
  PROVE  FatalOnArrival(m) \in BOOLEAN /\ VerbosityFatal(m, f) \in BOOLEAN
BY DEF FatalOnArrival, VerbosityFatal

(* run-init.c's own message is a message. *)
LEMMA AnnouncementType == Announcement \in Message
<1>1. (CHOOSE b \in Bodies : TRUE) \in Bodies
  BY BodiesAssumption
<1> QED
  BY <1>1 DEF Announcement, Message, Domains, InternalDomains, Levels

(* A call starts out with nothing charged and no expectation found. *)
LEMMA NewCallType ==
  ASSUME NEW m \in Message,
         NEW back \in {"idle", "exec", "body", "pop", "dispose", "user"}
  PROVE  NewCall(m, back) \in Call
BY FlagsType, InputAssumption DEF NewCall, Call

(* Entering g_log() keeps the threads' state within its types. *)
LEMMA EnterLogTypes ==
  ASSUME TypeOK, NEW t \in Threads, NEW m \in Message,
         NEW back \in {"exec", "body", "pop", "dispose", "user"}, EnterLog(t, m, back)
  PROVE  /\ pc' \in [Threads -> MainUser \cup InLog \cup {"user"}]
         /\ call' \in [Threads -> Call]
         /\ cursor' \in [Threads -> Nat]
         /\ depth' \in [Threads -> Nat]
         /\ proc' \in {"running", "aborted"} \cup {proc}
<1>1. CASE depth[t] > 0 /\ m.via = "log"
  BY <1>1 DEF EnterLog, TypeOK, threadVars
<1>2. CASE ~(depth[t] > 0 /\ m.via = "log")
  <2>1. NewCall(m, back) \in Call
    BY NewCallType
  <2> DEFINE new == NewCall(m, back)
             d == IF m.via = "log" THEN depth[t] + 1 ELSE depth[t]
  <2>2. /\ call' = [call EXCEPT ![t] = new]
        /\ depth' = [depth EXCEPT ![t] = d]
        /\ pc' = [pc EXCEPT ![t] = "lock"]
        /\ cursor' = cursor
        /\ proc' = proc
    BY <1>2 DEF EnterLog, Goto
  <2>3. d \in Nat
    BY DEF TypeOK
  <2> HIDE DEF new, d
  <2>4. new \in Call
    BY <2>1 DEF new
  <2> QED
    BY <2>2, <2>3, <2>4 DEF TypeOK, InLog, InGLib
<1> QED
  BY <1>1, <1>2

(* A thread that is outside GLib is not taken for a recursive caller. *)
LEMMA EnterLogStep ==
  ASSUME IInv, NEW t \in Threads, pc[t] \notin InGLib, NEW m \in Message,
         NEW back \in {"exec", "body", "pop", "dispose", "user"}, EnterLog(t, m, back)
  PROVE  /\ call' = [call EXCEPT ![t] = NewCall(m, back)]
         /\ depth' = [depth EXCEPT ![t] = IF m.via = "log" THEN 1 ELSE 0]
         /\ pc' = [pc EXCEPT ![t] = "lock"]
         /\ cursor' = cursor /\ proc' = proc
<1>1. depth[t] = 0
  BY DEF IInv, DepthBalanced
<1> QED
  BY <1>1 DEF EnterLog, Goto, IInv, TypeOK

(* The handlers' common return into g_logv(). *)
LEMMA ReturnStep ==
  ASSUME IInv, NEW t \in Threads, proc = "running", pc[t] \in {"handled", "emit"},
         ReturnFromLog(t)
  PROVE  IInv'
<1>1. CASE call[t].msg.level = "error"
  BY <1>1, EndProcessStep DEF ReturnFromLog, Outcomes
<1>2. CASE call[t].msg.level # "error"
  <2> USE <1>2 DEF ReturnFromLog, LeaveDepth, Goto, IInv, hookVars, caseVars, history
  <2>1. call[t] \in Call /\ call[t].back \in {"exec", "body", "pop", "dispose", "user"}
    BY ThreadAssumption DEF TypeOK, PlacesOK, Threads, InLog, InGLib
  <2>2. depth' = [depth EXCEPT ![t] = 0]
    BY DEF DepthBalanced, InGLib, TypeOK
  <2>3. /\ pc' \in [Threads -> MainUser \cup InLog \cup {"user"}]
        /\ depth' \in [Threads -> Nat]
    <3>1. pc \in [Threads -> MainUser \cup InLog \cup {"user"}]
          /\ depth \in [Threads -> Nat]
      BY DEF TypeOK
    <3>2. pc' = [pc EXCEPT ![t] = call[t].back]
      OBVIOUS
    <3>3. call[t].back \in MainUser \cup InLog \cup {"user"}
      BY <2>1 DEF MainUser
    <3> QED
      BY ONLY <2>2, <3>1, <3>2, <3>3
  <2>4. TypeOK'
    <3>1. /\ UNCHANGED <<call, cursor, hooks, lock, cur, ctx, expected, result>>
          /\ UNCHANGED <<disposed, proc, logs, cause, seen, moved>>
      OBVIOUS
    <3> QED
      BY ONLY TypeOK, <2>3, <3>1 DEF TypeOK
  <2> USE <2>1 DEF Locked, TypeOK
  <2>5. LockExact'
    BY ZenonT(60) DEF LockExact
  <2>6. DepthBalanced'
    BY <2>2 DEF DepthBalanced, InGLib, MainUser
  <2>7. PlacesOK'
    BY SMTT(60), ThreadAssumption DEF PlacesOK, InLog, InGLib, Threads
  <2>8. HooksOK' /\ CaseOK' /\ ContextOK'
    BY <2>1, ThreadAssumption DEF PlacesOK, HooksOK, CaseOK, ContextOK, Home,
       Pushed, InLog, InGLib, Locked, TypeOK, Threads
  <2>9. FoundOK'
    BY <2>1 DEF FoundOK
  <2> QED
    BY <2>4, <2>5, <2>6, <2>7, <2>8, <2>9
<1> QED
  BY <1>1, <1>2

(* A thread that takes the mutex is the only one in the scan. *)
LEMMA LockHooksStep ==
  ASSUME IInv, NEW t \in Threads, LockHooks(t)
  PROVE  IInv'
<1> USE ThreadAssumption DEF At, Goto, threadVars, hookVars, caseVars,
    history, IInv, LockHooks, TypeOK, MainUser, InLog, InGLib, Locked, Threads
<1>1. TypeOK'
  BY InputAssumption DEF Call, DepthBalanced
<1>2. LockExact'
  BY DEF LockExact
<1>3. DepthBalanced'
  BY DEF DepthBalanced
<1>4. PlacesOK'
  BY DEF PlacesOK
<1>5. HooksOK'
  BY DEF PlacesOK, HooksOK, Pushed, Home, CaseOK
<1>6. CaseOK' /\ ContextOK'
  BY DEF PlacesOK, Pushed, CaseOK, ContextOK, Home
<1>7. FoundOK'
  BY DEF FoundOK, CaseOK, PlacesOK
<1> QED
  BY <1>1, <1>2, <1>3, <1>4, <1>5, <1>6, <1>7 DEF IInv

(* verbosity_handler() moves the scan on or ends it, unlocked. *)
LEMMA VerbosityStep ==
  ASSUME IInv, NEW t \in Threads, Verbosity(t)
  PROVE  IInv'
<1>1. TypeOK'
  <2>1. pc' \in [Threads -> MainUser \cup InLog \cup {"user"}]
    <3>1. CASE VerbosityAction(call[t].msg, call[t].fatal) = "CONTINUE"
      BY <3>1 DEF Verbosity, NextHook, IInv, TypeOK
    <3>2. CASE VerbosityAction(call[t].msg, call[t].fatal) # "CONTINUE"
      BY <3>2 DEF Verbosity, StopScan, Goto, IInv, TypeOK, InLog, InGLib
    <3> QED
      BY <3>1, <3>2
  <2>2. call' \in [Threads -> Call]
    <3> DEFINE f == VerbosityFatal(call[t].msg, call[t].fatal)
    <3>1. call[t] \in Call /\ call[t].msg \in Message /\ call[t].fatal \in BOOLEAN
      BY DEF IInv, TypeOK, Call
    <3>2. f \in BOOLEAN
      BY <3>1, FlagsType
    <3>3. call' = [call EXCEPT ![t] = [call[t] EXCEPT !.fatal = f]]
      BY DEF Verbosity
    <3> HIDE DEF f
    <3>4. [call[t] EXCEPT !.fatal = f] \in Call
      BY <3>1, <3>2 DEF Call
    <3> QED
      BY <3>3, <3>4 DEF IInv, TypeOK
  <2>3. cursor' \in [Threads -> Nat]
    BY ThreadAssumption, InputAssumption DEF At, Goto, threadVars, hookVars,
       caseVars, history, IInv, NextHook, StopScan, VerbosityFatal, Verbosity,
       TypeOK, MainUser, InLog, InGLib, Locked, Threads
  <2>4. lock' \in Threads \cup {Free}
    BY ThreadAssumption, InputAssumption DEF At, Goto, threadVars, hookVars,
       caseVars, history, IInv, NextHook, StopScan, VerbosityFatal, Verbosity,
       TypeOK, MainUser, InLog, InGLib, Locked, Threads
  <2>5. /\ UNCHANGED <<depth, hooks, cur, ctx, expected, result, disposed, proc>>
        /\ UNCHANGED <<logs, cause, seen, moved>>
    BY DEF At, Goto, threadVars, hookVars, caseVars, history, IInv, NextHook,
       StopScan, VerbosityFatal, Verbosity
  <2> QED
    BY <2>1, <2>2, <2>3, <2>4, <2>5 DEF IInv, TypeOK
<1>a. /\ pc[t] = "hook" /\ proc' = proc /\ hooks' = hooks /\ depth' = depth
      /\ UNCHANGED <<cur, ctx, expected, result, disposed>>
      /\ \/ pc' = pc /\ lock' = lock /\ cursor' = [cursor EXCEPT ![t] = @ + 1]
         \/ /\ pc' = [pc EXCEPT ![t] = "handled"]
            /\ lock' = Free /\ cursor' = cursor
  BY DEF Verbosity, AtVerbosity, NextHook, StopScan, At, Goto, caseVars
<1>b. \A s \in Threads : /\ call'[s].msg = call[s].msg
                         /\ call'[s].back = call[s].back
                         /\ call'[s].element = call[s].element
  <2>1. PICK f : call' = [call EXCEPT ![t] = [call[t] EXCEPT !.fatal = f]]
    BY DEF Verbosity
  <2>2. \A s \in Threads : call[s] \in Call
    BY DEF IInv, TypeOK
  <2>3. \A s \in Threads :
          call'[s] = call[s] \/ call'[s] = [call[s] EXCEPT !.fatal = f]
    BY <2>1 DEF IInv, TypeOK
  <2> QED
    BY <2>2, <2>3 DEF Call
<1> USE ThreadAssumption, <1>a, <1>b DEF IInv, TypeOK, MainUser, InLog, InGLib,
    Locked, Threads
<1>2. LockExact'
  BY DEF LockExact
<1>c. \A s \in Threads : pc'[s] = pc[s] \/ (s = t /\ pc'[s] = "handled")
  BY <1>a
<1>3. DepthBalanced'
  <2> SUFFICES ASSUME NEW s \in Threads
               PROVE  depth'[s] = IF pc'[s] \in InGLib /\ call'[s].msg.via = "log" THEN 1 ELSE 0
    BY DEF DepthBalanced
  <2>1. pc'[s] \in InGLib <=> pc[s] \in InGLib
    BY <1>a, <1>c
  <2>2. call'[s].msg = call[s].msg /\ depth'[s] = depth[s]
    BY <1>a, <1>b
  <2>3. depth[s] = IF pc[s] \in InGLib /\ call[s].msg.via = "log" THEN 1 ELSE 0
    BY DEF DepthBalanced
  <2> QED
    BY <2>1, <2>2, <2>3
<1>4. PlacesOK'
  BY ZenonT(60), <1>b, <1>c DEF PlacesOK
<1>5. HooksOK'
  BY DEF PlacesOK, HooksOK, Pushed, Home, CaseOK
<1>6. CaseOK' /\ ContextOK'
  BY DEF PlacesOK, Pushed, CaseOK, ContextOK, Home
<1>7. FoundOK'
  <2>1. \A s \in Threads : cursor'[s] = cursor[s] \/ (s = t /\ cursor'[s] = cursor[s] + 1)
    BY <1>a
  <2>2. \A s \in Threads : cursor[s] \in Nat
    OBVIOUS
  <2> QED
    BY <1>a, <1>b, <1>c, <2>1, <2>2 DEF FoundOK
<1> QED
  BY <1>1, <1>2, <1>3, <1>4, <1>5, <1>6, <1>7 DEF IInv

(* The assertion of _gtu_should_log() ends the process. *)
LEMMA VerbosityAssertStep ==
  ASSUME IInv, NEW t \in Threads, VerbosityAssert(t)
  PROVE  IInv'
BY EndProcessStep DEF VerbosityAssert, Outcomes

(* A crash of the hook ends the process. *)
LEMMA LogHookCrashStep ==
  ASSUME IInv, NEW t \in Threads, LogHookCrash(t)
  PROVE  IInv'
BY EndProcessStep DEF LogHookCrash, Outcomes

(* What the scan found is an element of the array at hand. *)
LEMMA LogHookFindStep ==
  ASSUME IInv, NEW t \in Threads, NEW i \in 1..MaxExpect, LogHookFind(t, i)
  PROVE  IInv'
<1>1. PICK still \in {FALSE, call[t].stale} :
        call' = [call EXCEPT ![t] = [call[t] EXCEPT !.element = i, !.stale = still]]
  BY DEF LogHookFind
<1>2. /\ pc[t] = "hook" /\ pc' = [pc EXCEPT ![t] = "count"]
      /\ cursor[t] <= Len(hooks)
      /\ hooks[cursor[t]] \in Cases /\ i \in DOMAIN expected[hooks[cursor[t]]]
      /\ UNCHANGED <<cursor, depth, hooks, lock, cur, ctx, expected, result>>
      /\ UNCHANGED <<disposed, proc, logs, cause, seen, moved>>
  BY DEF LogHookFind, AtLogHook, HookCase, StopsAt, At, Goto, hookVars, caseVars,
     history
<1>3. [call[t] EXCEPT !.element = i, !.stale = still] \in Call
  <2>1. call[t] \in Call
    BY DEF IInv, TypeOK
  <2>2. still \in BOOLEAN
    BY <2>1 DEF Call
  <2>3. i \in 0..MaxExpect
    BY InputAssumption
  <2> QED
    BY <2>1, <2>2, <2>3 DEF Call
<1>4. TypeOK'
  BY <1>1, <1>2, <1>3 DEF IInv, TypeOK, InLog, InGLib, Locked
<1>5. \A s \in Threads : /\ call'[s].msg = call[s].msg
                         /\ call'[s].back = call[s].back
                         /\ s # t => call'[s] = call[s]
  BY SMTT(60), <1>1 DEF IInv, TypeOK, Call
<1>6. call'[t].element = i
  BY <1>1 DEF IInv, TypeOK, Call
<1> USE ThreadAssumption, <1>2, <1>5 DEF IInv, TypeOK, MainUser, InLog, InGLib,
    Locked, Threads
<1>7. LockExact'
  BY DEF LockExact
<1>8. DepthBalanced'
  <2> SUFFICES ASSUME NEW s \in Threads
               PROVE  depth'[s] = IF pc'[s] \in InGLib /\ call'[s].msg.via = "log"
                                  THEN 1 ELSE 0
    BY DEF DepthBalanced
  <2>1. call'[s].msg = call[s].msg /\ depth'[s] = depth[s]
    BY <1>2, <1>5
  <2>2. pc'[s] \in InGLib <=> pc[s] \in InGLib
    BY <1>2
  <2> QED
    BY <2>1, <2>2 DEF DepthBalanced
<1>9. PlacesOK'
  BY DEF PlacesOK
<1>10. HooksOK'
  BY DEF PlacesOK, HooksOK, Pushed, Home, CaseOK
<1>11. CaseOK' /\ ContextOK'
  BY DEF PlacesOK, Pushed, CaseOK, ContextOK, Home
<1>12. FoundOK'
  BY <1>6 DEF FoundOK
<1> QED
  BY <1>4, <1>7, <1>8, <1>9, <1>10, <1>11, <1>12 DEF IInv

(* The history counts in numbers. *)
LEMMA SawMessageType ==
  ASSUME IInv, NEW c \in Cases, NEW m, SawMessage(c, m)
  PROVE  seen' \in [Cases -> Seq(Nat)]
<1> DEFINE s == seen[c]
           new == [h \in DOMAIN s |->
                     IF /\ expected[c][h].ready
                        /\ Matches(m, expected[c][h].pattern)
                     THEN s[h] + 1 ELSE s[h]]
<1>1. s \in Seq(Nat)
  BY DEF IInv, TypeOK
<1>2. Len(s) \in Nat /\ DOMAIN s = 1..Len(s) /\ \A h \in DOMAIN s : s[h] \in Nat
  BY <1>1, LenProperties, ElementOfSeq
<1>3. new \in [1..Len(s) -> Nat]
  BY <1>2
<1>4. seen' = [seen EXCEPT ![c] = new]
  BY DEF SawMessage
<1> HIDE DEF new, s
<1>5. new \in Seq(Nat)
  BY <1>2, <1>3
<1> QED
  BY <1>4, <1>5 DEF IInv, TypeOK

(* Counting a message ends the scan, unlocked. *)
LEMMA LogHookCountStep ==
  ASSUME IInv, NEW t \in Threads, LogHookCount(t)
  PROVE  IInv'
<1> DEFINE c == hooks[cursor[t]]
           i == call[t].element
           es == expected[c]
           e == [es[i] EXCEPT !.count = @ + 1]
<1>a. /\ pc[t] = "count" /\ pc' = [pc EXCEPT ![t] = "handled"]
      /\ lock' = Free
      /\ expected' = [expected EXCEPT ![c] = [es EXCEPT ![i] = e]]
      /\ SawMessage(c, call[t].msg)
      /\ UNCHANGED <<call, cursor, depth, hooks, cur, ctx, result, disposed>>
      /\ UNCHANGED <<proc, logs, cause, moved>>
  BY DEF LogHookCount, StopScan, Goto, At, HookCase
<1>b. c \in Cases /\ es \in Seq(Expectation) /\ i \in 1..Len(es)
  BY <1>a, LenProperties DEF IInv, FoundOK, TypeOK
<1>c. [es EXCEPT ![i] = e] \in Seq(Expectation)
  <2>1. es[i] \in Expectation
    BY <1>b, ElementOfSeq
  <2>2. e \in Expectation
    BY <2>1 DEF Expectation
  <2> HIDE DEF e, es, i
  <2> QED
    BY <1>b, <2>2, ExceptSeq
<1>d. DOMAIN expected'[c] = DOMAIN expected[c]
  BY <1>a, <1>b DEF IInv, TypeOK
<1> HIDE DEF e, es, i
<1>1. TypeOK'
  <2>1. seen' \in [Cases -> Seq(Nat)]
    BY <1>a, <1>b, SawMessageType
  <2>2. expected' \in [Cases -> Seq(Expectation)]
    BY <1>a, <1>b, <1>c DEF IInv, TypeOK
  <2> QED
    BY <1>a, <2>1, <2>2 DEF IInv, TypeOK, InLog, InGLib, Locked
<1>e. \A k \in Cases : DOMAIN expected'[k] = DOMAIN expected[k]
  BY <1>a, <1>b, <1>d DEF IInv, TypeOK
<1> USE ThreadAssumption, <1>a, <1>e DEF IInv, TypeOK, MainUser, InLog, InGLib,
    Locked, Threads
<1>2. LockExact'
  BY DEF LockExact
<1>3. DepthBalanced'
  BY DEF DepthBalanced
<1>4. PlacesOK'
  BY DEF PlacesOK
<1>5. HooksOK'
  BY DEF PlacesOK, HooksOK, Pushed, Home, CaseOK
<1>6. CaseOK' /\ ContextOK'
  BY DEF PlacesOK, Pushed, CaseOK, ContextOK, Home
<1>7. FoundOK'
  BY DEF FoundOK, CaseOK, PlacesOK
<1> QED
  BY <1>1, <1>2, <1>3, <1>4, <1>5, <1>6, <1>7 DEF IInv

(* An increment that is lost ends the scan in the same way. *)
LEMMA LogHookMiscountStep ==
  ASSUME IInv, NEW t \in Threads, LogHookMiscount(t)
  PROVE  IInv'
<1> DEFINE c == hooks[cursor[t]]
<1>a. /\ pc[t] = "count" /\ pc' = [pc EXCEPT ![t] = "handled"]
      /\ lock' = Free
      /\ SawMessage(c, call[t].msg)
      /\ UNCHANGED <<call, cursor, depth, hooks, cur, ctx, expected, result>>
      /\ UNCHANGED <<disposed, proc, logs, cause, moved>>
  BY DEF LogHookMiscount, StopScan, Goto, At, HookCase, caseVars
<1>1. TypeOK'
  <2>1. c \in Cases
    BY <1>a DEF IInv, FoundOK
  <2>2. seen' \in [Cases -> Seq(Nat)]
    BY <1>a, <2>1, SawMessageType
  <2> QED
    BY <1>a, <2>2 DEF IInv, TypeOK, InLog, InGLib, Locked
<1> USE ThreadAssumption, <1>a DEF IInv, TypeOK, MainUser, InLog, InGLib,
    Locked, Threads
<1>2. LockExact'
  BY DEF LockExact
<1>3. DepthBalanced'
  BY DEF DepthBalanced
<1>4. PlacesOK'
  BY DEF PlacesOK
<1>5. HooksOK'
  BY DEF PlacesOK, HooksOK, Pushed, Home, CaseOK
<1>6. CaseOK' /\ ContextOK'
  BY DEF PlacesOK, Pushed, CaseOK, ContextOK, Home
<1>7. FoundOK'
  BY DEF FoundOK, CaseOK, PlacesOK
<1> QED
  BY <1>1, <1>2, <1>3, <1>4, <1>5, <1>6, <1>7 DEF IInv

(* An increment that lands on what is not its own ends the process. *)
LEMMA LogHookClobberStep ==
  ASSUME IInv, NEW t \in Threads, LogHookClobber(t)
  PROVE  IInv'
BY EndProcessStep DEF LogHookClobber, Outcomes

(* A message the hook passes leaves all but the cursor alone. *)
LEMMA LogHookPassStep ==
  ASSUME IInv, NEW t \in Threads, LogHookPass(t)
  PROVE  IInv'
<1> USE ThreadAssumption DEF At, Goto, threadVars, hookVars, caseVars,
    history, IInv, AtLogHook, NextHook, HookCase, LogHookPass, TypeOK,
    MainUser, InLog, InGLib, Locked, Threads
<1>1. TypeOK'
  <2>1. cursor' \in [Threads -> Nat]
    OBVIOUS
  <2> QED
    BY <2>1
<1>2. LockExact'
  BY DEF LockExact
<1>3. DepthBalanced'
  BY DEF DepthBalanced
<1>4. PlacesOK'
  BY DEF PlacesOK
<1>5. HooksOK'
  BY DEF PlacesOK, HooksOK, Pushed, Home, CaseOK
<1>6. CaseOK' /\ ContextOK'
  BY DEF PlacesOK, Pushed, CaseOK, ContextOK, Home
<1>7. FoundOK'
  BY SMTT(60) DEF FoundOK, CaseOK, PlacesOK
<1> QED
  BY <1>1, <1>2, <1>3, <1>4, <1>5, <1>6, <1>7 DEF IInv

(* A failing message finds the live context, or the process ends. *)
LEMMA LogHookFailStep ==
  ASSUME IInv, NEW t \in Threads, LogHookFail(t)
  PROVE  IInv'
<1>1. CASE ctx.owner = NoCase \/ ctx.message
  BY <1>1, EndProcessStep DEF LogHookFail, Outcomes
<1>2. CASE ctx.owner # NoCase /\ ~ctx.message
  <2>0. /\ pc[t] = "hook"
        /\ pc' = [pc EXCEPT ![t] = "mark"]
        /\ call' = [call EXCEPT ![t] = [call[t] EXCEPT !.charged = ctx.owner]]
        /\ UNCHANGED <<cursor, depth, hooks, lock, cur, ctx, expected, result>>
        /\ UNCHANGED <<disposed, proc, logs, cause, seen, moved>>
    BY <1>2 DEF threadVars, hookVars, caseVars, history, Goto, At, AtLogHook,
       LogHookFail
  <2>1. TypeOK'
    <3>1. pc' \in [Threads -> MainUser \cup InLog \cup {"user"}]
      BY <2>0 DEF IInv, TypeOK, MainUser, InLog, InGLib, Locked
    <3>2. call' \in [Threads -> Call]
      <4>1. call[t] \in Call /\ ctx.owner \in Cases \cup {NoCase}
        BY DEF IInv, TypeOK
      <4>2. [call[t] EXCEPT !.charged = ctx.owner] \in Call
        BY <4>1 DEF Call
      <4> QED
        BY <2>0, <4>2 DEF IInv, TypeOK
    <3> QED
      BY <2>0, <3>1, <3>2 DEF IInv, TypeOK
  <2> USE <2>0, ThreadAssumption DEF IInv, TypeOK, MainUser, InLog, InGLib,
      Locked, Threads
  <2>2. LockExact'
    BY DEF LockExact
  <2>3. DepthBalanced'
    BY DEF DepthBalanced
  <2>4. PlacesOK'
    BY DEF PlacesOK
  <2>5. HooksOK'
    BY DEF PlacesOK, HooksOK, Pushed, Home, CaseOK
  <2>6. CaseOK' /\ ContextOK'
    BY DEF PlacesOK, Pushed, CaseOK, ContextOK, Home
  <2>7. FoundOK'
    BY DEF FoundOK, CaseOK, PlacesOK
  <2> QED
    BY <2>1, <2>2, <2>3, <2>4, <2>5, <2>6, <2>7 DEF IInv
<1> QED
  BY <1>1, <1>2

(* Storing the message leaves the context to its case, and the mutex held. *)
LEMMA MarkMessageStep ==
  ASSUME IInv, NEW t \in Threads, MarkMessage(t)
  PROVE  IInv'
<1>1. CASE ctx.owner # call[t].charged
  BY <1>1, EndProcessStep DEF MarkMessage, Outcomes
<1>2. CASE ctx.owner = call[t].charged
  <2>0. /\ pc[t] = "mark"
        /\ pc' = [pc EXCEPT ![t] = "fail"]
        /\ ctx' = [ctx EXCEPT !.message = TRUE]
        /\ cause' = [cause EXCEPT ![ctx.owner] =
                     @ \cup {IF t = Main THEN "warned" ELSE "worker"}]
        /\ UNCHANGED <<call, cursor, depth, hooks, lock, cur, expected, result>>
        /\ UNCHANGED <<disposed, proc, logs, seen, moved>>
    BY <1>2 DEF hookVars, caseVars, history, Goto, At, MarkMessage
  <2>1. TypeOK'
    <3>1. pc' \in [Threads -> MainUser \cup InLog \cup {"user"}]
      BY <2>0 DEF IInv, TypeOK, MainUser, InLog, InGLib, Locked
    <3>2. ctx' \in [owner: Cases \cup {NoCase}, message: BOOLEAN,
                       result: {"INVALID", "PASS", "SKIP", "FAIL"}]
      BY <2>0 DEF IInv, TypeOK
    <3>3. cause' \in [Cases -> SUBSET {"returned", "asserted", "skipped",
                                        "warned", "worker"}]
      <4> DEFINE k == IF t = Main THEN "warned" ELSE "worker"
      <4>1. ctx.owner \in Cases => cause[ctx.owner] \cup {k} \in
              SUBSET {"returned", "asserted", "skipped", "warned", "worker"}
        BY DEF IInv, TypeOK
      <4>2. cause' = [cause EXCEPT ![ctx.owner] = cause[ctx.owner] \cup {k}]
        BY <2>0
      <4> QED
        BY <4>1, <4>2 DEF IInv, TypeOK
    <3> QED
      BY <2>0, <3>1, <3>2, <3>3 DEF IInv, TypeOK
  <2> USE <2>0, ThreadAssumption DEF IInv, TypeOK, MainUser, InLog, InGLib,
      Locked, Threads
  <2>2. LockExact'
    BY DEF LockExact
  <2>3. DepthBalanced'
    BY DEF DepthBalanced
  <2>4. PlacesOK'
    BY DEF PlacesOK
  <2>5. HooksOK'
    BY DEF PlacesOK, HooksOK, Pushed, Home, CaseOK
  <2>6. CaseOK' /\ ContextOK'
    BY DEF PlacesOK, Pushed, CaseOK, ContextOK, Home
  <2>7. FoundOK'
    BY DEF FoundOK, CaseOK, PlacesOK
  <2> QED
    BY <2>1, <2>2, <2>3, <2>4, <2>5, <2>6, <2>7 DEF IInv
<1> QED
  BY <1>1, <1>2

(* Charging the context gives back the mutex and not the verdict. *)
LEMMA MarkFailedStep ==
  ASSUME IInv, NEW t \in Threads, MarkFailed(t)
  PROVE  IInv'
<1>1. CASE ctx.owner # call[t].charged
  BY <1>1, EndProcessStep DEF MarkFailed, Outcomes
<1>2. CASE ctx.owner = call[t].charged
  <2>0. /\ pc[t] = "fail"
        /\ pc' = [pc EXCEPT ![t] = "unwind"]
        /\ ctx' = [ctx EXCEPT !.result = "FAIL"]
        /\ lock' = Free
        /\ UNCHANGED <<call, cursor, depth, hooks, cur, expected, result>>
        /\ UNCHANGED <<disposed, proc, logs, cause, seen, moved>>
    BY <1>2 DEF caseVars, history, Goto, At, MarkFailed
  <2>1. TypeOK'
    <3>1. pc' \in [Threads -> MainUser \cup InLog \cup {"user"}]
      BY <2>0 DEF IInv, TypeOK, MainUser, InLog, InGLib, Locked
    <3>2. ctx' \in [owner: Cases \cup {NoCase}, message: BOOLEAN,
                       result: {"INVALID", "PASS", "SKIP", "FAIL"}]
      BY <2>0 DEF IInv, TypeOK
    <3> QED
      BY <2>0, <3>1, <3>2 DEF IInv, TypeOK
  <2> USE <2>0, ThreadAssumption DEF IInv, TypeOK, MainUser, InLog, InGLib,
      Locked, Threads
  <2>2. LockExact'
    BY DEF LockExact
  <2>3. DepthBalanced'
    BY DEF DepthBalanced
  <2>4. PlacesOK'
    BY DEF PlacesOK
  <2>5. HooksOK'
    BY DEF PlacesOK, HooksOK, Pushed, Home, CaseOK
  <2>6. CaseOK' /\ ContextOK'
    BY DEF PlacesOK, Pushed, CaseOK, ContextOK, Home
  <2>7. FoundOK'
    BY DEF FoundOK, CaseOK, PlacesOK
  <2> QED
    BY <2>1, <2>2, <2>3, <2>4, <2>5, <2>6, <2>7 DEF IInv
<1> QED
  BY <1>1, <1>2

(* Running off the stack gives back the mutex. *)
LEMMA EndScanStep ==
  ASSUME IInv, NEW t \in Threads, EndScan(t)
  PROVE  IInv'
<1> USE ThreadAssumption DEF At, Goto, threadVars, hookVars, caseVars,
    history, IInv, EndScan, TypeOK, MainUser, InLog, InGLib, Locked, Threads
<1>1. TypeOK'
  BY InputAssumption DEF Call, DepthBalanced
<1>2. LockExact'
  BY DEF LockExact
<1>3. DepthBalanced'
  BY DEF DepthBalanced
<1>4. PlacesOK'
  BY DEF PlacesOK
<1>5. HooksOK'
  BY DEF PlacesOK, HooksOK, Pushed, Home, CaseOK
<1>6. CaseOK' /\ ContextOK'
  BY DEF PlacesOK, Pushed, CaseOK, ContextOK, Home
<1>7. FoundOK'
  BY DEF FoundOK, CaseOK, PlacesOK
<1> QED
  BY <1>1, <1>2, <1>3, <1>4, <1>5, <1>6, <1>7 DEF IInv

(* A message that was dealt with returns to its caller. *)
LEMMA HandledStep ==
  ASSUME IInv, NEW t \in Threads, Handled(t)
  PROVE  IInv'
BY ReturnStep DEF Handled, At

(* A message that is shown returns to its caller, or traps. *)
LEMMA EmitStep ==
  ASSUME IInv, NEW t \in Threads, Emit(t)
  PROVE  IInv'
<1>1. CASE call[t].fatal
  BY <1>1, EndProcessStep DEF Emit, Outcomes
<1>2. CASE ~call[t].fatal
  BY <1>2, ReturnStep DEF Emit, At
<1> QED
  BY <1>1, <1>2

(* The unwinding through g_logv() restores the recursion count. *)
LEMMA UnwindStep ==
  ASSUME IInv, NEW t \in Threads, Unwind(t)
  PROVE  IInv'
<1>1. CASE call[t].msg.via = "structured"
  BY <1>1, EndProcessStep DEF Unwind, Outcomes
<1>2. CASE call[t].msg.via # "structured"
  <2>0. /\ pc[t] = "unwind"
        /\ pc' = [pc EXCEPT ![t] = "preempt"]
        /\ depth' = [depth EXCEPT ![t] = IF call[t].msg.via = "log" THEN @ - 1 ELSE @]
        /\ UNCHANGED <<call, cursor, hooks, lock, cur, ctx, expected, result>>
        /\ UNCHANGED <<disposed, proc, logs, cause, seen, moved>>
    BY <1>2 DEF threadVars, hookVars, caseVars, history, Goto, At, LeaveDepth,
       Unwind
  <2>1. TypeOK'
    <3>1. pc' \in [Threads -> MainUser \cup InLog \cup {"user"}]
      BY <2>0 DEF IInv, TypeOK, MainUser, InLog, InGLib, Locked
    <3>2. depth' \in [Threads -> Nat]
      <4>1. depth[t] = 1 /\ call[t].msg.via = "log"
        BY <1>2, <2>0 DEF IInv, TypeOK, DepthBalanced, InGLib, Call, Message
      <4>2. depth' = [depth EXCEPT ![t] = 0]
        BY <2>0, <4>1
      <4> QED
        BY <4>2 DEF IInv, TypeOK
    <3> QED
      BY <2>0, <3>1, <3>2 DEF IInv, TypeOK
  <2> USE <2>0, ThreadAssumption DEF IInv, TypeOK, MainUser, InLog, InGLib,
      Locked, Threads
  <2>2. LockExact'
    BY DEF LockExact
  <2>3. DepthBalanced'
    BY DEF DepthBalanced
  <2>4. PlacesOK'
    BY DEF PlacesOK
  <2>5. HooksOK'
    <3>1. Home' = Home
      BY DEF Home, PlacesOK
    <3> QED
      BY <3>1 DEF HooksOK, Pushed
  <2>6. CaseOK' /\ ContextOK'
    BY DEF PlacesOK, Pushed, CaseOK, ContextOK, Home
  <2>7. FoundOK'
    BY DEF FoundOK, CaseOK, PlacesOK
  <2> QED
    BY <2>1, <2>2, <2>3, <2>4, <2>5, <2>6, <2>7 DEF IInv
<1> QED
  BY <1>1, <1>2

(* The jump lands in exec_inner() of the running case. *)
LEMMA PreemptStep ==
  ASSUME IInv, NEW t \in Threads, Preempt(t)
  PROVE  IInv'
<1>1. CASE t # Main \/ ctx.owner = NoCase
  BY <1>1, EndProcessStep DEF Preempt, Outcomes
<1>2. CASE t = Main /\ ctx.owner # NoCase
  <2>0. /\ t = Main
        /\ ctx.owner # NoCase
        /\ pc[t] = "preempt"
        /\ pc' = [pc EXCEPT ![t] = "unwound"]
        /\ UNCHANGED <<call, cursor, depth, hooks, lock, cur, ctx, expected>>
        /\ UNCHANGED <<result, disposed, proc, logs, cause, seen, moved>>
    BY <1>2 DEF threadVars, hookVars, caseVars, history, Goto, At, Preempt
  <2>1. TypeOK'
    <3>1. pc' \in [Threads -> MainUser \cup InLog \cup {"user"}]
      BY <2>0 DEF IInv, TypeOK, MainUser, InLog, InGLib, Locked
    <3> QED
      BY <2>0, <3>1 DEF IInv, TypeOK
  <2> USE <2>0, ThreadAssumption DEF IInv, TypeOK, MainUser, InLog, InGLib,
      Locked, Threads
  <2>2. LockExact'
    BY DEF LockExact
  <2>3. DepthBalanced'
    BY DEF DepthBalanced
  <2>4. PlacesOK'
    BY DEF PlacesOK
  <2>5. HooksOK'
    <3>1. Home \in {"body", "fill", "asserting", "skipping", "unwound", "reap"}
      BY DEF ContextOK
    <3>2. Home' = "unwound"
      BY DEF Home
    <3> QED
      BY <3>1, <3>2 DEF HooksOK, Pushed
  <2>6. CaseOK' /\ ContextOK'
    BY DEF PlacesOK, Pushed, CaseOK, ContextOK, Home
  <2>7. FoundOK'
    BY DEF FoundOK, CaseOK, PlacesOK
  <2> QED
    BY <2>1, <2>2, <2>3, <2>4, <2>5, <2>6, <2>7 DEF IInv
<1> QED
  BY <1>1, <1>2

(* Beginning a case with no verdict. *)
LEMMA BeginStep ==
  ASSUME IInv, NEW c \in Cases, Begin(c)
  PROVE  IInv'
<1> USE ThreadAssumption DEF At, Goto, threadVars, hookVars, caseVars,
    history, IInv, Begin, TypeOK, MainUser, InLog, InGLib, Locked, Threads
<1>1. TypeOK'
  BY InputAssumption DEF Call, DepthBalanced
<1>2. LockExact'
  BY DEF LockExact
<1>3. DepthBalanced'
  BY DEF DepthBalanced
<1>4. PlacesOK'
  BY DEF PlacesOK
<1>5. HooksOK'
  BY DEF PlacesOK, HooksOK, Pushed, Home, CaseOK
<1>6. CaseOK' /\ ContextOK'
  BY DEF PlacesOK, Pushed, CaseOK, ContextOK, Home
<1>7. FoundOK'
  BY DEF FoundOK, CaseOK, PlacesOK
<1> QED
  BY <1>1, <1>2, <1>3, <1>4, <1>5, <1>6, <1>7 DEF IInv

(* The push puts the hook of the current case on top. *)
LEMMA PushStep ==
  ASSUME IInv, Push
  PROVE  IInv'
<1>0. /\ proc = "running" /\ Main \in Threads /\ Announcement \in Message
      /\ pc[Main] \notin InGLib /\ EnterLog(Main, Announcement, "exec")
  BY AnnouncementType, InputAssumption DEF Push, At, InGLib, Locked, Threads
<1>1. /\ call' = [call EXCEPT ![Main] = NewCall(Announcement, "exec")]
      /\ depth' = [depth EXCEPT ![Main] = IF Announcement.via = "log" THEN 1 ELSE 0]
      /\ pc' = [pc EXCEPT ![Main] = "lock"]
      /\ cursor' = cursor /\ proc' = proc
  BY <1>0, EnterLogStep
<1>2. TypeOK'
  <2>1. /\ pc' \in [Threads -> MainUser \cup InLog \cup {"user"}]
        /\ call' \in [Threads -> Call]
        /\ depth' \in [Threads -> Nat]
    BY <1>0, EnterLogTypes DEF IInv
  <2>2. hooks' \in Seq(Cases \cup {NoCase})
    BY ConcatProperties DEF Push, IInv, TypeOK, CaseOK, At
  <2>3. UNCHANGED <<lock, cur, ctx, expected, result, disposed, logs, cause, seen, moved>>
    BY DEF Push, hookVars, caseVars, history
  <2> QED
    BY <1>1, <2>1, <2>2, <2>3 DEF IInv, TypeOK
<1>9. Len(hooks') = 2 /\ hooks'[1] = cur /\ hooks'[2] = NoCase
  <2>1. cur \in Cases /\ <<cur>> \in Seq(Cases \cup {NoCase})
    BY <1>0 DEF Push, At, IInv, TypeOK, CaseOK
  <2>2. hooks \in Seq(Cases \cup {NoCase}) /\ Len(hooks) = 1 /\ hooks[1] = NoCase
    <3>1. Home = "push"
      BY DEF Push, At, Home, InLog, InGLib, Locked
    <3> QED
      BY <3>1 DEF IInv, TypeOK, HooksOK, Pushed
  <2>3. hooks' = <<cur>> \o hooks
    BY DEF Push
  <2> DEFINE s == <<cur>>
  <2>4. s \in Seq(Cases \cup {NoCase}) /\ Len(s) = 1 /\ s[1] = cur
    BY <2>1
  <2> HIDE DEF s
  <2>5. /\ Len(s \o hooks) = 2
        /\ (s \o hooks)[1] = cur
        /\ (s \o hooks)[2] = NoCase
    BY SMTT(60), <2>2, <2>4, ConcatProperties
  <2> QED
    BY <2>3, <2>5 DEF s
<1> USE ThreadAssumption, <1>0, <1>1 DEF At, hookVars, caseVars, history,
    NewCall, IInv, Push, TypeOK, MainUser, InLog, InGLib, Locked, Threads
<1>3. LockExact'
  BY DEF LockExact
<1>4. DepthBalanced'
  BY DEF DepthBalanced
<1>5. PlacesOK'
  BY DEF PlacesOK
<1>6. HooksOK'
  BY <1>9 DEF PlacesOK, HooksOK, Pushed, Home, CaseOK
<1>7. CaseOK' /\ ContextOK'
  BY DEF PlacesOK, Pushed, CaseOK, ContextOK, Home
<1>8. FoundOK'
  BY DEF FoundOK, LockExact
<1> QED
  BY <1>2, <1>3, <1>4, <1>5, <1>6, <1>7, <1>8 DEF IInv

(* exec_inner() makes the context of the current case. *)
LEMMA ExecStep ==
  ASSUME IInv, Exec
  PROVE  IInv'
<1>1. CASE ctx.owner # NoCase
  BY <1>1, EndProcessStep DEF Exec, Outcomes
<1>2. CASE ctx.owner = NoCase
  <2>0. /\ pc[Main] = "exec"
        /\ pc' = [pc EXCEPT ![Main] = "body"]
        /\ ctx' = [owner |-> cur, message |-> FALSE, result |-> "PASS"]
        /\ UNCHANGED <<call, cursor, depth, hooks, lock, cur, expected, result>>
        /\ UNCHANGED <<disposed, proc, logs, cause, seen, moved>>
    BY <1>2 DEF threadVars, hookVars, caseVars, history, Goto, At, NewContext,
       Exec
  <2>1. TypeOK'
    <3>1. pc' \in [Threads -> MainUser \cup InLog \cup {"user"}]
      BY <2>0 DEF IInv, TypeOK, MainUser, InLog, InGLib, Locked
    <3>2. ctx' \in [owner: Cases \cup {NoCase}, message: BOOLEAN,
                       result: {"INVALID", "PASS", "SKIP", "FAIL"}]
      BY <2>0 DEF IInv, TypeOK, MainUser, InLog, InGLib, Locked
    <3> QED
      BY <2>0, <3>1, <3>2 DEF IInv, TypeOK
  <2> USE <2>0, ThreadAssumption DEF IInv, TypeOK, MainUser, InLog, InGLib,
      Locked, Threads
  <2>2. LockExact'
    BY DEF LockExact
  <2>3. DepthBalanced'
    BY DEF DepthBalanced
  <2>4. PlacesOK'
    BY DEF PlacesOK
  <2>5. HooksOK'
    <3>1. Home' = "body" /\ Home = "exec"
      BY DEF Home
    <3> QED
      BY <3>1 DEF HooksOK, Pushed
  <2>6. CaseOK' /\ ContextOK'
    BY DEF PlacesOK, Pushed, CaseOK, ContextOK, Home
  <2>7. FoundOK'
    BY DEF FoundOK, CaseOK, PlacesOK
  <2> QED
    BY <2>1, <2>2, <2>3, <2>4, <2>5, <2>6, <2>7 DEF IInv
<1> QED
  BY <1>1, <1>2

(* The first and only verdict of the current case. *)
LEMMA ReadVerdictStep ==
  ASSUME IInv, ReadVerdict
  PROVE  IInv'
<1> USE ThreadAssumption DEF At, Goto, threadVars, hookVars, caseVars,
    history, IInv, ReadVerdict, TypeOK, MainUser, InLog, InGLib, Locked,
    Threads
<1>1. TypeOK'
  BY InputAssumption DEF Call, DepthBalanced
<1>2. LockExact'
  BY DEF LockExact
<1>3. DepthBalanced'
  BY DEF DepthBalanced
<1>4. PlacesOK'
  BY DEF PlacesOK
<1>5. HooksOK'
  BY DEF PlacesOK, HooksOK, Pushed, Home, CaseOK
<1>6. CaseOK' /\ ContextOK'
  BY DEF PlacesOK, Pushed, CaseOK, ContextOK, Home
<1>7. FoundOK'
  BY DEF FoundOK, CaseOK, PlacesOK
<1> QED
  BY <1>1, <1>2, <1>3, <1>4, <1>5, <1>6, <1>7 DEF IInv

(* The context goes when the case has its verdict. *)
LEMMA FreeContextStep ==
  ASSUME IInv, FreeContext
  PROVE  IInv'
<1>0. /\ proc = "running" /\ Main \in Threads /\ Announcement \in Message
      /\ pc[Main] \notin InGLib /\ EnterLog(Main, Announcement, "pop")
  BY AnnouncementType, InputAssumption DEF FreeContext, At, InGLib, Locked,
     Threads
<1>1. /\ call' = [call EXCEPT ![Main] = NewCall(Announcement, "pop")]
      /\ depth' = [depth EXCEPT ![Main] = IF Announcement.via = "log" THEN 1 ELSE 0]
      /\ pc' = [pc EXCEPT ![Main] = "lock"]
      /\ cursor' = cursor /\ proc' = proc
  BY <1>0, EnterLogStep
<1>2. TypeOK'
  <2>1. /\ pc' \in [Threads -> MainUser \cup InLog \cup {"user"}]
        /\ call' \in [Threads -> Call]
        /\ depth' \in [Threads -> Nat]
    BY <1>0, EnterLogTypes DEF IInv
  <2>2. ctx' \in [owner: Cases \cup {NoCase}, message: BOOLEAN,
                   result: {"INVALID", "PASS", "SKIP", "FAIL"}]
    BY DEF FreeContext, NoContext
  <2>3. UNCHANGED <<hooks, lock, cur, expected, result, disposed, logs, cause, seen, moved>>
    BY DEF FreeContext, hookVars, caseVars, history
  <2> QED
    BY <1>1, <2>1, <2>2, <2>3 DEF IInv, TypeOK
<1> USE ThreadAssumption, <1>0, <1>1 DEF At, hookVars, caseVars, history,
    NewCall, IInv, FreeContext, NoContext, TypeOK, MainUser, InLog, InGLib, Locked,
    Threads
<1>3. LockExact'
  BY DEF LockExact
<1>4. DepthBalanced'
  BY DEF DepthBalanced
<1>5. PlacesOK'
  BY DEF PlacesOK
<1>6. HooksOK'
  BY DEF PlacesOK, HooksOK, Pushed, Home, CaseOK
<1>7. CaseOK' /\ ContextOK'
  BY DEF PlacesOK, Pushed, CaseOK, ContextOK, Home
<1>8. FoundOK'
  BY DEF FoundOK, CaseOK, PlacesOK
<1> QED
  BY <1>2, <1>3, <1>4, <1>5, <1>6, <1>7, <1>8 DEF IInv

(* The pop, under the mutex, takes the hook of the current case. *)
LEMMA PopStep ==
  ASSUME IInv, Pop
  PROVE  IInv'
<1>1. TypeOK'
  <2>1. pc' \in [Threads -> MainUser \cup InLog \cup {"user"}]
    BY ThreadAssumption, InputAssumption DEF At, Goto, threadVars, hookVars,
       caseVars, history, IInv, Pop, TypeOK, MainUser, InLog, InGLib, Locked,
       Threads
  <2>2. hooks' \in Seq(Cases \cup {NoCase})
    BY RemoveAtProperties DEF Pop, IInv, TypeOK
  <2>3. /\ UNCHANGED <<call, cursor, depth, lock, cur, ctx, expected, result>>
        /\ UNCHANGED <<disposed, proc, logs, cause, seen, moved>>
    BY DEF At, Goto, threadVars, hookVars, caseVars, history, IInv, Pop
  <2> QED
    BY <2>1, <2>2, <2>3 DEF IInv, TypeOK
<1>9. Len(hooks') = 1 /\ hooks'[1] = NoCase
  <2>1. PICK i \in 1..Len(hooks) : Topmost(i) /\ hooks' = RemoveAt(hooks, i)
    BY DEF Pop
  <2>2. Len(hooks) = 2 /\ hooks[1] = cur /\ hooks[2] = NoCase /\ cur # NoCase
    BY ThreadAssumption DEF Pop, At, IInv, HooksOK, Pushed, Home, CaseOK, InLog,
       InGLib, Locked
  <2>3. i = 1
    BY <2>1, <2>2 DEF Topmost
  <2>4. hooks \in Seq(Cases \cup {NoCase})
    BY DEF IInv, TypeOK
  <2>5. /\ Len(hooks') = Len(hooks) - 1
        /\ \A j \in 1..(Len(hooks) - 1) :
             hooks'[j] = IF j < i THEN hooks[j] ELSE hooks[j + 1]
    BY <2>1, <2>4, RemoveAtProperties
  <2> QED
    BY <2>2, <2>3, <2>5
<1> USE ThreadAssumption DEF At, Goto, threadVars, hookVars, caseVars,
    history, IInv, Pop, TypeOK, MainUser, InLog, InGLib, Locked, Threads
<1>2. LockExact'
  BY DEF LockExact
<1>3. DepthBalanced'
  BY DEF DepthBalanced
<1>4. PlacesOK'
  BY DEF PlacesOK
<1>5. HooksOK'
  BY <1>9 DEF HooksOK, Pushed, Home
<1>6. CaseOK' /\ ContextOK'
  BY ThreadAssumption DEF At, Goto, threadVars, hookVars, caseVars, history,
     IInv, Pop, TypeOK, MainUser, InLog, InGLib, Locked, Threads, PlacesOK,
     Pushed, CaseOK, ContextOK, Home
<1>7. FoundOK'
  BY DEF FoundOK, LockExact
<1> QED
  BY <1>1, <1>2, <1>3, <1>4, <1>5, <1>6, <1>7 DEF IInv

(* The case is disposed of when its hook is off the stack. *)
LEMMA DisposeStep ==
  ASSUME IInv, Dispose
  PROVE  IInv'
<1>1. TypeOK'
  <2>1. pc' \in [Threads -> MainUser \cup InLog \cup {"user"}]
    BY ThreadAssumption, InputAssumption DEF At, Goto, threadVars, hookVars,
       caseVars, history, IInv, Dispose, TypeOK, MainUser, InLog, InGLib,
       Locked, Threads
  <2>2. cur' \in Cases \cup {NoCase}
    BY ThreadAssumption, InputAssumption DEF At, Goto, threadVars, hookVars,
       caseVars, history, IInv, Dispose, TypeOK, MainUser, InLog, InGLib,
       Locked, Threads
  <2>3. expected' \in [Cases -> Seq(Expectation)]
    <3>1. << >> \in Seq(Expectation)
      BY EmptySeq
    <3> QED
      BY <3>1 DEF Dispose, IInv, TypeOK
  <2>4. disposed' \in [Cases -> BOOLEAN]
    BY ThreadAssumption, InputAssumption DEF At, Goto, threadVars, hookVars,
       caseVars, history, IInv, Dispose, TypeOK, MainUser, InLog, InGLib,
       Locked, Threads
  <2>5. seen' \in [Cases -> Seq(Nat)]
    <3>1. << >> \in Seq(Nat)
      BY EmptySeq
    <3> QED
      BY <3>1 DEF Dispose, IInv, TypeOK
  <2>6. /\ UNCHANGED <<call, cursor, depth, hooks, lock, ctx, result, proc>>
        /\ UNCHANGED <<logs, cause, moved>>
    BY DEF At, Goto, threadVars, hookVars, caseVars, history, IInv, Dispose
  <2> QED
    BY <2>1, <2>2, <2>3, <2>4, <2>5, <2>6 DEF IInv, TypeOK
<1> USE ThreadAssumption DEF At, Goto, threadVars, hookVars, caseVars,
    history, IInv, Dispose, TypeOK, MainUser, InLog, InGLib, Locked, Threads
<1>2. LockExact'
  BY DEF LockExact
<1>3. DepthBalanced'
  BY DEF DepthBalanced
<1>4. PlacesOK'
  BY DEF PlacesOK
<1>5. HooksOK'
  BY DEF PlacesOK, HooksOK, Pushed, Home, CaseOK
<1>6. CaseOK' /\ ContextOK'
  BY DEF PlacesOK, Pushed, CaseOK, ContextOK, Home
<1>7. FoundOK'
  <2> SUFFICES ASSUME NEW t \in Threads, pc[t] = "count"
               PROVE  FALSE
    BY DEF FoundOK
  <2>1. Len(hooks) = 1 /\ hooks[1] = NoCase
    BY DEF HooksOK, Pushed, Home
  <2>2. cursor[t] = 1 /\ hooks[cursor[t]] \in Cases
    BY <2>1 DEF FoundOK
  <2> QED
    BY <2>1, <2>2
<1> QED
  BY <1>1, <1>2, <1>3, <1>4, <1>5, <1>6, <1>7 DEF IInv

(* A body that returns still has its context. *)
LEMMA BodyReturnStep ==
  ASSUME IInv, BodyReturn
  PROVE  IInv'
<1> USE ThreadAssumption DEF At, Goto, threadVars, hookVars, caseVars,
    history, IInv, BodyReturn, TypeOK, MainUser, InLog, InGLib, Locked,
    Threads
<1>1. TypeOK'
  BY InputAssumption DEF Call, DepthBalanced
<1>2. LockExact'
  BY DEF LockExact
<1>3. DepthBalanced'
  BY DEF DepthBalanced
<1>4. PlacesOK'
  BY DEF PlacesOK
<1>5. HooksOK'
  BY DEF PlacesOK, HooksOK, Pushed, Home, CaseOK
<1>6. CaseOK' /\ ContextOK'
  BY DEF PlacesOK, Pushed, CaseOK, ContextOK, Home
<1>7. FoundOK'
  BY DEF FoundOK, CaseOK, PlacesOK
<1> QED
  BY <1>1, <1>2, <1>3, <1>4, <1>5, <1>6, <1>7 DEF IInv

(* A body enters g_log() from outside of it. *)
LEMMA BodyLogStep ==
  ASSUME IInv, NEW m \in BodyMessages, BodyLog(m)
  PROVE  IInv'
<1>0. /\ proc = "running" /\ Main \in Threads /\ m \in Message
      /\ pc[Main] \notin InGLib /\ EnterLog(Main, m, "body")
  BY AnnouncementType, InputAssumption DEF BodyLog, At, InGLib, Locked,
     Threads
<1>1. /\ call' = [call EXCEPT ![Main] = NewCall(m, "body")]
      /\ depth' = [depth EXCEPT ![Main] = IF m.via = "log" THEN 1 ELSE 0]
      /\ pc' = [pc EXCEPT ![Main] = "lock"]
      /\ cursor' = cursor /\ proc' = proc
  BY <1>0, EnterLogStep
<1>2. TypeOK'
  <2>1. /\ pc' \in [Threads -> MainUser \cup InLog \cup {"user"}]
        /\ call' \in [Threads -> Call]
        /\ depth' \in [Threads -> Nat]
    BY <1>0, EnterLogTypes DEF IInv
  <2>2. logs' \in 0..MaxLogs
    BY InputAssumption DEF BodyLog, IInv, TypeOK
  <2>3. UNCHANGED <<hooks, lock, cur, ctx, expected, result, disposed, cause, seen, moved>>
    BY DEF BodyLog, hookVars, caseVars, history
  <2> QED
    BY <1>1, <2>1, <2>2, <2>3 DEF IInv, TypeOK
<1> USE ThreadAssumption, <1>0, <1>1 DEF At, hookVars, caseVars, history,
    NewCall, IInv, BodyLog, TypeOK, MainUser, InLog, InGLib, Locked, Threads
<1>3. LockExact'
  BY DEF LockExact
<1>4. DepthBalanced'
  BY DEF DepthBalanced
<1>5. PlacesOK'
  BY DEF PlacesOK
<1>6. HooksOK'
  BY DEF PlacesOK, HooksOK, Pushed, Home, CaseOK
<1>7. CaseOK' /\ ContextOK'
  BY DEF PlacesOK, Pushed, CaseOK, ContextOK, Home
<1>8. FoundOK'
  BY DEF FoundOK, CaseOK, PlacesOK
<1> QED
  BY <1>2, <1>3, <1>4, <1>5, <1>6, <1>7, <1>8 DEF IInv

(* So does the destructor of a function's target. *)
LEMMA DestroyLogStep ==
  ASSUME IInv, NEW m \in DestroyMessages, DestroyLog(m)
  PROVE  IInv'
<1>0. /\ proc = "running" /\ Main \in Threads /\ m \in Message
      /\ pc[Main] \notin InGLib /\ EnterLog(Main, m, "dispose")
  BY AnnouncementType, InputAssumption DEF DestroyLog, At, InGLib, Locked,
     Threads
<1>1. /\ call' = [call EXCEPT ![Main] = NewCall(m, "dispose")]
      /\ depth' = [depth EXCEPT ![Main] = IF m.via = "log" THEN 1 ELSE 0]
      /\ pc' = [pc EXCEPT ![Main] = "lock"]
      /\ cursor' = cursor /\ proc' = proc
  BY <1>0, EnterLogStep
<1>2. TypeOK'
  <2>1. /\ pc' \in [Threads -> MainUser \cup InLog \cup {"user"}]
        /\ call' \in [Threads -> Call]
        /\ depth' \in [Threads -> Nat]
    BY <1>0, EnterLogTypes DEF IInv
  <2>2. logs' \in 0..MaxLogs
    BY InputAssumption DEF DestroyLog, IInv, TypeOK
  <2>3. UNCHANGED <<hooks, lock, cur, ctx, expected, result, disposed, cause, seen, moved>>
    BY DEF DestroyLog, hookVars, caseVars, history
  <2> QED
    BY <1>1, <2>1, <2>2, <2>3 DEF IInv, TypeOK
<1> USE ThreadAssumption, <1>0, <1>1 DEF At, hookVars, caseVars, history,
    NewCall, IInv, DestroyLog, TypeOK, MainUser, InLog, InGLib, Locked, Threads
<1>3. LockExact'
  BY DEF LockExact
<1>4. DepthBalanced'
  BY DEF DepthBalanced
<1>5. PlacesOK'
  BY DEF PlacesOK
<1>6. HooksOK'
  BY DEF PlacesOK, HooksOK, Pushed, Home, CaseOK
<1>7. CaseOK' /\ ContextOK'
  BY DEF PlacesOK, Pushed, CaseOK, ContextOK, Home
<1>8. FoundOK'
  BY DEF FoundOK, CaseOK, PlacesOK
<1> QED
  BY <1>2, <1>3, <1>4, <1>5, <1>6, <1>7, <1>8 DEF IInv

(* A destructor that fails an assertion ends the process. *)
LEMMA DestroyAssertStep ==
  ASSUME IInv, DestroyAssert
  PROVE  IInv'
BY EndProcessStep DEF DestroyAssert, Outcomes

(* Only log_hook()'s pointer into the array changes under a call in progress. *)
LEMMA ExpectMoves ==
  ASSUME IInv, NEW p \in Patterns, Expect(p)
  PROVE  /\ call' \in [Threads -> Call]
         /\ moved' \subseteq Cases
         /\ \A t \in Threads : call'[t] = [call[t] EXCEPT !.stale = call'[t].stale]
<1>1. PICK under \in SUBSET Reading(cur) :
        /\ call' = [t \in Threads |->
                     IF t \in under THEN [call[t] EXCEPT !.stale = TRUE] ELSE call[t]]
        /\ moved' = IF under = {} THEN moved ELSE moved \cup {cur}
  BY DEF Expect
<1>2. \A t \in Threads : /\ call[t] \in Call
                         /\ [call[t] EXCEPT !.stale = TRUE] \in Call
  <2>1. \A t \in Threads : call[t] \in Call
    BY DEF IInv, TypeOK
  <2> QED
    BY <2>1 DEF Call
<1>3. \A t \in Threads : call'[t] \in Call
  BY <1>1, <1>2
<1>4. \A t \in Threads : call'[t] = [call[t] EXCEPT !.stale = call'[t].stale]
  BY <1>1, <1>2 DEF Call
<1>5. cur \in Cases
  BY DEF Expect, At, IInv, TypeOK, CaseOK
<1> QED
  BY ZenonT(60), <1>1, <1>3, <1>4, <1>5 DEF IInv, TypeOK

(* A new, unfilled expectation. *)
LEMMA ExpectStep ==
  ASSUME IInv, NEW p \in Patterns, Expect(p)
  PROVE  IInv'
<1> DEFINE e == [pattern |-> p, ready |-> FALSE, count |-> 0]
<1>a. /\ proc = "running" /\ pc[Main] = "body"
      /\ pc' = [pc EXCEPT ![Main] = "fill"]
      /\ expected' = [expected EXCEPT ![cur] = Append(expected[cur], e)]
      /\ seen' = [seen EXCEPT ![cur] = Append(seen[cur], 0)]
      /\ UNCHANGED <<cursor, depth, hooks, lock, cur, ctx, result, disposed>>
      /\ UNCHANGED <<proc, logs, cause>>
  BY DEF Expect, At, Goto, hookVars
<1>b. cur \in Cases
  BY <1>a DEF IInv, TypeOK, CaseOK
<1>c. /\ Append(expected[cur], e) \in Seq(Expectation)
      /\ DOMAIN expected[cur] \subseteq DOMAIN Append(expected[cur], e)
  <2>1. expected[cur] \in Seq(Expectation) /\ e \in Expectation
    BY <1>b, InputAssumption DEF IInv, TypeOK, Expectation
  <2> HIDE DEF e
  <2>2. /\ Append(expected[cur], e) \in Seq(Expectation)
        /\ Len(Append(expected[cur], e)) = Len(expected[cur]) + 1
    BY <2>1, AppendProperties
  <2>3. /\ Len(expected[cur]) \in Nat
        /\ DOMAIN expected[cur] = 1..Len(expected[cur])
        /\ DOMAIN Append(expected[cur], e) = 1..Len(Append(expected[cur], e))
    BY <2>1, <2>2, LenProperties
  <2> QED
    BY <2>2, <2>3
<1> HIDE DEF e
<1>d. \A k \in Cases : DOMAIN expected[k] \subseteq DOMAIN expected'[k]
  BY <1>a, <1>b, <1>c DEF IInv, TypeOK
<1>e. \A t \in Threads : /\ call'[t].msg = call[t].msg
                         /\ call'[t].back = call[t].back
                         /\ call'[t].element = call[t].element
  <2>1. \A t \in Threads :
          call[t] \in Call /\ call'[t] = [call[t] EXCEPT !.stale = call'[t].stale]
    BY ExpectMoves DEF IInv, TypeOK
  <2> QED
    BY <2>1 DEF Call
<1>1. TypeOK'
  <2>1. seen' \in [Cases -> Seq(Nat)]
    <3>1. Append(seen[cur], 0) \in Seq(Nat)
      BY <1>b, AppendProperties DEF IInv, TypeOK
    <3> QED
      BY <1>a, <1>b, <3>1 DEF IInv, TypeOK
  <2>2. expected' \in [Cases -> Seq(Expectation)]
    BY <1>a, <1>b, <1>c DEF IInv, TypeOK
  <2>3. pc' \in [Threads -> MainUser \cup InLog \cup {"user"}]
    BY <1>a DEF IInv, TypeOK, MainUser
  <2>4. call' \in [Threads -> Call] /\ moved' \subseteq Cases
    BY ExpectMoves
  <2> QED
    BY <1>a, <2>1, <2>2, <2>3, <2>4 DEF IInv, TypeOK
<1> USE ThreadAssumption, <1>a, <1>d, <1>e DEF IInv, TypeOK, MainUser, InLog,
    InGLib, Locked, Threads
<1>2. LockExact'
  BY DEF LockExact
<1>3. DepthBalanced'
  BY DEF DepthBalanced
<1>4. PlacesOK'
  BY DEF PlacesOK
<1>5. HooksOK'
  BY DEF PlacesOK, HooksOK, Pushed, Home, CaseOK
<1>6. CaseOK' /\ ContextOK'
  BY DEF PlacesOK, Pushed, CaseOK, ContextOK, Home
<1>7. FoundOK'
  BY DEF FoundOK, CaseOK, PlacesOK
<1> QED
  BY <1>1, <1>2, <1>3, <1>4, <1>5, <1>6, <1>7 DEF IInv

(* Filling the new expectation. *)
LEMMA FillExpectationStep ==
  ASSUME IInv, FillExpectation
  PROVE  IInv'
<1>1. TypeOK'
  <2>1. pc' \in [Threads -> MainUser \cup InLog \cup {"user"}]
    BY ThreadAssumption, InputAssumption DEF At, Goto, threadVars, hookVars,
       caseVars, history, IInv, FillExpectation, TypeOK, MainUser, InLog,
       InGLib, Locked, Threads
  <2>2. expected' \in [Cases -> Seq(Expectation)]
    <3> DEFINE es == expected[cur]
               new == [es EXCEPT ![Len(es)].ready = TRUE]
    <3>1. cur \in Cases /\ es \in Seq(Expectation)
      BY DEF FillExpectation, At, IInv, TypeOK, CaseOK
    <3>2. Len(es) \in Nat /\ es \in [1..Len(es) -> Expectation]
      BY <3>1, LenProperties
    <3>3. new \in [1..Len(es) -> Expectation]
      BY <3>2 DEF Expectation
    <3>4. new \in Seq(Expectation)
      BY <3>2, <3>3
    <3>5. expected' = [expected EXCEPT ![cur] = new]
      BY DEF FillExpectation
    <3> HIDE DEF new, es
    <3> QED
      BY <3>1, <3>4, <3>5 DEF IInv, TypeOK
  <2>3. /\ UNCHANGED <<call, cursor, depth, hooks, lock, cur, ctx, result>>
        /\ UNCHANGED <<disposed, proc, logs, cause, seen, moved>>
    BY DEF At, Goto, threadVars, hookVars, caseVars, history, IInv,
       FillExpectation
  <2> QED
    BY <2>1, <2>2, <2>3 DEF IInv, TypeOK
<1> USE ThreadAssumption DEF At, Goto, threadVars, hookVars, caseVars,
    history, IInv, FillExpectation, TypeOK, MainUser, InLog, InGLib, Locked,
    Threads
<1>2. LockExact'
  BY DEF LockExact
<1>3. DepthBalanced'
  BY DEF DepthBalanced
<1>4. PlacesOK'
  BY DEF PlacesOK
<1>5. HooksOK'
  BY DEF PlacesOK, HooksOK, Pushed, Home, CaseOK
<1>6. CaseOK' /\ ContextOK'
  BY DEF PlacesOK, Pushed, CaseOK, ContextOK, Home
<1>7. FoundOK'
  BY DEF FoundOK, CaseOK, PlacesOK
<1> QED
  BY <1>1, <1>2, <1>3, <1>4, <1>5, <1>6, <1>7 DEF IInv

(* Reading and resetting a count. *)
LEMMA ExpectCountStep ==
  ASSUME IInv, NEW h \in 1..MaxExpect, ExpectCount(h)
  PROVE  IInv'
<1>1. TypeOK'
  <2>1. expected' \in [Cases -> Seq(Expectation)]
    <3> DEFINE es == expected[cur]
               e == [es[h] EXCEPT !.count = 0]
    <3>1. cur \in Cases /\ es \in Seq(Expectation) /\ h \in 1..Len(es)
      BY LenProperties DEF ExpectCount, At, IInv, TypeOK, CaseOK
    <3>9. es[h] \in Expectation
      BY <3>1, ElementOfSeq
    <3>2. e \in Expectation
      BY <3>9 DEF Expectation
    <3>3. expected' = [expected EXCEPT ![cur] = [es EXCEPT ![h] = e]]
      BY DEF ExpectCount
    <3> HIDE DEF e, es
    <3>4. [es EXCEPT ![h] = e] \in Seq(Expectation)
      BY <3>1, <3>2, ExceptSeq
    <3> QED
      BY <3>1, <3>3, <3>4 DEF IInv, TypeOK
  <2>2. seen' \in [Cases -> Seq(Nat)]
    <3> DEFINE s == seen[cur]
               new == [s EXCEPT ![h] = 0]
    <3>1. cur \in Cases /\ s \in Seq(Nat)
      BY DEF ExpectCount, At, IInv, TypeOK, CaseOK
    <3>2. Len(s) \in Nat /\ s \in [1..Len(s) -> Nat]
      BY <3>1, LenProperties
    <3>9. new \in [1..Len(s) -> Nat]
      BY <3>2
    <3>3. new \in Seq(Nat)
      BY <3>2, <3>9
    <3>4. seen' = [seen EXCEPT ![cur] = new]
      BY DEF ExpectCount
    <3> HIDE DEF new, s
    <3> QED
      BY <3>1, <3>3, <3>4 DEF IInv, TypeOK
  <2>3. /\ UNCHANGED <<pc, call, cursor, depth, hooks, lock, cur, ctx>>
        /\ UNCHANGED <<result, disposed, proc, logs, cause, moved>>
    BY DEF At, Goto, threadVars, hookVars, caseVars, history, IInv,
       ExpectCount
  <2> QED
    BY <2>1, <2>2, <2>3 DEF IInv, TypeOK
<1> USE ThreadAssumption DEF At, Goto, threadVars, hookVars, caseVars,
    history, IInv, ExpectCount, TypeOK, MainUser, InLog, InGLib, Locked,
    Threads
<1>2. LockExact'
  BY DEF LockExact
<1>3. DepthBalanced'
  BY DEF DepthBalanced
<1>4. PlacesOK'
  BY DEF PlacesOK
<1>5. HooksOK'
  BY DEF PlacesOK, HooksOK, Pushed, Home, CaseOK
<1>6. CaseOK' /\ ContextOK'
  BY DEF PlacesOK, Pushed, CaseOK, ContextOK, Home
<1>7. FoundOK'
  BY DEF FoundOK, CaseOK, PlacesOK
<1> QED
  BY <1>1, <1>2, <1>3, <1>4, <1>5, <1>6, <1>7 DEF IInv

(* A failed assertion ends the process or goes on to leave the body. *)
LEMMA AssertFailStep ==
  ASSUME IInv, AssertFail
  PROVE  IInv'
<1>1. CASE ~ContextChecked \/ FatalAsserts \/ ~KeepGoing
  BY <1>1, EndProcessStep, InputAssumption DEF AssertFail, Outcomes
<1>2. CASE ContextChecked /\ ~FatalAsserts /\ KeepGoing
  <2>0. /\ pc[Main] = "body"
        /\ pc' = [pc EXCEPT ![Main] = "asserting"]
        /\ UNCHANGED <<call, cursor, depth, hooks, lock, cur, ctx, expected>>
        /\ UNCHANGED <<result, disposed, proc, logs, cause, seen, moved>>
    BY <1>2, InputAssumption DEF threadVars, hookVars, caseVars, history,
       Goto, At, AssertFail
  <2>1. TypeOK'
    <3>1. pc' \in [Threads -> MainUser \cup InLog \cup {"user"}]
      BY <2>0 DEF IInv, TypeOK, MainUser, InLog, InGLib, Locked
    <3> QED
      BY <2>0, <3>1 DEF IInv, TypeOK
  <2> USE <2>0, ThreadAssumption DEF IInv, TypeOK, MainUser, InLog, InGLib,
      Locked, Threads
  <2>2. LockExact'
    BY DEF LockExact
  <2>3. DepthBalanced'
    BY DEF DepthBalanced
  <2>4. PlacesOK'
    BY DEF PlacesOK
  <2>5. HooksOK'
    BY DEF PlacesOK, HooksOK, Pushed, Home, CaseOK
  <2>6. CaseOK' /\ ContextOK'
    BY DEF PlacesOK, Pushed, CaseOK, ContextOK, Home
  <2>7. FoundOK'
    BY DEF FoundOK, CaseOK, PlacesOK
  <2> QED
    BY <2>1, <2>2, <2>3, <2>4, <2>5, <2>6, <2>7 DEF IInv
<1> QED
  BY <1>1, <1>2

(* A skip goes on to leave the body. *)
LEMMA SkipReachedStep ==
  ASSUME IInv, SkipReached
  PROVE  IInv'
<1>1. CASE ~ContextChecked
  BY <1>1, EndProcessStep DEF SkipReached, Outcomes
<1>2. CASE ContextChecked
  <2>0. /\ pc[Main] = "body"
        /\ pc' = [pc EXCEPT ![Main] = "skipping"]
        /\ UNCHANGED <<call, cursor, depth, hooks, lock, cur, ctx, expected>>
        /\ UNCHANGED <<result, disposed, proc, logs, cause, seen, moved>>
    BY <1>2 DEF threadVars, hookVars, caseVars, history, Goto, At, SkipReached
  <2>1. TypeOK'
    <3>1. pc' \in [Threads -> MainUser \cup InLog \cup {"user"}]
      BY <2>0 DEF IInv, TypeOK, MainUser, InLog, InGLib, Locked
    <3> QED
      BY <2>0, <3>1 DEF IInv, TypeOK
  <2> USE <2>0, ThreadAssumption DEF IInv, TypeOK, MainUser, InLog, InGLib,
      Locked, Threads
  <2>2. LockExact'
    BY DEF LockExact
  <2>3. DepthBalanced'
    BY DEF DepthBalanced
  <2>4. PlacesOK'
    BY DEF PlacesOK
  <2>5. HooksOK'
    BY DEF PlacesOK, HooksOK, Pushed, Home, CaseOK
  <2>6. CaseOK' /\ ContextOK'
    BY DEF PlacesOK, Pushed, CaseOK, ContextOK, Home
  <2>7. FoundOK'
    BY DEF FoundOK, CaseOK, PlacesOK
  <2> QED
    BY <2>1, <2>2, <2>3, <2>4, <2>5, <2>6, <2>7 DEF IInv
<1> QED
  BY <1>1, <1>2

(* A failed assertion leaves for exec_inner(). *)
LEMMA AssertLeaveStep ==
  ASSUME IInv, AssertLeave
  PROVE  IInv'
<1> USE ThreadAssumption DEF At, Goto, threadVars, hookVars, caseVars,
    history, IInv, Leave, AssertLeave, TypeOK, MainUser, InLog, InGLib,
    Locked, Threads
<1>1. TypeOK'
  BY InputAssumption DEF Call, DepthBalanced
<1>2. LockExact'
  BY DEF LockExact
<1>3. DepthBalanced'
  BY DEF DepthBalanced
<1>4. PlacesOK'
  BY DEF PlacesOK
<1>5. HooksOK'
  BY DEF PlacesOK, HooksOK, Pushed, Home, CaseOK
<1>6. CaseOK' /\ ContextOK'
  BY DEF PlacesOK, Pushed, CaseOK, ContextOK, Home
<1>7. FoundOK'
  BY DEF FoundOK, CaseOK, PlacesOK
<1> QED
  BY <1>1, <1>2, <1>3, <1>4, <1>5, <1>6, <1>7 DEF IInv

(* A skip leaves for exec_inner(). *)
LEMMA SkipLeaveStep ==
  ASSUME IInv, SkipLeave
  PROVE  IInv'
<1> USE ThreadAssumption DEF At, Goto, threadVars, hookVars, caseVars,
    history, IInv, Leave, SkipLeave, TypeOK, MainUser, InLog, InGLib, Locked,
    Threads
<1>1. TypeOK'
  BY InputAssumption DEF Call, DepthBalanced
<1>2. LockExact'
  BY DEF LockExact
<1>3. DepthBalanced'
  BY DEF DepthBalanced
<1>4. PlacesOK'
  BY DEF PlacesOK
<1>5. HooksOK'
  BY DEF PlacesOK, HooksOK, Pushed, Home, CaseOK
<1>6. CaseOK' /\ ContextOK'
  BY DEF PlacesOK, Pushed, CaseOK, ContextOK, Home
<1>7. FoundOK'
  BY DEF FoundOK, CaseOK, PlacesOK
<1> QED
  BY <1>1, <1>2, <1>3, <1>4, <1>5, <1>6, <1>7 DEF IInv

(* A worker enters g_log() from outside of it. *)
LEMMA WorkerLogStep ==
  ASSUME IInv, NEW t \in Workers, NEW m \in WorkerMessages, WorkerLog(t, m)
  PROVE  IInv'
<1>0. /\ proc = "running" /\ t \in Threads /\ m \in Message
      /\ pc[t] \notin InGLib /\ EnterLog(t, m, "user")
  BY AnnouncementType, InputAssumption DEF WorkerLog, At, InGLib, Locked,
     Threads
<1>1. /\ call' = [call EXCEPT ![t] = NewCall(m, "user")]
      /\ depth' = [depth EXCEPT ![t] = IF m.via = "log" THEN 1 ELSE 0]
      /\ pc' = [pc EXCEPT ![t] = "lock"]
      /\ cursor' = cursor /\ proc' = proc
  BY <1>0, EnterLogStep
<1>2. TypeOK'
  <2>1. /\ pc' \in [Threads -> MainUser \cup InLog \cup {"user"}]
        /\ call' \in [Threads -> Call]
        /\ depth' \in [Threads -> Nat]
    BY <1>0, EnterLogTypes DEF IInv
  <2>2. logs' \in 0..MaxLogs
    BY InputAssumption DEF WorkerLog, IInv, TypeOK
  <2>3. UNCHANGED <<hooks, lock, cur, ctx, expected, result, disposed, cause, seen, moved>>
    BY DEF WorkerLog, hookVars, caseVars, history
  <2> QED
    BY <1>1, <2>1, <2>2, <2>3 DEF IInv, TypeOK
<1> USE ThreadAssumption, <1>0, <1>1 DEF At, hookVars, caseVars, history,
    NewCall, IInv, WorkerLog, TypeOK, MainUser, InLog, InGLib, Locked, Threads
<1>3. LockExact'
  BY DEF LockExact
<1>4. DepthBalanced'
  BY DEF DepthBalanced
<1>5. PlacesOK'
  BY DEF PlacesOK
<1>6. HooksOK'
  BY DEF PlacesOK, HooksOK, Pushed, Home, CaseOK
<1>7. CaseOK' /\ ContextOK'
  BY DEF PlacesOK, Pushed, CaseOK, ContextOK, Home
<1>8. FoundOK'
  BY DEF FoundOK, CaseOK, PlacesOK
<1> QED
  BY <1>2, <1>3, <1>4, <1>5, <1>6, <1>7, <1>8 DEF IInv

-----------------------------------------------------------------------------

(* The invariant holds at the start. *)
LEMMA InitInv == Init => IInv
<1> SUFFICES ASSUME Init PROVE IInv
  OBVIOUS
<1>1. NewCall(Announcement, "idle") \in Call
  BY AnnouncementType, NewCallType
<1>2. /\ \A S : << >> \in Seq(S)
      /\ <<NoCase>> \in Seq(Cases \cup {NoCase})
      /\ Len(<<NoCase>>) = 1 /\ <<NoCase>>[1] = NoCase
  BY EmptySeq
<1>3. TypeOK
  BY <1>1, <1>2, InputAssumption DEF Init, TypeOK, MainUser, NoContext
<1>4. LockExact /\ DepthBalanced /\ PlacesOK /\ FoundOK
  BY ThreadAssumption DEF Init, LockExact, DepthBalanced, PlacesOK, FoundOK, InLog,
     InGLib, Locked, Threads
<1>5. HooksOK /\ CaseOK /\ ContextOK
  BY <1>2, ThreadAssumption DEF Init, HooksOK, CaseOK, ContextOK, Pushed,
     Home, InLog, InGLib, Locked, NoContext, Threads
<1> QED
  BY <1>3, <1>4, <1>5 DEF IInv

(* Every step keeps the invariant. *)
LEMMA NextInv ==
  ASSUME IInv, [Next]_vars
  PROVE  IInv'
<1>1. CASE RunStep
  BY <1>1, BeginStep, PushStep, ExecStep, ReadVerdictStep, FreeContextStep,
     PopStep, DisposeStep DEF RunStep
<1>2. CASE BodyStep
  BY <1>2, BodyReturnStep, BodyLogStep, ExpectStep, FillExpectationStep,
     ExpectCountStep, AssertFailStep, SkipReachedStep, AssertLeaveStep,
     SkipLeaveStep DEF BodyStep
<1>3. ASSUME NEW t \in Threads, LogStep(t) PROVE IInv'
  BY <1>3, LockHooksStep, VerbosityStep, VerbosityAssertStep, LogHookCrashStep,
     LogHookFindStep, LogHookCountStep, LogHookMiscountStep,
     LogHookClobberStep, LogHookPassStep, LogHookFailStep, MarkMessageStep,
     MarkFailedStep, EndScanStep, HandledStep, EmitStep, UnwindStep,
     PreemptStep DEF LogStep
<1>4. ASSUME NEW t \in Workers, NEW m \in WorkerMessages, WorkerLog(t, m) PROVE IInv'
  BY <1>4, WorkerLogStep
<1>5. CASE UNCHANGED vars
  BY <1>5 DEF vars, threadVars, hookVars, caseVars, history, IInv, TypeOK,
     LockExact, DepthBalanced, PlacesOK, HooksOK, CaseOK, ContextOK, FoundOK,
     Home, Pushed
<1>6. CASE DestroyStep
  BY <1>6, DestroyLogStep, DestroyAssertStep DEF DestroyStep
<1> QED
  BY <1>1, <1>2, <1>3, <1>4, <1>5, <1>6 DEF Next, Stop

(* Every reachable state, of any number of threads and cases, satisfies *)
(* the invariant. *)
THEOREM Invariance == Spec => []IInv
<1> QED
  BY InitInv, NextInv, PTL DEF Spec

(* Every variable keeps to its type. *)
THEOREM TypeCorrect == Spec => []TypeOK
<1>1. IInv => TypeOK
  BY DEF IInv
<1> QED
  BY <1>1, Invariance, PTL

(* The hooks mutex is held by exactly the threads inside the scan, whichever *)
(* of the four log actions takes them out of it.                            *)
THEOREM LockDiscipline == Spec => []LockExact
<1>1. IInv => LockExact
  BY DEF IInv
<1> QED
  BY <1>1, Invariance, PTL

(* GLib's recursion count of a thread is back at zero whenever the thread   *)
(* is out of g_log(), the stack-mangling exit included.                     *)
THEOREM RecursionCountRestored == Spec => []DepthBalanced
<1>1. IInv => DepthBalanced
  BY DEF IInv
<1> QED
  BY <1>1, Invariance, PTL

(* No thread that walks the hook stack stands at the hook of a case whose   *)
(* expectations have been freed.                                            *)
THEOREM NoDisposedHook == Spec => []HookTargetAlive
<1>1. IInv => HookTargetAlive
  <2> SUFFICES ASSUME IInv, NEW t \in Threads, cursor[t] \in 1..Len(hooks),
                      hooks[cursor[t]] # NoCase
               PROVE  ~disposed[hooks[cursor[t]]]
    BY DEF HookTargetAlive
  <2>1. Pushed /\ hooks[cursor[t]] = cur
    BY DEF IInv, HooksOK
  <2>2. cur \in Cases
    BY <2>1 DEF IInv, CaseOK, TypeOK, Pushed, Home, InLog, InGLib, Locked
  <2> QED
    BY <2>1, <2>2 DEF IInv, CaseOK
<1> QED
  BY <1>1, Invariance, PTL

(* The hook stack does not change under a thread that walks it. *)
THEOREM StackStableUnderScan == Spec => ScanStable
<1>1. ASSUME IInv, [Next]_vars, NEW t \in Threads, pc[t] \in Locked
      PROVE  hooks' = hooks
  <2>1. lock # Free
    BY <1>1, ThreadAssumption DEF IInv, LockExact
  <2>2. CASE RunStep
    BY <2>1, <2>2 DEF RunStep, Begin, Push, Exec, ReadVerdict, FreeContext,
       Pop, Dispose, EndProcess, hookVars
  <2>3. CASE BodyStep
    BY <2>3 DEF BodyStep, BodyReturn, BodyLog, Expect, FillExpectation,
       ExpectCount, AssertFail, SkipReached, AssertLeave, SkipLeave, Leave,
       EndProcess, hookVars
  <2>4. ASSUME NEW s \in Threads, LogStep(s) PROVE hooks' = hooks
    BY <2>4 DEF LogStep, LockHooks, Verbosity, VerbosityAssert,
       LogHookCrash, LogHookFind, LogHookCount, LogHookMiscount,
       LogHookClobber, LogHookPass, LogHookFail, MarkMessage, MarkFailed,
       EndScan, Handled, Emit, Unwind, Preempt, ReturnFromLog, EndProcess,
       hookVars
  <2>5. ASSUME NEW s \in Workers, NEW m \in WorkerMessages, WorkerLog(s, m)
        PROVE  hooks' = hooks
    BY <2>5 DEF WorkerLog, hookVars
  <2>6. CASE UNCHANGED vars
    BY <2>6 DEF vars, hookVars
  <2>7. CASE DestroyStep
    BY <2>7 DEF DestroyStep, DestroyLog, DestroyAssert, EndProcess, hookVars
  <2> QED
    BY <1>1, <2>2, <2>3, <2>4, <2>5, <2>6, <2>7 DEF Next, Stop
<1>2. IInv /\ [Next]_vars => [(\E t \in Threads : pc[t] \in Locked) => hooks' = hooks]_vars
  BY <1>1
<1> QED
  BY <1>2, Invariance, PTL DEF Spec, ScanStable

(* The verdict of a case, once given, is never changed. *)
THEOREM VerdictIsFinal == Spec => VerdictFinal
<1>1. ASSUME IInv, [Next]_vars, NEW c \in Cases, result[c] # "INVALID"
      PROVE  result'[c] = result[c]
  <2>1. CASE ReadVerdict
    <3>1. cur \in Cases /\ Home = "unwound"
      <4>1. pc[Main] = "unwound"
        BY <2>1 DEF ReadVerdict, At
      <4>2. Home = "unwound"
        BY <4>1 DEF Home, InLog, InGLib, Locked
      <4>3. cur \in Cases \cup {NoCase}
        BY <1>1 DEF IInv, TypeOK
      <4>4. cur # NoCase
        BY <1>1, <4>1 DEF IInv, CaseOK
      <4> QED
        BY <4>2, <4>3, <4>4
    <3>2. cur # c
      BY <1>1, <3>1 DEF IInv, CaseOK
    <3> QED
      BY <2>1, <3>2 DEF ReadVerdict, IInv, TypeOK
  <2>2. CASE RunStep /\ ~ReadVerdict
    BY <2>2 DEF RunStep, Begin, Push, Exec, FreeContext, Pop, Dispose,
       EndProcess, caseVars
  <2>3. CASE BodyStep
    BY <2>3 DEF BodyStep, BodyReturn, BodyLog, Expect, FillExpectation,
       ExpectCount, AssertFail, SkipReached, AssertLeave, SkipLeave, Leave,
       EndProcess, caseVars
  <2>4. ASSUME NEW s \in Threads, LogStep(s) PROVE result' = result
    BY <2>4 DEF LogStep, LockHooks, Verbosity, VerbosityAssert,
       LogHookCrash, LogHookFind, LogHookCount, LogHookMiscount,
       LogHookClobber, LogHookPass, LogHookFail, MarkMessage, MarkFailed,
       EndScan, Handled, Emit, Unwind, Preempt, ReturnFromLog, EndProcess,
       caseVars
  <2>5. ASSUME NEW s \in Workers, NEW m \in WorkerMessages, WorkerLog(s, m)
        PROVE  result' = result
    BY <2>5 DEF WorkerLog, caseVars
  <2>6. CASE UNCHANGED vars
    BY <2>6 DEF vars, caseVars
  <2>7. CASE DestroyStep
    BY <2>7 DEF DestroyStep, DestroyLog, DestroyAssert, EndProcess, caseVars
  <2> QED
    BY <1>1, <2>1, <2>2, <2>3, <2>4, <2>5, <2>6, <2>7 DEF Next, Stop
<1>2. IInv /\ [Next]_vars =>
        [\A c \in Cases : result[c] # "INVALID" => result'[c] = result[c]]_vars
  BY <1>1
<1> QED
  BY <1>2, Invariance, PTL DEF Spec, VerdictFinal

-----------------------------------------------------------------------------
(* CaseRun implements CaseLife.                                             *)

(* The steps CaseLife does not see: they leave the cases alone, and at most *)
(* end the process.                                                         *)
Unseen ==
  /\ UNCHANGED <<cur, result, disposed>>
  /\ proc' = proc \/ (proc = "running" /\ proc' # "running")

(* Such a step is a stutter of CaseLife, or the end. *)
LEMMA UnseenStep ==
  ASSUME Unseen
  PROVE  [Life!Next]_(Life!vars)
<1>1. CASE proc' = proc
  BY <1>1 DEF Unseen, Life!vars
<1>2. CASE proc = "running" /\ proc' # "running"
  <2>1. Life!End
    BY <1>2 DEF Unseen, Life!End
  <2> QED
    BY <2>1 DEF Life!Next
<1> QED
  BY <1>1, <1>2 DEF Unseen

(* Every step of a message, of any thread, is such a step. *)
LEMMA LogStepUnseen ==
  ASSUME NEW t \in Threads, LogStep(t)
  PROVE  Unseen
<1>1. CASE LockHooks(t)
  BY <1>1 DEF Unseen, LockHooks, caseVars
<1>2. CASE Verbosity(t)
  BY <1>2 DEF Unseen, Verbosity, caseVars
<1>3. CASE VerbosityAssert(t) \/ LogHookCrash(t) \/ LogHookClobber(t)
  BY <1>3 DEF Unseen, VerbosityAssert, AtVerbosity, LogHookCrash,
     LogHookClobber, AtLogHook, EndProcess, caseVars, At
<1>4. ASSUME NEW i \in 1..MaxExpect, LogHookFind(t, i) PROVE Unseen
  BY <1>4 DEF Unseen, LogHookFind, caseVars
<1>11. CASE LogHookCount(t) \/ LogHookMiscount(t)
  BY <1>11 DEF Unseen, LogHookCount, LogHookMiscount, caseVars
<1>5. CASE LogHookPass(t)
  BY <1>5 DEF Unseen, LogHookPass, caseVars
<1>6. CASE LogHookFail(t)
  BY <1>6 DEF Unseen, LogHookFail, AtLogHook, EndProcess, caseVars, At
<1>7. CASE MarkMessage(t) \/ MarkFailed(t)
  BY <1>7 DEF Unseen, MarkMessage, MarkFailed, EndProcess, caseVars, At
<1>8. CASE EndScan(t)
  BY <1>8 DEF Unseen, EndScan, caseVars
<1>9. CASE Handled(t) \/ Emit(t)
  BY <1>9 DEF Unseen, Handled, Emit, ReturnFromLog, EndProcess, caseVars, At
<1>10. CASE Unwind(t) \/ Preempt(t)
  BY <1>10 DEF Unseen, Unwind, Preempt, EndProcess, caseVars, At
<1> QED
  BY <1>1, <1>2, <1>3, <1>4, <1>5, <1>6, <1>7, <1>8, <1>9, <1>10,
     <1>11 DEF LogStep

(* And so is whatever a body does, short of the end of its case. *)
LEMMA BodyStepUnseen ==
  ASSUME BodyStep
  PROVE  Unseen
<1>1. CASE BodyReturn \/ FillExpectation \/ AssertLeave \/ SkipLeave
  BY <1>1 DEF Unseen, BodyReturn, FillExpectation, AssertLeave, SkipLeave,
     Leave, caseVars
<1>2. ASSUME NEW m \in BodyMessages, BodyLog(m) PROVE Unseen
  BY <1>2 DEF Unseen, BodyLog, EnterLog, caseVars, At
<1>3. ASSUME NEW p \in Patterns, Expect(p) PROVE Unseen
  BY <1>3 DEF Unseen, Expect
<1>4. ASSUME NEW h \in 1..MaxExpect, ExpectCount(h) PROVE Unseen
  BY <1>4 DEF Unseen, ExpectCount
<1>5. CASE AssertFail
  BY <1>5 DEF Unseen, AssertFail, EndProcess, caseVars, At
<1>6. CASE SkipReached
  BY <1>6 DEF Unseen, SkipReached, EndProcess, caseVars, At
<1> QED
  BY <1>1, <1>2, <1>3, <1>4, <1>5, <1>6 DEF BodyStep

(* The steps of _gtu_test_case_run() are those of CaseLife, or unseen. *)
LEMMA RunStepLife ==
  ASSUME IInv, RunStep
  PROVE  [Life!Next]_(Life!vars)
<1>1. ASSUME NEW c \in Cases, Begin(c)
      PROVE  Life!Next
  <2>1. cur = NoCase
    BY <1>1 DEF Begin, At, IInv, CaseOK
  <2>2. Life!Begin(c)
    BY <1>1, <2>1 DEF Begin, At, Life!Begin, caseVars
  <2> QED
    BY <2>2 DEF Life!Next
<1>2. CASE ReadVerdict
  <2>1. pc[Main] = "unwound" /\ proc = "running" /\ Home = "unwound"
    BY <1>2 DEF ReadVerdict, At, Home, InLog, InGLib, Locked
  <2>2. cur \in Cases
    BY <2>1 DEF IInv, TypeOK, CaseOK
  <2>3. result[cur] = "INVALID"
    BY <2>1, <2>2 DEF IInv, CaseOK
  <2>4. ctx.result \in {"PASS", "SKIP", "FAIL"}
    BY <2>1 DEF IInv, ContextOK, TypeOK
  <2>5. /\ result' = [result EXCEPT ![cur] = ctx.result]
        /\ UNCHANGED <<cur, disposed, proc>>
    BY <1>2 DEF ReadVerdict
  <2>6. PICK c \in Cases : c = cur
    BY <2>2
  <2>7. Life!Decide(c)
    BY <2>1, <2>3, <2>4, <2>5, <2>6 DEF Life!Decide
  <2> QED
    BY <2>7 DEF Life!Next
<1>3. CASE Dispose
  <2>1. pc[Main] = "dispose" /\ proc = "running" /\ Home = "dispose"
    BY <1>3 DEF Dispose, At, Home, InLog, InGLib, Locked
  <2>2. cur \in Cases
    BY <2>1 DEF IInv, TypeOK, CaseOK
  <2>3. result[cur] # "INVALID"
    BY <2>1 DEF IInv, CaseOK
  <2>4. /\ disposed' = [disposed EXCEPT ![cur] = TRUE]
        /\ cur' = NoCase
        /\ UNCHANGED <<result, proc>>
    BY <1>3 DEF Dispose
  <2>5. {c \in Cases : disposed'[c]} = {c \in Cases : disposed[c]} \cup {cur}
    BY <2>2, <2>4 DEF IInv, TypeOK
  <2>6. PICK c \in Cases : c = cur
    BY <2>2
  <2>7. Life!Finish(c)
    BY <2>1, <2>3, <2>4, <2>5, <2>6 DEF Life!Finish
  <2> QED
    BY <2>7 DEF Life!Next
<1>4. CASE Push \/ Exec \/ FreeContext \/ Pop
  <2>1. Unseen
    BY <1>4 DEF Unseen, Push, Exec, FreeContext, Pop, EnterLog, EndProcess,
       caseVars, At
  <2> QED
    BY <2>1, UnseenStep
<1> QED
  BY <1>1, <1>2, <1>3, <1>4 DEF RunStep

(* For the run loop, CaseRun is CaseLife: one case at a time, one verdict   *)
(* each, disposed of after it.                                              *)
THEOREM Implementation == Spec => ImplementsLife
<1>1. Init => Life!Init
  BY DEF Init, Life!Init
<1>2. IInv /\ [Next]_vars => [Life!Next]_(Life!vars)
  <2> SUFFICES ASSUME IInv, [Next]_vars
               PROVE  [Life!Next]_(Life!vars)
    OBVIOUS
  <2>1. CASE RunStep
    BY <2>1, RunStepLife
  <2>2. CASE BodyStep
    BY <2>2, BodyStepUnseen, UnseenStep
  <2>3. ASSUME NEW t \in Threads, LogStep(t)
        PROVE  [Life!Next]_(Life!vars)
    BY <2>3, LogStepUnseen, UnseenStep
  <2>4. ASSUME NEW t \in Workers, NEW m \in WorkerMessages, WorkerLog(t, m)
        PROVE  [Life!Next]_(Life!vars)
    <3>1. Unseen
      BY <2>4 DEF Unseen, WorkerLog, EnterLog, caseVars, At
    <3> QED
      BY <3>1, UnseenStep
  <2>5. CASE UNCHANGED vars
    BY <2>5, UnseenStep DEF vars, caseVars, Unseen
  <2>6. CASE DestroyStep
    <3>1. Unseen
      BY <2>6 DEF Unseen, DestroyStep, DestroyLog, DestroyAssert, EnterLog,
         EndProcess, caseVars, At
    <3> QED
      BY <3>1, UnseenStep
  <2> QED
    BY <2>1, <2>2, <2>3, <2>4, <2>5, <2>6 DEF Next, Stop
<1> QED
  BY <1>1, <1>2, Invariance, PTL DEF Spec, ImplementsLife, Life!Spec

-----------------------------------------------------------------------------
(* Honest verdicts.                                                         *)

(* A message of the body's own has failed the test, and the main thread is  *)
(* on its way out of g_logv(); and before that, the message is stored and   *)
(* the result not yet.                                                      *)
Thrown == pc[Main] \in {"unwind", "preempt"}
Warned == Thrown \/ pc[Main] = "fail"

(* While the body runs nothing has ended it, except for the message that    *)
(* has just failed it; a worker may have failed it too.                     *)
BodyHonest ==
  Home \in {"body", "fill", "asserting", "skipping"} =>
    /\ cause[cur] \ {"worker"} = IF Warned THEN {"warned"} ELSE {}
    /\ \/ ctx.result = "PASS" /\ ~Thrown
       \/ ctx.result = "FAIL" /\ cause[cur] \cap {"warned", "worker"} # {}

(* From there to the end of exec_inner() the context holds the verdict.     *)
ContextHonest == Home \in {"unwound", "reap"} => Fits(ctx.result, cur)

(* Before its body starts nothing has been said of a case.                  *)
Unspoken ==
  \A c \in Cases :
    result[c] = "INVALID" /\ (c # cur \/ Home \in {"push", "exec"})
      => cause[c] = {}

(* A thread about to store a verdict has fetched a context to charge, and   *)
(* between its two stores has left its mark.                                *)
Why(t) == IF t = Main THEN "warned" ELSE "worker"
ChargeOK ==
  \A t \in Threads :
    /\ pc[t] \in {"mark", "fail"} => call[t].charged \in Cases
    /\ pc[t] = "fail" => Why(t) \in cause[call[t].charged]

HonestOK == VerdictHonest /\ BodyHonest /\ ContextHonest /\ Unspoken /\ ChargeOK

InBody == {"body", "fill", "asserting", "skipping"}

(* A step that leaves the verdicts and the main thread's place alone, or    *)
(* moves it within the body, keeps verdicts honest.                         *)
LEMMA Frame ==
  ASSUME HonestOK, UNCHANGED <<cur, ctx, result, cause>>,
         Home' = Home \/ (Home \in InBody /\ Home' \in InBody),
         Thrown' <=> Thrown, Warned' <=> Warned, ChargeOK'
  PROVE  HonestOK'
<1>1. VerdictHonest'
  BY DEF HonestOK, VerdictHonest, Fits
<1>2. BodyHonest'
  BY DEF HonestOK, BodyHonest, InBody
<1>3. ContextHonest'
  BY DEF HonestOK, ContextHonest, Fits, InBody
<1>4. Unspoken'
  BY DEF HonestOK, Unspoken, InBody
<1> QED
  BY <1>1, <1>2, <1>3, <1>4 DEF HonestOK

(* The end of the process does. *)
LEMMA EndProcessHonest ==
  ASSUME HonestOK, NEW how, EndProcess(how)
  PROVE  HonestOK'
BY Frame DEF EndProcess, threadVars, caseVars, history, Home, Thrown, Warned,
   ChargeOK, HonestOK

(* Inside g_log() and on return from it the main thread's place is the same. *)
LEMMA SamePlace ==
  ASSUME IInv, HonestOK, UNCHANGED <<cur, ctx, result, cause>>,
         NEW t \in Threads, pc[t] \in InLog,
         pc' = [pc EXCEPT ![t] = IF pc'[t] \in InLog THEN pc'[t] ELSE call[t].back],
         \A s \in Threads : /\ call'[s].back = call[s].back
                            /\ call'[s].charged = call[s].charged,
         pc[t] = "unwind" <=> pc'[t] = "preempt",
         pc[t] \notin {"preempt", "fail"},
         pc'[t] \notin {"unwind", "mark", "fail"}
  PROVE  HonestOK'
<1>1. Main \in Threads /\ pc \in [Threads -> MainUser \cup InLog \cup {"user"}]
  BY DEF IInv, TypeOK, Threads
<1>2. CASE t = Main
  <2>1. call[Main].back \in {"exec", "body", "pop", "dispose"}
    BY <1>2 DEF IInv, PlacesOK
  <2>2. Home' = Home
    BY <1>1, <1>2, <2>1 DEF Home, InLog, InGLib, Locked
  <2>3. (Thrown' <=> Thrown) /\ (Warned' <=> Warned)
    BY <1>1, <1>2, <2>1 DEF Thrown, Warned
  <2>4. ChargeOK'
    BY <1>1, <1>2 DEF HonestOK, ChargeOK
  <2> QED
    BY <2>2, <2>3, <2>4, Frame
<1>3. CASE t # Main
  <2>1. Home' = Home /\ (Thrown' <=> Thrown) /\ (Warned' <=> Warned)
    BY <1>1, <1>3 DEF Home, Thrown, Warned
  <2>2. ChargeOK'
    BY <1>1 DEF HonestOK, ChargeOK
  <2> QED
    BY <2>1, <2>2, Frame
<1> QED
  BY <1>2, <1>3

(* The steps of a scan that charge nobody. *)
LEMMA ScanHonest ==
  ASSUME IInv, HonestOK, NEW t \in Threads,
         \/ LockHooks(t) \/ Verbosity(t) \/ LogHookPass(t) \/ EndScan(t)
         \/ LogHookCount(t) \/ LogHookMiscount(t)
  PROVE  HonestOK'
<1>0. pc \in [Threads -> MainUser \cup InLog \cup {"user"}]
      /\ call \in [Threads -> Call]
  BY DEF IInv, TypeOK
<1> DEFINE Next1 ==
      /\ UNCHANGED <<cur, ctx, result, cause>>
      /\ pc[t] \in {"lock", "hook", "count"}
      /\ pc'[t] \in {"hook", "handled", "emit"}
      /\ pc' = [pc EXCEPT ![t] = pc'[t]]
      /\ \A s \in Threads : /\ call'[s].back = call[s].back
                            /\ call'[s].charged = call[s].charged
<1> SUFFICES Next1
  BY SamePlace DEF InLog, InGLib, Locked
<1>1. CASE LockHooks(t) \/ EndScan(t)
  BY <1>0, <1>1 DEF LockHooks, EndScan, At, Goto, caseVars, history
<1>2. CASE Verbosity(t)
  <2>1. UNCHANGED <<cur, ctx, result, cause>> /\ pc[t] = "hook"
    BY <1>2 DEF Verbosity, AtVerbosity, At, caseVars, history
  <2>2. pc' = [pc EXCEPT ![t] = pc'[t]] /\ pc'[t] \in {"hook", "handled"}
    BY <1>0, <1>2, <2>1 DEF Verbosity, NextHook, StopScan, Goto
  <2>3. \A s \in Threads : /\ call'[s].back = call[s].back
                           /\ call'[s].charged = call[s].charged
    <3> DEFINE f == VerbosityFatal(call[t].msg, call[t].fatal)
    <3>1. call' = [call EXCEPT ![t] = [call[t] EXCEPT !.fatal = f]]
      BY <1>2 DEF Verbosity
    <3> HIDE DEF f
    <3> QED
      BY <1>0, <3>1 DEF Call
  <2> QED
    BY <2>1, <2>2, <2>3
<1>3. CASE LogHookPass(t)
  BY <1>0, <1>3 DEF LogHookPass, AtLogHook, NextHook, At, caseVars, history
<1>4. CASE LogHookCount(t) \/ LogHookMiscount(t)
  BY <1>0, <1>4 DEF LogHookCount, LogHookMiscount, StopScan, Goto, At, caseVars
<1> QED
  BY <1>1, <1>2, <1>3, <1>4

(* Nor does finding the expectation to count for charge anybody. *)
LEMMA LogHookFindHonest ==
  ASSUME IInv, HonestOK, NEW t \in Threads, NEW i \in 1..MaxExpect, LogHookFind(t, i)
  PROVE  HonestOK'
<1>1. PICK still \in {FALSE, call[t].stale} :
        call' = [call EXCEPT ![t] = [call[t] EXCEPT !.element = i, !.stale = still]]
  BY DEF LogHookFind
<1>3. \A s \in Threads : /\ call'[s].back = call[s].back
                         /\ call'[s].charged = call[s].charged
  BY SMTT(60), <1>1 DEF IInv, TypeOK, Call
<1>4. /\ UNCHANGED <<cur, ctx, result, cause>>
      /\ pc[t] = "hook" /\ pc' = [pc EXCEPT ![t] = "count"]
  BY DEF LogHookFind, AtLogHook, Goto, At, caseVars, history
<1>5. pc'[t] = "count"
  BY <1>4 DEF IInv, TypeOK
<1> QED
  BY <1>3, <1>4, <1>5, SamePlace DEF InLog, InGLib, Locked

(* A message about to fail the test has a context to charge. *)
LEMMA LogHookFailHonest ==
  ASSUME IInv, HonestOK, NEW t \in Threads, LogHookFail(t)
  PROVE  HonestOK'
<1>1. CASE ctx.owner = NoCase \/ ctx.message
  BY <1>1, EndProcessHonest DEF LogHookFail
<1>2. CASE ~(ctx.owner = NoCase \/ ctx.message)
  <2> DEFINE o == ctx.owner
  <2>0. /\ pc \in [Threads -> MainUser \cup InLog \cup {"user"}]
        /\ call \in [Threads -> Call] /\ Main \in Threads /\ o \in Cases
    BY <1>2 DEF IInv, TypeOK, Threads
  <2>1. /\ pc[t] = "hook" /\ pc' = [pc EXCEPT ![t] = "mark"]
        /\ call' = [call EXCEPT ![t] = [call[t] EXCEPT !.charged = o]]
        /\ UNCHANGED <<cur, ctx, result, cause>>
    BY <1>2 DEF LogHookFail, AtLogHook, At, Goto, caseVars, history
  <2> HIDE DEF o
  <2>2. \A s \in Threads : /\ call'[s].back = call[s].back
                           /\ s # t => call'[s].charged = call[s].charged
    BY <2>0, <2>1 DEF Call
  <2>3. call'[t].charged = o
    BY <2>0, <2>1 DEF Call
  <2>4. Home' = Home /\ (Thrown' <=> Thrown) /\ (Warned' <=> Warned)
    BY <2>0, <2>1, <2>2 DEF Home, Thrown, Warned, InLog, InGLib, Locked
  <2>5. ChargeOK'
    BY <2>0, <2>1, <2>2, <2>3 DEF HonestOK, ChargeOK
  <2> QED
    BY <2>1, <2>4, <2>5, Frame
<1> QED
  BY <1>1, <1>2

(* What a charged thread is about to store into is the current context.     *)
LEMMA ChargedCurrent ==
  ASSUME IInv, HonestOK, NEW t \in Threads, pc[t] \in {"mark", "fail"},
         ctx.owner = call[t].charged
  PROVE  /\ cur \in Cases /\ ctx.owner = cur
         /\ Home \in InBody \cup {"unwound", "reap"}
         /\ t = Main => Home \in InBody
         /\ Home # "reap" => result[cur] = "INVALID"
<1>1. ctx.owner \in Cases /\ ctx.owner = cur
  BY ThreadAssumption DEF HonestOK, ChargeOK, IInv, ContextOK
<1>2. Home \in InBody \cup {"unwound", "reap"}
  BY <1>1, ThreadAssumption DEF IInv, ContextOK, InBody
<1>3. t = Main => Home \in InBody
  BY <1>2 DEF IInv, PlacesOK, InBody, Home, InLog, InGLib, Locked
<1>4. Home # "reap" => result[cur] = "INVALID"
  BY <1>1, <1>2 DEF IInv, CaseOK, InBody
<1> QED
  BY <1>1, <1>2, <1>3, <1>4

(* Storing the message, of the body's own or of a worker, is told as such. *)
LEMMA MarkMessageHonest ==
  ASSUME IInv, HonestOK, NEW t \in Threads, MarkMessage(t)
  PROVE  HonestOK'
<1>1. CASE ctx.owner # call[t].charged
  BY <1>1, EndProcessHonest DEF MarkMessage
<1>2. CASE ctx.owner = call[t].charged
  <2>0. /\ pc \in [Threads -> MainUser \cup InLog \cup {"user"}]
        /\ cause \in [Cases -> SUBSET {"returned", "asserted", "skipped",
                                       "warned", "worker"}]
        /\ Main \in Threads
    BY DEF IInv, TypeOK, Threads
  <2>1. /\ pc[t] = "mark" /\ pc' = [pc EXCEPT ![t] = "fail"]
        /\ ctx' = [ctx EXCEPT !.message = TRUE]
        /\ cause' = [cause EXCEPT ![ctx.owner] = @ \cup {Why(t)}]
        /\ UNCHANGED <<cur, result, call>>
    BY <1>2 DEF MarkMessage, At, Goto, caseVars, Why
  <2>2. /\ cur \in Cases /\ ctx.owner = cur
        /\ Home \in InBody \cup {"unwound", "reap"}
        /\ t = Main => Home \in InBody
        /\ Home # "reap" => result[cur] = "INVALID"
    BY <1>2, <2>1, ChargedCurrent
  <2>4. ctx'.result = ctx.result
    BY <2>1 DEF IInv, TypeOK
  <2>5. /\ cause'[cur] = cause[cur] \cup {Why(t)}
        /\ \A c \in Cases : c # cur => cause'[c] = cause[c]
    BY <2>0, <2>1, <2>2
  <2>6. Home' = Home /\ (Thrown' <=> Thrown) /\ (t = Main => Warned' /\ ~Warned)
        /\ (t # Main => (Warned' <=> Warned))
    BY <2>0, <2>1 DEF Home, Thrown, Warned, InLog, InGLib, Locked
  <2>7. VerdictHonest'
    <3>1. Home = "reap" => t # Main
      BY <2>2 DEF InBody
    <3> QED
      BY <2>1, <2>2, <2>5, <3>1 DEF HonestOK, VerdictHonest, Fits, Why
  <2>8. BodyHonest'
    BY <2>1, <2>2, <2>4, <2>5, <2>6 DEF HonestOK, BodyHonest, InBody, Why
  <2>9. ContextHonest'
    BY <2>1, <2>2, <2>4, <2>5, <2>6 DEF HonestOK, ContextHonest, InBody, Fits, Why
  <2>10. Unspoken'
    BY <2>0, <2>1, <2>2, <2>5, <2>6 DEF HonestOK, Unspoken, InBody
  <2>11. ChargeOK'
    <3>1. \A c \in Cases : cause[c] \subseteq cause'[c]
      BY <2>5
    <3>2. Why(t) \in cause'[call[t].charged] /\ call[t].charged \in Cases
      BY <1>2, <2>2, <2>5
    <3> QED
      BY <2>0, <2>1, <3>1, <3>2 DEF HonestOK, ChargeOK, Why
  <2> QED
    BY <2>7, <2>8, <2>9, <2>10, <2>11 DEF HonestOK
<1> QED
  BY <1>1, <1>2

(* The result stored then is the one that the message stands for. *)
LEMMA MarkFailedHonest ==
  ASSUME IInv, HonestOK, NEW t \in Threads, MarkFailed(t)
  PROVE  HonestOK'
<1>1. CASE ctx.owner # call[t].charged
  BY <1>1, EndProcessHonest DEF MarkFailed
<1>2. CASE ctx.owner = call[t].charged
  <2>0. pc \in [Threads -> MainUser \cup InLog \cup {"user"}] /\ Main \in Threads
    BY DEF IInv, TypeOK, Threads
  <2>1. /\ pc[t] = "fail" /\ pc' = [pc EXCEPT ![t] = "unwind"]
        /\ ctx' = [ctx EXCEPT !.result = "FAIL"]
        /\ UNCHANGED <<cur, result, call, cause>>
    BY <1>2 DEF MarkFailed, At, Goto, caseVars, history
  <2>2. /\ cur \in Cases /\ ctx.owner = cur
        /\ Home \in InBody \cup {"unwound", "reap"}
        /\ t = Main => Home \in InBody
    BY <1>2, <2>1, ChargedCurrent
  <2>3. Why(t) \in cause[cur]
    BY <1>2, <2>1, <2>2 DEF HonestOK, ChargeOK
  <2>4. ctx'.result = "FAIL"
    BY <2>1 DEF IInv, TypeOK
  <2>6. Home' = Home /\ (Warned' <=> Warned) /\ (t = Main => Thrown')
        /\ (t # Main => (Thrown' <=> Thrown))
    BY <2>0, <2>1 DEF Home, Thrown, Warned, InLog, InGLib, Locked
  <2>7. VerdictHonest' /\ Unspoken'
    BY <2>1, <2>6 DEF HonestOK, VerdictHonest, Unspoken, Fits
  <2>8. BodyHonest'
    BY <2>1, <2>3, <2>4, <2>6 DEF HonestOK, BodyHonest, InBody, Why
  <2>9. ContextHonest'
    BY <2>1, <2>2, <2>3, <2>4, <2>6 DEF ContextHonest, InBody, Fits, Why
  <2>10. ChargeOK'
    BY <2>0, <2>1 DEF HonestOK, ChargeOK, Why
  <2> QED
    BY <2>7, <2>8, <2>9, <2>10 DEF HonestOK
<1> QED
  BY <1>1, <1>2

(* A message that is dealt with returns the thread to where it was. *)
LEMMA ReturnHonest ==
  ASSUME IInv, HonestOK, NEW t \in Threads, Handled(t) \/ Emit(t)
  PROVE  HonestOK'
<1>1. pc[t] \in {"handled", "emit"}
  BY DEF Handled, Emit, At
<1>2. CASE \E how \in Outcomes : EndProcess(how)
  BY <1>2, EndProcessHonest
<1>3. CASE Goto(t, call[t].back) /\ UNCHANGED <<call, cur, ctx, caseVars, history>>
  <2>1. call[t].back \in {"exec", "body", "pop", "dispose", "user"}
    BY <1>1, ThreadAssumption DEF IInv, PlacesOK, Threads, InLog, InGLib
  <2>2. pc' = [pc EXCEPT ![t] = call[t].back] /\ pc'[t] = call[t].back
    BY <1>3 DEF Goto, IInv, TypeOK
  <2>3. UNCHANGED <<call, cur, ctx, result, cause>>
    BY <1>3 DEF caseVars, history
  <2> QED
    BY <1>1, <2>1, <2>2, <2>3, SamePlace DEF InLog, InGLib, Locked
<1> QED
  BY <1>2, <1>3 DEF Handled, Emit, ReturnFromLog, Outcomes

(* Unwinding g_logv() leaves the thread on its way out. *)
LEMMA UnwindHonest ==
  ASSUME IInv, HonestOK, NEW t \in Threads, Unwind(t)
  PROVE  HonestOK'
<1>1. CASE call[t].msg.via = "structured"
  BY <1>1, EndProcessHonest DEF Unwind
<1>2. CASE call[t].msg.via # "structured"
  <2>1. /\ pc[t] = "unwind" /\ pc' = [pc EXCEPT ![t] = "preempt"]
        /\ UNCHANGED <<call, cur, ctx, result, cause>>
    BY <1>2 DEF Unwind, At, Goto, caseVars, history
  <2>2. pc'[t] = "preempt"
    BY <2>1 DEF IInv, TypeOK
  <2> QED
    BY <2>1, <2>2, SamePlace DEF InLog, InGLib, Locked
<1> QED
  BY <1>1, <1>2

(* A body thrown out by its own message has failed. *)
LEMMA PreemptHonest ==
  ASSUME IInv, HonestOK, NEW t \in Threads, Preempt(t)
  PROVE  HonestOK'
<1>1. CASE t # Main \/ ctx.owner = NoCase
  BY <1>1, EndProcessHonest DEF Preempt
<1>2. CASE ~(t # Main \/ ctx.owner = NoCase)
  <2>1. /\ pc[Main] = "preempt" /\ pc' = [pc EXCEPT ![Main] = "unwound"]
        /\ UNCHANGED <<call, cur, ctx, result, cause>>
    BY <1>2 DEF Preempt, At, Goto, caseVars, history
  <2>2. Home \in InBody /\ Thrown /\ Warned
    BY <1>2, <2>1 DEF IInv, ContextOK, PlacesOK, InBody, Home, InLog, InGLib,
       Locked, Thrown, Warned
  <2>3. Home' = "unwound"
    BY <1>2, <2>1 DEF IInv, TypeOK, Home, InLog, InGLib, Locked
  <2>4. ContextHonest'
    BY <2>1, <2>2 DEF HonestOK, BodyHonest, ContextHonest, Fits, InBody
  <2>5. VerdictHonest' /\ Unspoken' /\ BodyHonest'
    BY <2>1, <2>2, <2>3 DEF HonestOK, VerdictHonest, Unspoken, BodyHonest,
       Fits, InBody
  <2>6. ChargeOK'
    BY <1>2, <2>1 DEF HonestOK, ChargeOK, IInv, TypeOK
  <2> QED
    BY <2>4, <2>5, <2>6 DEF HonestOK
<1> QED
  BY <1>1, <1>2

-----------------------------------------------------------------------------
(* The steps of _gtu_test_case_run().                                       *)

(* Outside of g_log() the main thread is neither thrown nor charging. *)
LEMMA MainMoves ==
  ASSUME IInv, HonestOK, pc[Main] \notin InLog, UNCHANGED call,
         NEW place \in MainUser, pc' = [pc EXCEPT ![Main] = place]
  PROVE  Home = pc[Main] /\ Home' = place /\ ~Warned /\ ~Warned'
         /\ ~Thrown /\ ~Thrown' /\ (cause' = cause => ChargeOK')
<1>1. Main \in Threads /\ pc \in [Threads -> MainUser \cup InLog \cup {"user"}]
  BY DEF IInv, TypeOK, Threads
<1> QED
  BY <1>1 DEF Home, Thrown, Warned, ChargeOK, HonestOK, MainUser, InLog, InGLib, Locked

(* What is said of a case stays said. *)
LEMMA ChargeKept ==
  ASSUME IInv, HonestOK, pc[Main] \notin InLog, UNCHANGED call,
         NEW place \in MainUser, pc' = [pc EXCEPT ![Main] = place],
         \A c \in Cases : cause[c] \subseteq cause'[c]
  PROVE  ChargeOK'
<1>1. Main \in Threads /\ pc \in [Threads -> MainUser \cup InLog \cup {"user"}]
  BY DEF IInv, TypeOK, Threads
<1> QED
  BY <1>1 DEF ChargeOK, HonestOK, MainUser, Why

(* A case that begins has not been heard of. *)
LEMMA BeginHonest ==
  ASSUME IInv, HonestOK, NEW c \in Cases, Begin(c)
  PROVE  HonestOK'
<1>1. /\ pc[Main] = "idle" /\ pc' = [pc EXCEPT ![Main] = "push"]
      /\ cur' = c /\ UNCHANGED <<call, ctx, result, cause>>
      /\ result[c] = "INVALID"
  BY DEF Begin, At, Goto, caseVars, history
<1>2. Home' = "push" /\ ChargeOK'
  BY <1>1, MainMoves DEF MainUser, InLog, InGLib, Locked
<1>3. cur = NoCase
  BY <1>1 DEF IInv, CaseOK
<1>4. Unspoken'
  BY <1>1, <1>3, ThreadAssumption DEF HonestOK, Unspoken
<1>5. VerdictHonest' /\ BodyHonest' /\ ContextHonest'
  BY <1>1, <1>2 DEF HonestOK, VerdictHonest, BodyHonest, ContextHonest, Fits
<1> QED
  BY <1>2, <1>4, <1>5 DEF HonestOK

(* The context a body starts with is a PASS, and the body has done nothing. *)
LEMMA ExecHonest ==
  ASSUME IInv, HonestOK, Exec
  PROVE  HonestOK'
<1>1. CASE ctx.owner # NoCase
  BY <1>1, EndProcessHonest DEF Exec
<1>2. CASE ctx.owner = NoCase
  <2>1. /\ pc[Main] = "exec" /\ pc' = [pc EXCEPT ![Main] = "body"]
        /\ ctx'.result = "PASS" /\ UNCHANGED <<call, cur, result, cause>>
    BY <1>2 DEF Exec, NewContext, At, Goto, caseVars, history
  <2>2. Home = "exec" /\ Home' = "body" /\ ~Thrown' /\ ~Warned' /\ ChargeOK'
    BY <2>1, MainMoves DEF MainUser, InLog, InGLib, Locked
  <2>3. cur \in Cases /\ result[cur] = "INVALID"
    BY <2>1, <2>2 DEF IInv, TypeOK, CaseOK
  <2>4. cause[cur] = {}
    BY <2>2, <2>3 DEF HonestOK, Unspoken
  <2>5. BodyHonest' /\ ContextHonest'
    BY <2>1, <2>2, <2>4 DEF BodyHonest, ContextHonest
  <2>6. VerdictHonest' /\ Unspoken'
    BY <2>1, <2>2, <2>4 DEF HonestOK, VerdictHonest, Unspoken, Fits
  <2> QED
    BY <2>2, <2>5, <2>6 DEF HonestOK
<1> QED
  BY <1>1, <1>2

(* The verdict is the context's. *)
LEMMA ReadVerdictHonest ==
  ASSUME IInv, HonestOK, ReadVerdict
  PROVE  HonestOK'
<1>1. /\ pc[Main] = "unwound" /\ pc' = [pc EXCEPT ![Main] = "reap"]
      /\ result' = [result EXCEPT ![cur] = ctx.result]
      /\ UNCHANGED <<call, cur, ctx, cause>>
  BY DEF ReadVerdict, At, Goto, history
<1>2. Home = "unwound" /\ Home' = "reap" /\ ChargeOK'
  BY <1>1, MainMoves DEF MainUser, InLog, InGLib, Locked
<1>3. cur \in Cases /\ ctx.result # "INVALID"
  BY <1>1, <1>2 DEF IInv, TypeOK, CaseOK, ContextOK
<1>4. /\ result'[cur] = ctx.result
      /\ \A c \in Cases : c # cur => result'[c] = result[c]
  BY <1>1, <1>3 DEF IInv, TypeOK
<1>5. VerdictHonest' /\ ContextHonest'
  BY <1>1, <1>2, <1>4 DEF HonestOK, VerdictHonest, ContextHonest, Fits
<1>6. Unspoken' /\ BodyHonest'
  BY <1>1, <1>2, <1>3, <1>4 DEF HonestOK, Unspoken, BodyHonest
<1> QED
  BY <1>2, <1>5, <1>6 DEF HonestOK

(* Announcing a case opens nothing yet, and closes nothing that has no      *)
(* verdict.                                                                 *)
LEMMA AnnounceHonest ==
  ASSUME IInv, HonestOK, Push \/ FreeContext
  PROVE  HonestOK'
<1> DEFINE back == IF pc[Main] = "push" THEN "exec" ELSE "pop"
<1>0. Main \in Threads /\ pc \in [Threads -> MainUser \cup InLog \cup {"user"}]
      /\ call \in [Threads -> Call]
  BY DEF IInv, TypeOK, Threads
<1>1. /\ pc[Main] \in {"push", "reap"}
      /\ EnterLog(Main, Announcement, back)
      /\ UNCHANGED <<cur, result, cause>>
      /\ pc[Main] = "push" => ctx' = ctx
  BY DEF Push, FreeContext, At, caseVars, history
<1>2. /\ call' = [call EXCEPT ![Main] =
                    NewCall(Announcement, back)]
      /\ pc' = [pc EXCEPT ![Main] = "lock"]
  BY <1>0, <1>1, AnnouncementType, EnterLogStep DEF InGLib, Locked
<1>3. /\ Home = pc[Main] /\ Home' = back /\ ChargeOK'
  BY <1>0, <1>1, <1>2 DEF NewCall, Home, HonestOK, ChargeOK, InLog, InGLib, Locked
<1>4. /\ cur \in Cases
      /\ pc[Main] = "reap" => result[cur] # "INVALID"
  BY <1>1, <1>3 DEF IInv, TypeOK, CaseOK
<1>5. VerdictHonest' /\ BodyHonest' /\ ContextHonest'
  BY <1>1, <1>3 DEF HonestOK, VerdictHonest, BodyHonest, ContextHonest, Fits
<1>6. Unspoken'
  BY <1>1, <1>3, <1>4 DEF HonestOK, Unspoken
<1> QED
  BY <1>3, <1>5, <1>6 DEF HonestOK

(* The end of a case leaves its verdict and its history. *)
LEMMA EndCaseHonest ==
  ASSUME IInv, HonestOK, Pop \/ Dispose
  PROVE  HonestOK'
<1> DEFINE place == IF pc[Main] = "pop" THEN "dispose" ELSE "idle"
<1>1. /\ pc[Main] \in {"pop", "dispose"} /\ pc' = [pc EXCEPT ![Main] = place]
      /\ UNCHANGED <<call, ctx, result, cause>>
      /\ pc[Main] = "pop" => cur' = cur
  BY DEF Pop, Dispose, At, Goto, caseVars, history
<1>2. Home = pc[Main] /\ Home' = place /\ ChargeOK'
  BY <1>1, MainMoves DEF MainUser, InLog, InGLib, Locked
<1>3. cur \in Cases /\ result[cur] # "INVALID"
  BY <1>1, <1>2 DEF IInv, TypeOK, CaseOK
<1>4. Unspoken'
  BY <1>1, <1>2, <1>3 DEF HonestOK, Unspoken
<1>5. VerdictHonest' /\ BodyHonest' /\ ContextHonest'
  BY <1>1, <1>2 DEF HonestOK, VerdictHonest, BodyHonest, ContextHonest, Fits
<1> QED
  BY <1>2, <1>4, <1>5 DEF HonestOK

-----------------------------------------------------------------------------
(* The steps of a body.                                                     *)

(* A body that comes back has not been failed by a message of its own. *)
LEMMA BodyReturnHonest ==
  ASSUME IInv, HonestOK, BodyReturn
  PROVE  HonestOK'
<1>1. /\ pc[Main] = "body" /\ pc' = [pc EXCEPT ![Main] = "unwound"]
      /\ cause' = [cause EXCEPT ![cur] = @ \cup {"returned"}]
      /\ UNCHANGED <<call, cur, ctx, result>>
  BY DEF BodyReturn, At, Goto, caseVars
<1>2. Home = "body" /\ Home' = "unwound" /\ ~Warned
  BY <1>1, MainMoves DEF MainUser, InLog, InGLib, Locked
<1>3. cur \in Cases /\ result[cur] = "INVALID"
  BY <1>1, <1>2 DEF IInv, TypeOK, CaseOK
<1>4. /\ cause'[cur] = cause[cur] \cup {"returned"}
      /\ \A c \in Cases : c # cur => cause'[c] = cause[c]
  BY <1>1, <1>3 DEF IInv, TypeOK
<1>5. ContextHonest'
  BY <1>1, <1>2, <1>4 DEF HonestOK, BodyHonest, ContextHonest, Fits
<1>6. VerdictHonest' /\ BodyHonest' /\ Unspoken'
  BY <1>1, <1>2, <1>3, <1>4 DEF HonestOK, VerdictHonest, BodyHonest, Unspoken,
     Fits
<1>7. ChargeOK'
  <2>1. \A c \in Cases : cause[c] \subseteq cause'[c]
    BY <1>3, <1>4
  <2> QED
    BY <1>1, <2>1, ChargeKept DEF MainUser, InLog, InGLib, Locked
<1> QED
  BY <1>5, <1>6, <1>7 DEF HonestOK

(* One that leaves by a failed assertion or a skip has a verdict to match. *)
LEMMA LeaveHonest ==
  ASSUME IInv, HonestOK, AssertLeave \/ SkipLeave
  PROVE  HonestOK'
<1> DEFINE verdict == IF pc[Main] = "asserting" THEN "FAIL" ELSE "SKIP"
           why == IF pc[Main] = "asserting" THEN "asserted" ELSE "skipped"
<1>1. /\ pc[Main] \in {"asserting", "skipping"}
      /\ pc' = [pc EXCEPT ![Main] = "unwound"]
      /\ ctx' = [ctx EXCEPT !.message = TRUE, !.result = verdict]
      /\ cause' = [cause EXCEPT ![cur] = @ \cup {why}]
      /\ UNCHANGED <<call, cur, result>>
  BY DEF AssertLeave, SkipLeave, Leave, At, Goto, caseVars
<1>2. Home = pc[Main] /\ Home' = "unwound" /\ ~Warned
  BY <1>1, MainMoves DEF MainUser, InLog, InGLib, Locked
<1>3. cur \in Cases /\ result[cur] = "INVALID" /\ ctx'.result = verdict
  BY <1>1, <1>2 DEF IInv, TypeOK, CaseOK
<1>4. /\ cause'[cur] = cause[cur] \cup {why}
      /\ \A c \in Cases : c # cur => cause'[c] = cause[c]
  BY <1>1, <1>3 DEF IInv, TypeOK
<1>5. ContextHonest'
  BY <1>1, <1>2, <1>3, <1>4 DEF HonestOK, BodyHonest, ContextHonest, Fits
<1>6. VerdictHonest' /\ BodyHonest' /\ Unspoken'
  BY <1>1, <1>2, <1>3, <1>4 DEF HonestOK, VerdictHonest, BodyHonest, Unspoken,
     Fits
<1>7. ChargeOK'
  <2>1. \A c \in Cases : cause[c] \subseteq cause'[c]
    BY <1>3, <1>4
  <2> QED
    BY <1>1, <2>1, ChargeKept DEF MainUser, InLog, InGLib, Locked
<1> QED
  BY <1>5, <1>6, <1>7 DEF HonestOK

(* What else a body does leaves it running, or ends the process. *)
LEMMA BodyGoesOn ==
  ASSUME IInv, HonestOK,
         \/ \E m \in BodyMessages : BodyLog(m)
         \/ \E p \in Patterns : Expect(p)
         \/ FillExpectation
         \/ \E h \in 1..MaxExpect : ExpectCount(h)
         \/ AssertFail \/ SkipReached
  PROVE  HonestOK'
<1>0. Main \in Threads /\ pc \in [Threads -> MainUser \cup InLog \cup {"user"}]
      /\ call \in [Threads -> Call]
  BY DEF IInv, TypeOK, Threads
<1>1. ASSUME NEW m \in BodyMessages, BodyLog(m) PROVE HonestOK'
  <2>1. /\ pc[Main] = "body" /\ EnterLog(Main, m, "body") /\ m \in Message
        /\ UNCHANGED <<cur, ctx, result, cause>>
    BY <1>1, InputAssumption DEF BodyLog, At, caseVars, history
  <2>2. /\ call' = [call EXCEPT ![Main] =
                      NewCall(m, "body")]
        /\ pc' = [pc EXCEPT ![Main] = "lock"]
    BY <1>0, <2>1, EnterLogStep DEF InGLib, Locked
  <2>3. /\ Home = "body" /\ Home' = "body" /\ ChargeOK'
        /\ ~Thrown /\ ~Thrown' /\ ~Warned /\ ~Warned'
    BY <1>0, <2>1, <2>2 DEF NewCall, Home, Thrown, Warned, HonestOK, ChargeOK, InLog, InGLib,
       Locked
  <2> QED
    BY <2>1, <2>3, Frame
<1> DEFINE Moves(place) ==
      /\ pc[Main] \in InBody /\ place \in InBody
      /\ pc' = [pc EXCEPT ![Main] = place]
      /\ UNCHANGED <<call, cur, ctx, result, cause>>
<1>2. ASSUME NEW place, Moves(place) PROVE HonestOK'
  <2>1. /\ Home = pc[Main] /\ Home' = place /\ ChargeOK'
        /\ ~Thrown /\ ~Thrown' /\ ~Warned /\ ~Warned'
    BY <1>2, MainMoves DEF MainUser, InBody, InLog, InGLib, Locked
  <2> QED
    BY <1>2, <2>1, Frame
<1>3. ASSUME NEW p \in Patterns, Expect(p) PROVE HonestOK'
  <2>1. /\ pc[Main] = "body" /\ pc' = [pc EXCEPT ![Main] = "fill"]
        /\ UNCHANGED <<cur, ctx, result, cause>>
    BY <1>3 DEF Expect, At, Goto
  <2>2. \A t \in Threads : call'[t].charged = call[t].charged
    <3>1. \A t \in Threads :
            call[t] \in Call /\ call'[t] = [call[t] EXCEPT !.stale = call'[t].stale]
      BY <1>0, <1>3, ExpectMoves
    <3> QED
      BY <3>1 DEF Call
  <2>3. /\ Home = "body" /\ Home' = "fill"
        /\ ~Thrown /\ ~Thrown' /\ ~Warned /\ ~Warned'
    BY <1>0, <2>1 DEF Home, Thrown, Warned, InLog, InGLib, Locked
  <2>4. ChargeOK'
    BY <1>0, <2>1, <2>2 DEF HonestOK, ChargeOK, Why
  <2> QED
    BY <2>1, <2>3, <2>4, Frame DEF InBody
<1>4. CASE FillExpectation
  <2>1. Moves("body")
    BY <1>4 DEF FillExpectation, At, Goto, history, InBody
  <2> QED
    BY <2>1, <1>2
<1>5. ASSUME NEW h \in 1..MaxExpect, ExpectCount(h) PROVE HonestOK'
  BY <1>5, Frame DEF ExpectCount, threadVars, Home, Thrown, Warned, HonestOK,
     ChargeOK
<1>6. CASE AssertFail
  <2>1. Moves("asserting") \/ \E how \in Outcomes : EndProcess(how)
    BY <1>6 DEF AssertFail, At, Goto, caseVars, history, InBody, Outcomes
  <2> QED
    BY <2>1, <1>2, EndProcessHonest
<1>7. CASE SkipReached
  <2>1. Moves("skipping") \/ \E how \in Outcomes : EndProcess(how)
    BY <1>7 DEF SkipReached, At, Goto, caseVars, history, InBody, Outcomes
  <2> QED
    BY <2>1, <1>2, EndProcessHonest
<1> QED
  BY <1>1, <1>3, <1>4, <1>5, <1>6, <1>7

(* The destructor of a target has nothing to do with verdicts. *)
LEMMA DestroyHonest ==
  ASSUME IInv, HonestOK, DestroyStep
  PROVE  HonestOK'
<1>0. Main \in Threads /\ pc \in [Threads -> MainUser \cup InLog \cup {"user"}]
      /\ call \in [Threads -> Call]
  BY DEF IInv, TypeOK, Threads
<1>1. ASSUME NEW m \in DestroyMessages, DestroyLog(m) PROVE HonestOK'
  <2>1. /\ pc[Main] = "dispose" /\ EnterLog(Main, m, "dispose") /\ m \in Message
        /\ UNCHANGED <<cur, ctx, result, cause>>
    BY <1>1, InputAssumption DEF DestroyLog, At, caseVars, history
  <2>2. /\ call' = [call EXCEPT ![Main] = NewCall(m, "dispose")]
        /\ pc' = [pc EXCEPT ![Main] = "lock"]
    BY <1>0, <2>1, EnterLogStep DEF InGLib, Locked
  <2>3. /\ Home = "dispose" /\ Home' = "dispose" /\ ChargeOK'
        /\ ~Thrown /\ ~Thrown' /\ ~Warned /\ ~Warned'
    BY <1>0, <2>1, <2>2 DEF NewCall, Home, Thrown, Warned, HonestOK, ChargeOK,
       InLog, InGLib, Locked
  <2> QED
    BY <2>1, <2>3, Frame
<1>2. CASE DestroyAssert
  BY <1>2, EndProcessHonest DEF DestroyAssert
<1> QED
  BY <1>1, <1>2 DEF DestroyStep

(* A worker that starts a message charges nobody yet. *)
LEMMA WorkerLogHonest ==
  ASSUME IInv, HonestOK, NEW t \in Workers, NEW m \in WorkerMessages,
         WorkerLog(t, m)
  PROVE  HonestOK'
<1>0. Main \in Threads /\ pc \in [Threads -> MainUser \cup InLog \cup {"user"}]
      /\ call \in [Threads -> Call] /\ t \in Threads /\ t # Main
  BY ThreadAssumption DEF IInv, TypeOK, Threads
<1>1. /\ pc[t] = "user" /\ EnterLog(t, m, "user") /\ m \in Message
      /\ UNCHANGED <<cur, ctx, result, cause>>
  BY InputAssumption DEF WorkerLog, At, caseVars, history
<1>2. /\ call' = [call EXCEPT ![t] =
                    NewCall(m, "user")]
      /\ pc' = [pc EXCEPT ![t] = "lock"]
  BY <1>0, <1>1, EnterLogStep DEF InGLib, Locked
<1>3. Home' = Home /\ (Thrown' <=> Thrown) /\ (Warned' <=> Warned) /\ ChargeOK'
  BY <1>0, <1>1, <1>2 DEF NewCall, Home, Thrown, Warned, HonestOK, ChargeOK
<1> QED
  BY <1>1, <1>3, Frame

-----------------------------------------------------------------------------

(* Every step keeps verdicts honest. *)
LEMMA NextHonest ==
  ASSUME IInv, HonestOK, [Next]_vars
  PROVE  HonestOK'
<1>1. CASE RunStep
  BY <1>1, BeginHonest, ExecHonest, ReadVerdictHonest, AnnounceHonest,
     EndCaseHonest DEF RunStep
<1>2. CASE BodyStep
  BY <1>2, BodyReturnHonest, LeaveHonest, BodyGoesOn DEF BodyStep
<1>3. ASSUME NEW t \in Threads, LogStep(t) PROVE HonestOK'
  <2>1. CASE VerbosityAssert(t) \/ LogHookCrash(t) \/ LogHookClobber(t)
    BY <2>1, EndProcessHonest DEF VerbosityAssert, LogHookCrash, LogHookClobber
  <2> QED
    BY <1>3, <2>1, ScanHonest, LogHookFindHonest, LogHookFailHonest, MarkMessageHonest,
       MarkFailedHonest, ReturnHonest, UnwindHonest, PreemptHonest DEF LogStep
<1>4. ASSUME NEW t \in Workers, NEW m \in WorkerMessages, WorkerLog(t, m)
      PROVE  HonestOK'
  BY <1>4, WorkerLogHonest
<1>5. CASE UNCHANGED vars
  BY <1>5, Frame DEF vars, threadVars, caseVars, history, Home, Thrown,
     Warned, HonestOK, ChargeOK
<1>6. CASE DestroyStep
  BY <1>6, DestroyHonest
<1> QED
  BY <1>1, <1>2, <1>3, <1>4, <1>5, <1>6 DEF Next, Stop

(* The verdict of every case says how its body ended, whatever messages the *)
(* body and any number of workers logged meanwhile.                         *)
THEOREM HonestVerdicts == Spec => []VerdictHonest
<1>1. Init => HonestOK
  BY ThreadAssumption DEF Init, HonestOK, VerdictHonest, BodyHonest,
     ContextHonest, Unspoken, ChargeOK, Fits, Home, InLog, InGLib, Locked,
     Threads
<1>2. HonestOK => VerdictHonest
  BY DEF HonestOK
<1> QED
  BY <1>1, <1>2, NextHonest, Invariance, PTL DEF Spec

-----------------------------------------------------------------------------
(* What expectations have counted.                                          *)

(* The message matches element i, which is filled, and none before it.      *)
Satisfied(m, e) == e.ready /\ Matches(m, e.pattern)
Chosen(m, es, i) ==
  /\ Satisfied(m, es[i])
  /\ \A h \in DOMAIN es : Satisfied(m, es[h]) => i <= h

(* What a thread in the scan has found stays the first match, whatever the  *)
(* body does to the array meanwhile; and its pointer is only ever stale if  *)
(* the array of the current case did move under it.                         *)
ScanOf(t) ==
  /\ pc[t] = "count" =>
       Chosen(call[t].msg, expected[hooks[cursor[t]]], call[t].element)
  /\ pc[t] = "lock" => ~call[t].stale
  /\ pc[t] \in {"hook", "count"} /\ call[t].stale => Pushed /\ cur \in moved

ScanOK == \A t \in Threads : ScanOf(t)

(* A new element is not filled, and matches nothing. *)
LEMMA AppendChosen ==
  ASSUME NEW m, NEW es \in Seq(Expectation), NEW i \in DOMAIN es,
         NEW e \in Expectation, ~e.ready, Chosen(m, es, i)
  PROVE  Chosen(m, Append(es, e), i)
<1>1. /\ Len(es) \in Nat /\ DOMAIN es = 1..Len(es)
      /\ DOMAIN Append(es, e) = 1..(Len(es) + 1)
      /\ \A h \in 1..Len(es) : Append(es, e)[h] = es[h]
      /\ Append(es, e)[Len(es) + 1] = e
  BY LenProperties, AppendProperties
<1> DEFINE fs == Append(es, e)
<1>2. \A h \in DOMAIN fs : (h \in DOMAIN es /\ fs[h] = es[h]) \/ fs[h] = e
  BY <1>1
<1>3. fs[i] = es[i]
  BY <1>1
<1> HIDE DEF fs
<1>4. Chosen(m, fs, i)
  BY <1>2, <1>3 DEF Chosen, Satisfied
<1> QED
  BY <1>4 DEF fs

(* Filling the last element may make it match, but no earlier one. *)
LEMMA FillChosen ==
  ASSUME NEW m, NEW es \in Seq(Expectation), NEW i \in DOMAIN es, Chosen(m, es, i)
  PROVE  Chosen(m, [es EXCEPT ![Len(es)].ready = TRUE], i)
<1> DEFINE k == Len(es)
           fs == [es EXCEPT ![k].ready = TRUE]
<1>1. /\ k \in Nat /\ DOMAIN es = 1..k /\ i \in 1..k
      /\ \A h \in DOMAIN es : es[h] \in Expectation
  BY LenProperties, ElementOfSeq
<1>2. DOMAIN fs = DOMAIN es /\ \A h \in DOMAIN es : h # k => fs[h] = es[h]
  BY <1>1
<1>3. fs[i].ready /\ fs[i].pattern = es[i].pattern
  BY <1>1 DEF Chosen, Satisfied, Expectation
<1>4. \A h \in DOMAIN es : h = k => i <= h
  BY <1>1
<1> HIDE DEF fs, k
<1>5. Chosen(m, fs, i)
  BY <1>2, <1>3, <1>4 DEF Chosen, Satisfied
<1> QED
  BY <1>5 DEF fs, k

(* Taking a count leaves what matches alone. *)
LEMMA CountChosen ==
  ASSUME NEW m, NEW es \in Seq(Expectation), NEW i \in DOMAIN es, NEW k \in DOMAIN es,
         Chosen(m, es, i)
  PROVE  Chosen(m, [es EXCEPT ![k].count = 0], i)
<1> DEFINE fs == [es EXCEPT ![k].count = 0]
<1>1. \A h \in DOMAIN es : es[h] \in Expectation
  BY ElementOfSeq
<1>2. /\ DOMAIN fs = DOMAIN es
      /\ \A h \in DOMAIN es : fs[h].ready = es[h].ready /\ fs[h].pattern = es[h].pattern
  BY <1>1 DEF Expectation
<1> HIDE DEF fs
<1>3. Chosen(m, fs, i)
  BY <1>2 DEF Chosen, Satisfied
<1> QED
  BY <1>3 DEF fs

(* A thread that a step leaves where it is stands as it did, if the hooks   *)
(* and the expectations it has reached are the same.                        *)
LEMMA ScanStays ==
  ASSUME IInv, ScanOK, NEW s \in Threads, moved \subseteq moved',
         pc'[s] = pc[s], call'[s] = call[s], cursor'[s] = cursor[s],
         pc[s] \in {"hook", "count"} => hooks' = hooks,
         pc[s] \in {"hook", "count"} /\ Pushed => Pushed' /\ cur' = cur,
         pc[s] = "count" => expected'[hooks[cursor[s]]] = expected[hooks[cursor[s]]]
  PROVE  ScanOf(s)'
BY DEF ScanOK, ScanOf

(* A step of the main thread outside of g_log() that stays outside. *)
LEMMA MainScan ==
  ASSUME IInv, ScanOK, UNCHANGED <<call, cursor, hooks, expected, moved>>,
         pc[Main] \notin InLog, NEW place \in MainUser,
         pc' = [pc EXCEPT ![Main] = place],
         Pushed => Pushed' /\ cur' = cur
  PROVE  ScanOK'
<1>1. pc \in [Threads -> MainUser \cup InLog \cup {"user"}]
  BY DEF IInv, TypeOK
<1>2. ASSUME NEW s \in Threads, s # Main PROVE ScanOf(s)'
  BY <1>1, <1>2, ScanStays
<1>3. ASSUME NEW s \in Threads, s = Main PROVE ScanOf(s)'
  BY <1>1, <1>3 DEF ScanOf, MainUser
<1> QED
  BY <1>2, <1>3 DEF ScanOK

(* A call that begins has nothing stale about it. *)
LEMMA EnterScan ==
  ASSUME IInv, ScanOK, UNCHANGED <<expected, moved, cur>>, NEW t \in Threads,
         hooks' = hooks \/ lock = Free, pc[t] \notin InLog,
         NEW m \in Message,
         NEW back \in {"exec", "body", "pop", "dispose", "user"}, EnterLog(t, m, back),
         Pushed => Pushed'
  PROVE  ScanOK'
<1>1. /\ call' = [call EXCEPT ![t] = NewCall(m, back)]
      /\ pc' = [pc EXCEPT ![t] = "lock"] /\ cursor' = cursor
  BY EnterLogStep DEF InLog
<1>2. /\ pc \in [Threads -> MainUser \cup InLog \cup {"user"}]
      /\ call \in [Threads -> Call]
  BY DEF IInv, TypeOK
<1>3. ASSUME NEW s \in Threads, s # t PROVE ScanOf(s)'
  <2>1. pc[s] \in {"hook", "count"} => lock = s /\ s # Free
    BY ThreadAssumption DEF IInv, LockExact, Locked
  <2> QED
    BY <1>1, <1>2, <1>3, <2>1, ScanStays
<1>4. ASSUME NEW s \in Threads, s = t PROVE ScanOf(s)'
  BY <1>1, <1>2, <1>4 DEF ScanOf, NewCall
<1> QED
  BY <1>3, <1>4 DEF ScanOK

(* The end of the process moves no thread. *)
LEMMA EndScanOK ==
  ASSUME IInv, ScanOK, NEW how, EndProcess(how)
  PROVE  ScanOK'
<1>1. ASSUME NEW s \in Threads PROVE ScanOf(s)'
  BY ScanStays DEF EndProcess, threadVars, hookVars, caseVars, history, Pushed, Home
<1> QED
  BY <1>1 DEF ScanOK

(* The steps of a message: only the acting thread moves.                    *)
LEMMA LogScan ==
  ASSUME IInv, ScanOK, NEW t \in Threads, LogStep(t)
  PROVE  ScanOK'
<1>0. /\ pc \in [Threads -> MainUser \cup InLog \cup {"user"}]
      /\ call \in [Threads -> Call] /\ cursor \in [Threads -> Nat]
  BY DEF IInv, TypeOK
<1>a. \A s \in Threads : pc[s] \in {"hook", "count"} => lock = s /\ s # Free
  BY ThreadAssumption DEF IInv, LockExact, Locked
(* It is enough to look at the acting thread, *)
<1>1. ASSUME UNCHANGED <<hooks, cur, moved>>, NEW place, pc' = [pc EXCEPT ![t] = place],
             \A s \in Threads : s # t => call'[s] = call[s] /\ cursor'[s] = cursor[s],
             (lock = t \/ expected' = expected), Pushed => Pushed', ScanOf(t)'
      PROVE  ScanOK'
  <2>1. ASSUME NEW s \in Threads, s # t PROVE ScanOf(s)'
    <3>1. pc'[s] = pc[s]
      BY <1>0, <1>1, <2>1
    <3>2. pc[s] = "count" => expected' = expected
      BY <1>1, <1>a, <2>1
    <3> QED
      BY <1>1, <2>1, <3>1, <3>2, ScanStays
  <2> QED
    BY <1>1, <2>1 DEF ScanOK
(* and if that one leaves the scan there is nothing more to see. *)
<1>2. ASSUME UNCHANGED <<hooks, cur, moved>>,
             NEW place \in {"handled", "emit", "mark", "fail", "unwind", "preempt",
                            "unwound", call[t].back},
             pc' = [pc EXCEPT ![t] = place], pc[t] \in InLog,
             \A s \in Threads : s # t => call'[s] = call[s] /\ cursor'[s] = cursor[s],
             (lock = t \/ expected' = expected),
             call'[t].back = call[t].back,
             place = "unwound" => Home \in InBody
      PROVE  ScanOK'
  <2>1. call[t].back \notin {"lock", "hook", "count"} \cup InLog
    BY <1>2, ThreadAssumption DEF IInv, PlacesOK, Threads, InLog, InGLib, Locked
  <2>2. pc'[t] = place
    BY <1>0, <1>2
  <2>3. ScanOf(t)'
    BY <2>1, <2>2 DEF ScanOf
  <2>4. Home' = Home \/ (Home \in InBody /\ Home' = "unwound")
    <3>1. CASE t = Main
      BY <1>2, <2>1, <2>2, <3>1 DEF Home, InLog, InGLib, Locked, IInv, PlacesOK
    <3>2. CASE t # Main
      <4>1. Main \in Threads
        BY DEF Threads
      <4>2. call'[Main] = call[Main] /\ pc'[Main] = pc[Main]
        BY <1>0, <1>2, <3>2, <4>1
      <4> QED
        BY <4>2 DEF Home
    <3> QED
      BY <3>1, <3>2
  <2>5. Pushed => Pushed'
    BY <2>4 DEF Pushed
  <2> QED
    BY <1>1, <1>2, <2>3, <2>5
<1>3. CASE \E how : EndProcess(how)
  BY <1>3, EndScanOK
<1>4. CASE LockHooks(t)
  <2>1. /\ UNCHANGED <<hooks, cur, moved, call, expected>> /\ pc[t] = "lock"
        /\ pc' = [pc EXCEPT ![t] = "hook"] /\ cursor' = [cursor EXCEPT ![t] = 1]
    BY <1>4 DEF LockHooks, At, Goto, caseVars, history
  <2>2. ScanOf(t)'
    BY <1>0, <2>1 DEF ScanOK, ScanOf
  <2>3. Home' = Home
    BY <1>0, <2>1 DEF Home, InLog, InGLib, Locked
  <2> QED
    BY <1>0, <1>1, <2>1, <2>2, <2>3 DEF Pushed
<1>5. CASE Verbosity(t)
  <2>1. /\ UNCHANGED <<hooks, cur, moved, expected>> /\ pc[t] = "hook"
        /\ \/ pc' = pc /\ cursor' = [cursor EXCEPT ![t] = @ + 1]
           \/ pc' = [pc EXCEPT ![t] = "handled"] /\ cursor' = cursor
    BY <1>5 DEF Verbosity, AtVerbosity, NextHook, StopScan, At, Goto, caseVars, history
  <2>2. PICK f : call' = [call EXCEPT ![t] = [call[t] EXCEPT !.fatal = f]]
    BY <1>5 DEF Verbosity
  <2>3. /\ call'[t].back = call[t].back /\ call'[t].stale = call[t].stale
        /\ \A s \in Threads : s # t => call'[s] = call[s]
    BY <1>0, <2>2 DEF Call
  <2>4. \A s \in Threads : s # t => cursor'[s] = cursor[s]
    BY <1>0, <2>1
  <2>5. CASE pc' = pc
    <3>1. Home' = Home
      <4>1. CASE t = Main
        BY <2>3, <2>5, <4>1 DEF Home
      <4>2. CASE t # Main
        BY <2>3, <2>5, <4>2 DEF Home, Threads
      <4> QED
        BY <4>1, <4>2
    <3>2. ScanOf(t)'
      BY <2>1, <2>3, <2>5, <3>1 DEF ScanOK, ScanOf, Pushed
    <3>3. pc' = [pc EXCEPT ![t] = "hook"]
      BY <1>0, <2>1, <2>5
    <3> QED
      BY <1>1, <2>1, <2>3, <2>4, <3>1, <3>2, <3>3 DEF Pushed
  <2>6. CASE pc' = [pc EXCEPT ![t] = "handled"]
    <3>1. pc[t] \in InLog
      BY <2>1 DEF InLog, InGLib, Locked
    <3> QED
      BY <1>2, <2>1, <2>3, <2>4, <2>6, <3>1
  <2> QED
    BY <2>1, <2>5, <2>6
<1>6. ASSUME NEW i \in 1..MaxExpect, LogHookFind(t, i) PROVE ScanOK'
  <2> DEFINE c == hooks[cursor[t]]
             m == call[t].msg
             es == expected[c]
  <2>1. PICK still \in {FALSE, call[t].stale} :
          call' = [call EXCEPT ![t] = [call[t] EXCEPT !.element = i, !.stale = still]]
    BY <1>6 DEF LogHookFind
  <2>2. /\ UNCHANGED <<hooks, cur, moved, cursor, expected>> /\ pc[t] = "hook"
        /\ pc' = [pc EXCEPT ![t] = "count"]
        /\ StopsAt(m, es, i) /\ es[i].ready /\ c \in Cases
    BY <1>6 DEF LogHookFind, AtLogHook, HookCase, At, Goto, hookVars, caseVars, history
  <2>3. /\ call'[t].back = call[t].back /\ call'[t].stale = still
        /\ call'[t].msg = m /\ call'[t].element = i
        /\ \A s \in Threads : s # t => call'[s] = call[s]
    BY <1>0, <2>1 DEF Call
  <2>4. Home' = Home
    <3>1. CASE t = Main
      BY <1>0, <2>2, <2>3, <3>1 DEF Home, InLog, InGLib, Locked
    <3>2. CASE t # Main
      BY <1>0, <2>2, <2>3, <3>2 DEF Home, Threads
    <3> QED
      BY <3>1, <3>2
  <2>5. pc'[t] = "count"
    BY <1>0, <2>2
  <2>6. Chosen(m, es, i)
    BY <2>2 DEF Chosen, Satisfied, StopsAt, Stops
  <2>7. call'[t].stale => Pushed' /\ cur' \in moved'
    BY <2>2, <2>3, <2>4 DEF ScanOK, ScanOf, Pushed
  <2>8. ScanOf(t)'
    BY <2>2, <2>3, <2>5, <2>6, <2>7 DEF ScanOf
  <2> QED
    BY <1>1, <2>2, <2>3, <2>4, <2>8 DEF Pushed
<1>7. CASE LogHookPass(t)
  <2>1. /\ UNCHANGED <<hooks, cur, moved, expected, call, pc>> /\ pc[t] = "hook"
        /\ cursor' = [cursor EXCEPT ![t] = @ + 1]
    BY <1>7 DEF LogHookPass, AtLogHook, NextHook, At, caseVars, history
  <2>2. pc' = [pc EXCEPT ![t] = "hook"] /\ Home' = Home
    BY <1>0, <2>1 DEF Home
  <2>3. ScanOf(t)'
    BY <2>1, <2>2 DEF ScanOK, ScanOf, Pushed
  <2>4. \A s \in Threads : s # t => cursor'[s] = cursor[s]
    BY <1>0, <2>1
  <2> QED
    BY <1>1, <2>1, <2>2, <2>3, <2>4 DEF Pushed
<1>8. CASE LogHookCount(t) \/ LogHookMiscount(t)
  <2>1. /\ UNCHANGED <<hooks, cur, moved, call, cursor>> /\ pc[t] = "count"
        /\ pc' = [pc EXCEPT ![t] = "handled"]
    BY <1>8 DEF LogHookCount, LogHookMiscount, StopScan, At, Goto
  <2>2. pc[t] \in InLog /\ lock = t
    BY <1>a, <2>1 DEF InLog, InGLib, Locked
  <2> QED
    BY <1>2, <2>1, <2>2
<1>9. CASE LogHookFail(t) /\ ~(ctx.owner = NoCase \/ ctx.message)
  <2>1. /\ UNCHANGED <<hooks, cur, moved, cursor, expected>> /\ pc[t] = "hook"
        /\ pc' = [pc EXCEPT ![t] = "mark"]
        /\ call' = [call EXCEPT ![t] = [call[t] EXCEPT !.charged = ctx.owner]]
    BY <1>9 DEF LogHookFail, AtLogHook, At, Goto, hookVars, caseVars, history
  <2>2. /\ call'[t].back = call[t].back
        /\ \A s \in Threads : s # t => call'[s] = call[s]
    BY <1>0, <2>1 DEF Call
  <2>3. pc[t] \in InLog
    BY <2>1 DEF InLog, InGLib, Locked
  <2> QED
    BY <1>2, <2>1, <2>2, <2>3
<1>10. CASE (MarkMessage(t) \/ MarkFailed(t)) /\ ctx.owner = call[t].charged
  <2>1. /\ UNCHANGED <<hooks, cur, moved, cursor, expected, call>>
        /\ pc[t] \in {"mark", "fail"}
        /\ pc' = [pc EXCEPT ![t] = "fail"] \/ pc' = [pc EXCEPT ![t] = "unwind"]
    BY <1>10 DEF MarkMessage, MarkFailed, At, Goto, hookVars, caseVars, history
  <2>2. pc[t] \in InLog
    BY <2>1 DEF InLog, InGLib, Locked
  <2> QED
    BY <1>2, <2>1, <2>2
<1>11. CASE /\ EndScan(t) \/ Handled(t) \/ Emit(t) \/ Unwind(t)
            /\ ~\E how : EndProcess(how)
  <2>1. /\ UNCHANGED <<hooks, cur, moved, cursor, expected, call>>
        /\ pc[t] \in {"hook", "handled", "emit", "unwind"}
        /\ \/ pc' = [pc EXCEPT ![t] = "emit"] \/ pc' = [pc EXCEPT ![t] = "preempt"]
           \/ pc' = [pc EXCEPT ![t] = call[t].back]
    BY <1>11 DEF EndScan, Handled, Emit, Unwind, ReturnFromLog, At, Goto, hookVars,
       caseVars, history
  <2>2. pc[t] \in InLog
    BY <2>1 DEF InLog, InGLib, Locked
  <2>3. PICK place \in {"emit", "preempt", call[t].back} :
          pc' = [pc EXCEPT ![t] = place]
    BY <2>1
  <2>4. /\ place \in {"handled", "emit", "mark", "fail", "unwind", "preempt",
                      "unwound", call[t].back}
        /\ call'[t].back = call[t].back
        /\ \A s \in Threads : s # t => call'[s] = call[s] /\ cursor'[s] = cursor[s]
    BY <2>1
  <2>5. place # "unwound"
    BY <2>2, <2>3, ThreadAssumption DEF IInv, PlacesOK, Threads
  <2> QED
    BY <1>2, <2>1, <2>2, <2>3, <2>4, <2>5
<1>12. CASE Preempt(t) /\ t = Main /\ ctx.owner # NoCase
  <2>1. /\ UNCHANGED <<hooks, cur, moved, cursor, expected, call>>
        /\ pc[t] = "preempt" /\ pc' = [pc EXCEPT ![t] = "unwound"]
    BY <1>12 DEF Preempt, At, Goto, hookVars, caseVars, history
  <2>2. pc[t] \in InLog /\ Home \in InBody
    BY <1>12, <2>1 DEF IInv, ContextOK, PlacesOK, InBody, Home, InLog, InGLib, Locked
  <2> QED
    BY <1>2, <2>1, <2>2
<1>13. CASE VerbosityAssert(t) \/ LogHookCrash(t) \/ LogHookClobber(t)
  BY <1>3, <1>13 DEF VerbosityAssert, LogHookCrash, LogHookClobber
<1>14. CASE LogHookFail(t) /\ (ctx.owner = NoCase \/ ctx.message)
  BY <1>3, <1>14 DEF LogHookFail
<1>15. CASE (MarkMessage(t) \/ MarkFailed(t)) /\ ctx.owner # call[t].charged
  BY <1>3, <1>15 DEF MarkMessage, MarkFailed
<1>16. CASE Preempt(t) /\ ~(t = Main /\ ctx.owner # NoCase)
  BY <1>3, <1>16 DEF Preempt
<1>17. CASE EndScan(t) \/ Handled(t) \/ Emit(t) \/ Unwind(t)
  BY <1>3, <1>11, <1>17
<1> QED
  BY <1>4, <1>5, <1>6, <1>7, <1>8, <1>9, <1>10, <1>12, <1>13, <1>14, <1>15, <1>16,
     <1>17 DEF LogStep

(* A message of the main thread's returns to the place it is given. *)
LEMMA EnterHome ==
  ASSUME IInv, pc[Main] \notin InLog, NEW m, NEW back, EnterLog(Main, m, back)
  PROVE  Home' = Home \/ Home' = back
<1>0. /\ pc \in [Threads -> MainUser \cup InLog \cup {"user"}]
      /\ call \in [Threads -> Call] /\ Main \in Threads
  BY DEF IInv, TypeOK, Threads
<1>1. CASE pc' = pc /\ call' = call
  BY <1>1 DEF Home
<1>2. CASE /\ call' = [call EXCEPT ![Main] = NewCall(m, back)]
           /\ pc' = [pc EXCEPT ![Main] = "lock"]
  <2>1. pc'[Main] \in InLog /\ call'[Main].back = back
    BY <1>0, <1>2 DEF InLog, InGLib, NewCall
  <2> QED
    BY <2>1 DEF Home
<1> QED
  BY <1>1, <1>2 DEF EnterLog, Goto, threadVars

(* The steps of _gtu_test_case_run(): what the main thread does to the hooks *)
(* it does with the mutex, so that no thread stands at one of them.         *)
LEMMA RunScan ==
  ASSUME IInv, ScanOK, RunStep
  PROVE  ScanOK'
<1>0. /\ pc \in [Threads -> MainUser \cup InLog \cup {"user"}]
      /\ call \in [Threads -> Call] /\ cursor \in [Threads -> Nat]
      /\ Main \in Threads
  BY DEF IInv, TypeOK, Threads
<1>a. \A s \in Threads : pc[s] \in {"hook", "count"} => lock = s /\ s # Free
  BY ThreadAssumption DEF IInv, LockExact, Locked
<1>1. CASE \E how : EndProcess(how)
  BY <1>1, EndScanOK
<1>2. ASSUME NEW c \in Cases, Begin(c) PROVE ScanOK'
  <2>1. /\ UNCHANGED <<call, cursor, hooks, expected, moved>> /\ pc[Main] = "idle"
        /\ pc' = [pc EXCEPT ![Main] = "push"]
    BY <1>2 DEF Begin, At, Goto, hookVars, caseVars, history
  <2>2. pc[Main] \notin InLog /\ ~Pushed /\ "push" \in MainUser
    BY <2>1 DEF Pushed, Home, InLog, InGLib, Locked, MainUser
  <2> QED
    BY <2>1, <2>2, MainScan
<1>3. CASE (Exec /\ ctx.owner = NoCase) \/ ReadVerdict
  <2>1. PICK place \in {"body", "reap"} :
          /\ UNCHANGED <<call, cursor, hooks, expected, moved, cur>>
          /\ pc[Main] \in {"exec", "unwound"}
          /\ pc' = [pc EXCEPT ![Main] = place]
    BY <1>3 DEF Exec, ReadVerdict, At, Goto, hookVars, caseVars, history
  <2>2. pc[Main] \notin InLog /\ place \in MainUser /\ pc'[Main] = place
    BY <1>0, <2>1 DEF InLog, InGLib, Locked, MainUser
  <2>3. Pushed'
    BY <2>1, <2>2 DEF Pushed, Home, InLog, InGLib, Locked
  <2> QED
    BY <2>1, <2>2, <2>3, MainScan
<1>4. CASE Push
  <2>1. /\ UNCHANGED <<expected, moved, cur>> /\ lock = Free /\ pc[Main] = "push"
        /\ EnterLog(Main, Announcement, "exec")
    BY <1>4 DEF Push, At, caseVars, history
  <2>2. pc[Main] \notin InLog /\ ~Pushed
    BY <2>1 DEF Pushed, Home, InLog, InGLib, Locked
  <2> QED
    BY <1>0, <2>1, <2>2, AnnouncementType, EnterScan
<1>5. CASE FreeContext
  <2>1. /\ UNCHANGED <<expected, moved, cur, hooks>> /\ pc[Main] = "reap"
        /\ EnterLog(Main, Announcement, "pop")
    BY <1>5 DEF FreeContext, At, hookVars, caseVars, history
  <2>2. pc[Main] \notin InLog
    BY <2>1 DEF InLog, InGLib, Locked
  <2>3. Home = "reap" /\ (Home' = Home \/ Home' = "pop")
    BY <2>1, <2>2, EnterHome DEF Home
  <2>4. Pushed'
    BY <2>3 DEF Pushed
  <2> QED
    BY <1>0, <2>1, <2>2, <2>4, AnnouncementType, EnterScan
<1>6. CASE Pop \/ Dispose
  <2>1. /\ UNCHANGED <<call, cursor, moved>>
        /\ pc' = [pc EXCEPT ![Main] = "dispose"] \/ pc' = [pc EXCEPT ![Main] = "idle"]
    BY <1>6 DEF Pop, Dispose, Goto, history
  <2>2. ASSUME NEW s \in Threads, s # Main PROVE ScanOf(s)'
    <3>1. pc'[s] = pc[s]
      BY <1>0, <2>1, <2>2
    <3>2. CASE Pop
      <4>1. pc[s] \notin {"hook", "count"}
        BY <1>a, <3>2 DEF Pop
      <4> QED
        BY <2>1, <3>1, <4>1, ScanStays
    <3>3. CASE Dispose
      <4>1. ~Pushed /\ hooks' = hooks
        BY <3>3 DEF Dispose, At, Pushed, Home, InLog, InGLib, Locked, hookVars
      <4>2. pc[s] # "count"
        <5>1. Len(hooks) = 1 /\ hooks[1] = NoCase
          BY <4>1, Zenon DEF IInv, HooksOK
        <5>2. cursor[s] \in Nat
          BY <1>0
        <5>3. pc[s] = "count" => cursor[s] = 1 /\ hooks[cursor[s]] \in Cases
          BY <5>1, <5>2 DEF IInv, FoundOK
        <5> QED
          BY <5>1, <5>3, ThreadAssumption
      <4> QED
        BY <2>1, <3>1, <4>1, <4>2, ScanStays
    <3> QED
      BY <1>6, <3>2, <3>3
  <2>3. ASSUME NEW s \in Threads, s = Main PROVE ScanOf(s)'
    BY <1>0, <2>1, <2>3 DEF ScanOf
  <2> QED
    BY <2>2, <2>3 DEF ScanOK
<1>7. CASE Exec /\ ctx.owner # NoCase
  BY <1>1, <1>7 DEF Exec
<1> QED
  BY <1>2, <1>3, <1>4, <1>5, <1>6, <1>7 DEF RunStep

(* A body that changes what it expects leaves a scan's finding standing.    *)
LEMMA ExpectingScan ==
  ASSUME IInv, ScanOK, moved \subseteq moved', UNCHANGED <<cursor, hooks, cur>>,
         pc[Main] \in {"body", "fill"}, NEW place \in {"body", "fill"},
         pc' = [pc EXCEPT ![Main] = place],
         \A s \in Threads : call'[s].msg = call[s].msg /\ call'[s].element = call[s].element,
         \A s \in Threads :
           \/ call'[s].stale = call[s].stale
           \/ pc[s] \in {"hook", "count"} /\ cur \in moved',
         \A d \in Cases : d # cur => expected'[d] = expected[d],
         \A m, i : i \in DOMAIN expected[cur] /\ Chosen(m, expected[cur], i)
                     => Chosen(m, expected'[cur], i)
  PROVE  ScanOK'
<1>0. /\ pc \in [Threads -> MainUser \cup InLog \cup {"user"}] /\ Main \in Threads
  BY DEF IInv, TypeOK, Threads
<1>1. Pushed'
  BY <1>0 DEF Pushed, Home, InLog, InGLib, Locked
<1>2. ASSUME NEW s \in Threads, s = Main PROVE ScanOf(s)'
  BY <1>0, <1>2 DEF ScanOf
<1>3. ASSUME NEW s \in Threads, s # Main PROVE ScanOf(s)'
  <2>1. pc'[s] = pc[s] /\ call'[s].msg = call[s].msg /\ call'[s].element = call[s].element
    BY <1>0, <1>3
  <2>2. pc'[s] = "count" =>
          Chosen(call'[s].msg, expected'[hooks'[cursor'[s]]], call'[s].element)
    BY <2>1 DEF ScanOK, ScanOf, IInv, FoundOK
  <2>3. pc'[s] = "lock" => ~call'[s].stale
    BY <2>1 DEF ScanOK, ScanOf
  <2>4. pc'[s] \in {"hook", "count"} /\ call'[s].stale => Pushed' /\ cur' \in moved'
    BY <1>1, <2>1 DEF ScanOK, ScanOf
  <2> QED
    BY <2>2, <2>3, <2>4 DEF ScanOf
<1> QED
  BY <1>2, <1>3 DEF ScanOK

(* The steps of a body. *)
LEMMA BodyScan ==
  ASSUME IInv, ScanOK, BodyStep
  PROVE  ScanOK'
<1>0. /\ pc \in [Threads -> MainUser \cup InLog \cup {"user"}]
      /\ call \in [Threads -> Call] /\ Main \in Threads
      /\ expected \in [Cases -> Seq(Expectation)]
  BY DEF IInv, TypeOK, Threads
<1>1. CASE \E how : EndProcess(how)
  BY <1>1, EndScanOK
<1>2. CASE BodyReturn \/ AssertLeave \/ SkipLeave
  <2>1. /\ UNCHANGED <<call, cursor, hooks, expected, moved, cur>>
        /\ pc[Main] \in {"body", "asserting", "skipping"}
        /\ pc' = [pc EXCEPT ![Main] = "unwound"]
    BY <1>2 DEF BodyReturn, AssertLeave, SkipLeave, Leave, At, Goto, hookVars, caseVars
  <2>2. pc[Main] \notin InLog /\ "unwound" \in MainUser /\ pc'[Main] = "unwound"
    BY <1>0, <2>1 DEF InLog, InGLib, Locked, MainUser
  <2>3. Pushed'
    BY <2>2 DEF Pushed, Home, InLog, InGLib, Locked
  <2> QED
    BY <2>1, <2>2, <2>3, MainScan
<1>3. CASE (AssertFail \/ SkipReached) /\ ~\E how : EndProcess(how)
  <2>1. PICK place \in {"asserting", "skipping"} :
          /\ UNCHANGED <<call, cursor, hooks, expected, moved, cur>>
          /\ pc[Main] = "body" /\ pc' = [pc EXCEPT ![Main] = place]
    <3>1. CASE AssertFail
      BY <1>3, <3>1 DEF AssertFail, At, Goto, hookVars, caseVars, history
    <3>2. CASE SkipReached
      BY <1>3, <3>2 DEF SkipReached, At, Goto, hookVars, caseVars, history
    <3> QED
      BY <1>3, <3>1, <3>2
  <2>2. pc[Main] \notin InLog /\ place \in MainUser /\ pc'[Main] = place
    BY <1>0, <2>1 DEF InLog, InGLib, Locked, MainUser
  <2>3. Pushed'
    BY <2>1, <2>2 DEF Pushed, Home, InLog, InGLib, Locked
  <2> QED
    BY <2>1, <2>2, <2>3, MainScan
<1>4. ASSUME NEW m \in BodyMessages, BodyLog(m) PROVE ScanOK'
  <2>1. /\ UNCHANGED <<expected, moved, cur, hooks>> /\ pc[Main] = "body"
        /\ EnterLog(Main, m, "body") /\ m \in Message
    BY <1>4, InputAssumption DEF BodyLog, At, hookVars, caseVars, history
  <2>2. pc[Main] \notin InLog
    BY <2>1 DEF InLog, InGLib, Locked
  <2>3. Home = "body" /\ (Home' = Home \/ Home' = "body")
    BY <2>1, <2>2, EnterHome DEF Home
  <2>4. Pushed'
    BY <2>3 DEF Pushed
  <2> QED
    BY <1>0, <2>1, <2>2, <2>4, EnterScan
<1>5. ASSUME NEW q \in Patterns, Expect(q) PROVE ScanOK'
  <2> DEFINE es == expected[cur]
             e == [pattern |-> q, ready |-> FALSE, count |-> 0]
  <2>1. PICK under \in SUBSET Reading(cur) :
          /\ call' = [t \in Threads |->
                       IF t \in under THEN [call[t] EXCEPT !.stale = TRUE] ELSE call[t]]
          /\ moved' = IF under = {} THEN moved ELSE moved \cup {cur}
    BY <1>5 DEF Expect
  <2>2. /\ UNCHANGED <<cursor, hooks, cur>> /\ pc[Main] = "body"
        /\ pc' = [pc EXCEPT ![Main] = "fill"]
        /\ expected' = [expected EXCEPT ![cur] = Append(es, e)]
    BY <1>5 DEF Expect, At, Goto, hookVars
  <2>3. cur \in Cases /\ es \in Seq(Expectation)
    BY <1>0, <2>2 DEF IInv, TypeOK, CaseOK
  <2>4. e \in Expectation /\ ~e.ready
    BY InputAssumption DEF Expectation
  <2>5. \A s \in Threads : call'[s].msg = call[s].msg /\ call'[s].element = call[s].element
    BY <1>0, <2>1 DEF Call
  <2>6. \A s \in Threads : \/ call'[s].stale = call[s].stale
                           \/ pc[s] \in {"hook", "count"} /\ cur \in moved'
    BY <1>0, <2>1 DEF Reading
  <2>7. expected'[cur] = Append(es, e) /\ \A d \in Cases : d # cur => expected'[d] = expected[d]
    BY <1>0, <2>2, <2>3
  <2>8. moved \subseteq moved'
    BY <2>1
  <2> HIDE DEF e
  <2>9. \A m, i : i \in DOMAIN es /\ Chosen(m, es, i) => Chosen(m, Append(es, e), i)
    BY <2>3, <2>4, AppendChosen
  <2> QED
    BY <2>2, <2>5, <2>6, <2>7, <2>8, <2>9, ExpectingScan
<1>6. CASE FillExpectation
  <2>1. /\ UNCHANGED <<cursor, hooks, cur, call, moved>> /\ pc[Main] = "fill"
        /\ pc' = [pc EXCEPT ![Main] = "body"]
        /\ expected' = [expected EXCEPT ![cur] =
                          [expected[cur] EXCEPT ![Len(expected[cur])].ready = TRUE]]
    BY <1>6 DEF FillExpectation, At, Goto, hookVars, history
  <2>2. cur \in Cases /\ expected[cur] \in Seq(Expectation)
    BY <1>0, <2>1 DEF IInv, TypeOK, CaseOK
  <2>3. \A m, i : i \in DOMAIN expected[cur] /\ Chosen(m, expected[cur], i)
                    => Chosen(m, [expected[cur] EXCEPT ![Len(expected[cur])].ready = TRUE], i)
    BY <2>2, FillChosen
  <2>4. /\ expected'[cur] = [expected[cur] EXCEPT ![Len(expected[cur])].ready = TRUE]
        /\ \A d \in Cases : d # cur => expected'[d] = expected[d]
    BY <1>0, <2>1, <2>2
  <2>6. \A m, i : i \in DOMAIN expected[cur] /\ Chosen(m, expected[cur], i)
                    => Chosen(m, expected'[cur], i)
    BY <2>3, <2>4
  <2>7. /\ \A s \in Threads : call'[s].msg = call[s].msg /\ call'[s].element = call[s].element
        /\ \A s \in Threads : call'[s].stale = call[s].stale
        /\ moved \subseteq moved'
    BY <2>1
  <2> QED
    BY <2>1, <2>4, <2>6, <2>7, ExpectingScan
<1>7. ASSUME NEW k \in 1..MaxExpect, ExpectCount(k) PROVE ScanOK'
  <2>1. /\ UNCHANGED <<cursor, hooks, cur, call, moved, pc>> /\ pc[Main] = "body"
        /\ k \in DOMAIN expected[cur]
        /\ expected' = [expected EXCEPT ![cur] = [expected[cur] EXCEPT ![k].count = 0]]
    BY <1>7 DEF ExpectCount, At, threadVars, hookVars
  <2>2. cur \in Cases /\ expected[cur] \in Seq(Expectation)
    BY <1>0, <2>1 DEF IInv, TypeOK, CaseOK
  <2>3. \A m, i : i \in DOMAIN expected[cur] /\ Chosen(m, expected[cur], i)
                    => Chosen(m, [expected[cur] EXCEPT ![k].count = 0], i)
    BY <2>1, <2>2, CountChosen
  <2>4. /\ expected'[cur] = [expected[cur] EXCEPT ![k].count = 0]
        /\ \A d \in Cases : d # cur => expected'[d] = expected[d]
    BY <1>0, <2>1, <2>2
  <2>5. pc' = [pc EXCEPT ![Main] = "body"]
    BY <1>0, <2>1
  <2>6. \A m, i : i \in DOMAIN expected[cur] /\ Chosen(m, expected[cur], i)
                    => Chosen(m, expected'[cur], i)
    BY <2>3, <2>4
  <2>7. /\ \A s \in Threads : call'[s].msg = call[s].msg /\ call'[s].element = call[s].element
        /\ \A s \in Threads : call'[s].stale = call[s].stale
        /\ moved \subseteq moved'
    BY <2>1
  <2> QED
    BY <2>1, <2>4, <2>5, <2>6, <2>7, ExpectingScan
<1> QED
  BY <1>1, <1>2, <1>3, <1>4, <1>5, <1>6, <1>7 DEF BodyStep

(* The destructor of a target, and the other threads, only start messages.  *)
LEMMA DestroyScan ==
  ASSUME IInv, ScanOK, DestroyStep
  PROVE  ScanOK'
<1>1. CASE DestroyAssert
  BY <1>1, EndScanOK DEF DestroyAssert
<1>2. ASSUME NEW m \in DestroyMessages, DestroyLog(m) PROVE ScanOK'
  <2>1. /\ UNCHANGED <<expected, moved, cur, hooks>> /\ pc[Main] = "dispose"
        /\ EnterLog(Main, m, "dispose") /\ m \in Message /\ Main \in Threads
    BY <1>2, InputAssumption DEF DestroyLog, At, hookVars, caseVars, history, Threads
  <2>2. pc[Main] \notin InLog /\ ~Pushed
    BY <2>1 DEF Pushed, Home, InLog, InGLib, Locked
  <2> QED
    BY <2>1, <2>2, EnterScan
<1> QED
  BY <1>1, <1>2 DEF DestroyStep

LEMMA WorkerLogScan ==
  ASSUME IInv, ScanOK, NEW t \in Workers, NEW m \in WorkerMessages, WorkerLog(t, m)
  PROVE  ScanOK'
<1>1. /\ UNCHANGED <<expected, moved, cur, hooks>> /\ pc[t] = "user"
      /\ EnterLog(t, m, "user") /\ m \in Message /\ t \in Threads /\ t # Main
  BY InputAssumption, ThreadAssumption DEF WorkerLog, At, hookVars, caseVars, history, Threads
<1>2. pc[t] \notin InLog
  BY <1>1 DEF InLog, InGLib, Locked
<1>3. pc'[Main] = pc[Main] /\ call'[Main] = call[Main]
  BY <1>1 DEF EnterLog, Goto, threadVars, IInv, TypeOK, Threads
<1>4. Pushed => Pushed'
  BY <1>3 DEF Pushed, Home
<1> QED
  BY <1>1, <1>2, <1>4, EnterScan

(* Every step of every thread keeps what the scans have found standing.     *)
LEMMA NextScan ==
  ASSUME IInv, ScanOK, [Next]_vars
  PROVE  ScanOK'
<1>1. CASE UNCHANGED vars
  BY <1>1 DEF vars, threadVars, hookVars, caseVars, history, ScanOK, ScanOf, Pushed, Home
<1> QED
  BY <1>1, RunScan, BodyScan, DestroyScan, LogScan, WorkerLogScan DEF Next, Stop

LEMMA ScanStands == Spec => []ScanOK
<1>1. Init => ScanOK
  BY DEF Init, ScanOK, ScanOf, NewCall
<1> QED
  BY <1>1, NextScan, Invariance, PTL DEF Spec

(* The count of an expectation against what it has seen. *)
Agree(c, h) ==
  /\ expected[c][h].count <= seen[c][h]
  /\ c \notin moved => expected[c][h].count = seen[c][h]

CountOK == (\A c \in Cases : DOMAIN seen[c] = DOMAIN expected[c]) /\ CountsAnswer

(* What CountsAnswer says of one expectation. *)
LEMMA Counted ==
  ASSUME CountOK, NEW c \in Cases, NEW h \in DOMAIN expected[c],
         \A g \in 1..(h - 1) : Disjoint(expected[c][g].pattern, expected[c][h].pattern)
  PROVE  Agree(c, h)
BY DEF CountOK, CountsAnswer, Agree

(* A match is charged to the first expectation that the message satisfies,  *)
(* and any later one that it satisfies overlaps with that.                  *)
LEMMA LogHookCountCounts ==
  ASSUME IInv, ScanOK, CountOK, NEW t \in Threads, LogHookCount(t)
  PROVE  CountOK'
<1>b. HookCase(t) \in Cases
  BY DEF IInv, FoundOK, HookCase, LogHookCount, At
<1>c. PICK c \in Cases : c = HookCase(t)
  BY <1>b
<1> DEFINE m == call[t].msg
           i == call[t].element
           es == expected[c]
           new == [es[i] EXCEPT !.count = @ + 1]
           hit(h) == es[h].ready /\ Matches(m, es[h].pattern)
<1>1. /\ expected' = [expected EXCEPT ![c][i].count = @ + 1]
      /\ SawMessage(c, m) /\ pc[t] = "count" /\ moved' = moved
  BY <1>c DEF LogHookCount, At
<1>a. c \in Cases /\ i \in DOMAIN es /\ Chosen(m, es, i)
  BY <1>1, <1>c DEF IInv, FoundOK, ScanOK, ScanOf, HookCase
<1> HIDE DEF i
<1>2. /\ expected \in [Cases -> Seq(Expectation)] /\ seen \in [Cases -> Seq(Nat)]
      /\ es \in Seq(Expectation) /\ DOMAIN seen[c] = DOMAIN es /\ seen[c] \in Seq(Nat)
  BY <1>a DEF IInv, TypeOK, CountOK
<1>3. i \in DOMAIN es /\ hit(i) /\ \A h \in DOMAIN es : hit(h) => i <= h
  BY <1>a DEF Chosen, Satisfied
<1>4. /\ expected'[c] = [es EXCEPT ![i] = new]
      /\ \A d \in Cases : d # c => expected'[d] = expected[d]
  BY <1>1, <1>2
<1>5. /\ seen'[c] = [h \in DOMAIN seen[c] |-> IF hit(h) THEN seen[c][h] + 1 ELSE seen[c][h]]
      /\ \A d \in Cases : d # c => seen'[d] = seen[d]
  BY <1>1, <1>2 DEF SawMessage
<1>6. /\ DOMAIN es = 1..Len(es) /\ Len(es) \in Nat
      /\ \A h \in DOMAIN es : es[h] \in Expectation /\ h \in Nat
  BY <1>2
<1>7. new.pattern = es[i].pattern /\ new.count = es[i].count + 1
  BY <1>3, <1>6 DEF Expectation
<1>8. ASSUME NEW h \in DOMAIN es, h # i, hit(h)
      PROVE  i \in 1..(h - 1) /\ ~Disjoint(es[i].pattern, es[h].pattern)
  <2>3. i <= h
    BY <1>3, <1>8
  <2>4. i \in 1..(h - 1)
    BY <1>3, <1>6, <1>8, <2>3
  <2>5. ~Disjoint(es[i].pattern, es[h].pattern)
    BY <1>3, <1>8 DEF Matches, Disjoint
  <2> QED
    BY <2>4, <2>5
<1> HIDE DEF m, new
<1>9. \A d \in Cases : DOMAIN seen'[d] = DOMAIN expected'[d]
  BY <1>2, <1>4, <1>5 DEF CountOK
<1>10. ASSUME NEW h \in DOMAIN es,
              \A g \in 1..(h - 1) : Disjoint(expected'[c][g].pattern, expected'[c][h].pattern)
       PROVE  Agree(c, h)'
  <2>1. \A g \in DOMAIN es : expected'[c][g].pattern = es[g].pattern
    BY <1>3, <1>4, <1>7
  <2>2. \A g \in 1..(h - 1) : g \in DOMAIN es
    BY <1>6
  <2>3. \A g \in 1..(h - 1) : Disjoint(es[g].pattern, es[h].pattern)
    BY <1>10, <2>1, <2>2
  <2>4. Agree(c, h)
    BY <1>a, <2>3, Counted
  <2>a. es[h].count \in Nat /\ seen[c][h] \in Nat /\ h \in DOMAIN seen[c]
    BY <1>2, <1>6, ElementOfSeq DEF Expectation
  <2>5. CASE h = i
    <3>1. /\ expected'[c][h].count = es[h].count + 1
          /\ seen'[c][h] = seen[c][h] + 1
      BY <1>3, <1>4, <1>5, <1>7, <2>5, <2>a
    <3> QED
      BY <1>1, <2>4, <2>a, <3>1 DEF Agree
  <2>6. CASE h # i
    <3>1. ~hit(h)
      BY <1>8, <2>3, <2>6
    <3>2. expected'[c][h].count = es[h].count /\ seen'[c][h] = seen[c][h]
      BY <1>4, <1>5, <2>6, <2>a, <3>1
    <3> QED
      BY <1>1, <2>4, <3>2 DEF Agree
  <2> QED
    BY <2>5, <2>6
<1>11. CountsAnswer'
  <2>1. ASSUME NEW d \in Cases, d # c
        PROVE  expected'[d] = expected[d] /\ seen'[d] = seen[d]
    BY <1>4, <1>5, <2>1
  <2>2. DOMAIN expected'[c] = DOMAIN es
    BY <1>4
  <2> QED
    BY <1>1, <1>10, <2>1, <2>2 DEF CountOK, CountsAnswer, Agree
<1> QED
  BY <1>9, <1>11 DEF CountOK

(* A count that goes into the freed block is lost, of a case whose array    *)
(* has moved.                                                               *)
LEMMA LogHookMiscountCounts ==
  ASSUME IInv, ScanOK, CountOK, NEW t \in Threads, LogHookMiscount(t)
  PROVE  CountOK'
<1>b. HookCase(t) \in Cases
  BY DEF IInv, FoundOK, HookCase, LogHookMiscount, At
<1>c. PICK c \in Cases : c = HookCase(t)
  BY <1>b
<1> DEFINE m == call[t].msg
           hit(h) == expected[c][h].ready /\ Matches(m, expected[c][h].pattern)
<1>1. /\ expected' = expected /\ moved' = moved /\ SawMessage(c, m)
      /\ pc[t] = "count" /\ call[t].stale
  BY <1>c DEF LogHookMiscount, At, caseVars
<1>2. c \in Cases /\ c \in moved
  <2>1. Pushed /\ cur \in moved
    BY <1>1 DEF ScanOK, ScanOf
  <2>2. Len(hooks) = 2 /\ hooks[1] = cur /\ hooks[2] = NoCase
    BY <2>1, Zenon DEF IInv, HooksOK
  <2>3. cursor[t] \in Nat /\ cursor[t] > 0 /\ cursor[t] <= Len(hooks) /\ c \in Cases
    BY <1>1 DEF IInv, TypeOK, FoundOK, HookCase
  <2>4. cursor[t] = 1
    <3>1. cursor[t] \in {1, 2}
      BY <2>2, <2>3
    <3> QED
      BY <1>c, <2>2, <2>3, <3>1, ThreadAssumption DEF HookCase
  <2> QED
    BY <1>c, <2>1, <2>2, <2>3, <2>4 DEF HookCase
<1>3. /\ seen \in [Cases -> Seq(Nat)] /\ seen[c] \in Seq(Nat)
      /\ DOMAIN seen[c] = DOMAIN expected[c] /\ expected[c] \in Seq(Expectation)
  BY <1>2 DEF IInv, TypeOK, CountOK
<1>4. /\ seen'[c] = [h \in DOMAIN seen[c] |-> IF hit(h) THEN seen[c][h] + 1 ELSE seen[c][h]]
      /\ \A d \in Cases : d # c => seen'[d] = seen[d]
  BY <1>1, <1>2, <1>3 DEF SawMessage
<1>5. ASSUME NEW h \in DOMAIN expected[c], Agree(c, h) PROVE Agree(c, h)'
  <2>0. h \in DOMAIN seen[c] /\ expected[c][h] \in Expectation
    BY <1>3, ElementOfSeq
  <2>1. seen[c][h] \in Nat /\ expected[c][h].count \in Nat
    BY <1>3, <2>0, ElementOfSeq DEF Expectation
  <2>2. seen'[c][h] = seen[c][h] \/ seen'[c][h] = seen[c][h] + 1
    BY <1>3, <1>4
  <2>3. expected'[c][h].count <= seen'[c][h]
    BY <1>1, <1>5, <2>1, <2>2 DEF Agree
  <2> QED
    BY <1>1, <1>2, <2>3 DEF Agree
<1>6. \A d \in Cases : DOMAIN seen'[d] = DOMAIN expected'[d]
  BY <1>1, <1>3, <1>4 DEF CountOK
<1>7. ASSUME NEW d \in Cases, NEW h \in DOMAIN expected[d],
             \A g \in 1..(h - 1) : Disjoint(expected[d][g].pattern, expected[d][h].pattern)
      PROVE  Agree(d, h)'
  <2>1. Agree(d, h)
    BY <1>7, Counted
  <2>2. CASE d = c
    BY <1>5, <1>7, <2>1, <2>2
  <2>3. CASE d # c
    BY <1>1, <1>4, <2>1, <2>3 DEF Agree
  <2> QED
    BY <2>2, <2>3
<1>8. CountsAnswer'
  BY <1>1, <1>7 DEF CountsAnswer, Agree
<1> QED
  BY <1>6, <1>8 DEF CountOK

(* The other steps that concern expectations are those of their case's own  *)
(* body, and its end.                                                       *)
LEMMA ExpectCounts ==
  ASSUME IInv, CountOK, NEW p \in Patterns, Expect(p)
  PROVE  CountOK'
<1> DEFINE es == expected[cur]
           e == [pattern |-> p, ready |-> FALSE, count |-> 0]
<1>1. /\ expected' = [expected EXCEPT ![cur] = Append(es, e)]
      /\ seen' = [seen EXCEPT ![cur] = Append(seen[cur], 0)]
      /\ moved \subseteq moved'
  BY DEF Expect
<1>2. /\ expected \in [Cases -> Seq(Expectation)] /\ seen \in [Cases -> Seq(Nat)]
      /\ cur \in Cases
  BY DEF IInv, TypeOK, CaseOK, Expect, At
<1>3. /\ expected'[cur] = Append(es, e) /\ seen'[cur] = Append(seen[cur], 0)
      /\ \A d \in Cases : d # cur => expected'[d] = expected[d] /\ seen'[d] = seen[d]
  BY <1>1, <1>2
<1>4. /\ es \in Seq(Expectation) /\ seen[cur] \in Seq(Nat) /\ Len(es) \in Nat
      /\ DOMAIN es = 1..Len(es) /\ Len(seen[cur]) = Len(es)
  BY <1>2, LenProperties DEF CountOK
<1> HIDE DEF e
<1>5. /\ DOMAIN expected'[cur] = 1..(Len(es) + 1) /\ DOMAIN seen'[cur] = 1..(Len(es) + 1)
      /\ \A h \in 1..Len(es) : expected'[cur][h] = es[h] /\ seen'[cur][h] = seen[cur][h]
      /\ expected'[cur][Len(es) + 1] = e /\ seen'[cur][Len(es) + 1] = 0
  BY <1>3, <1>4
<1>6. ASSUME NEW h \in 1..(Len(es) + 1),
             \A g \in 1..(h - 1) : Disjoint(expected'[cur][g].pattern, expected'[cur][h].pattern)
      PROVE  Agree(cur, h)'
  <2>0. cur' = cur
    BY DEF Expect
  <2>1. CASE h = Len(es) + 1
    BY <1>5, <2>0, <2>1 DEF e, Agree
  <2>2. CASE h # Len(es) + 1
    <3>1. h \in DOMAIN es /\ \A g \in 1..(h - 1) : g \in 1..Len(es)
      BY <1>4, <2>2
    <3>2. \A g \in 1..(h - 1) : Disjoint(es[g].pattern, es[h].pattern)
      BY <1>4, <1>5, <1>6, <3>1
    <3>3. Agree(cur, h)
      BY <1>2, <3>1, <3>2, Counted
    <3> QED
      BY <1>1, <1>4, <1>5, <2>0, <3>1, <3>3 DEF Agree
  <2> QED
    BY <2>1, <2>2
<1>7. ASSUME NEW d \in Cases, d # cur, NEW h \in DOMAIN expected'[d],
             \A g \in 1..(h - 1) : Disjoint(expected'[d][g].pattern, expected'[d][h].pattern)
      PROVE  Agree(d, h)'
  <2>1. Agree(d, h)
    BY <1>3, <1>7, Counted
  <2> QED
    BY <1>1, <1>3, <1>7, <2>1 DEF Agree
<1>8. \A d \in Cases : DOMAIN seen'[d] = DOMAIN expected'[d]
  BY <1>3, <1>5 DEF CountOK
<1>9. cur' = cur
  BY DEF Expect
<1>10. CountsAnswer'
  BY <1>5, <1>6, <1>7, <1>9 DEF CountsAnswer, Agree
<1> QED
  BY <1>8, <1>10 DEF CountOK

LEMMA FillCounts ==
  ASSUME IInv, CountOK, FillExpectation
  PROVE  CountOK'
<1> DEFINE es == expected[cur]
           k == Len(es)
           e == [es[k] EXCEPT !.ready = TRUE]
<1>1. expected' = [expected EXCEPT ![cur] = [es EXCEPT ![k].ready = TRUE]] /\ seen' = seen
      /\ moved' = moved /\ cur' = cur
  BY DEF FillExpectation, history
<1>2. /\ expected \in [Cases -> Seq(Expectation)] /\ cur \in Cases
  BY DEF IInv, TypeOK, CaseOK, FillExpectation, At
<1>3. /\ expected'[cur] = [es EXCEPT ![k] = e]
      /\ \A d \in Cases : d # cur => expected'[d] = expected[d]
  BY <1>1, <1>2
<1>4. \A h \in DOMAIN es : es[h] \in Expectation
  BY <1>2
<1>5. k \in DOMAIN es => e.pattern = es[k].pattern /\ e.count = es[k].count
  BY <1>4 DEF Expectation
<1> HIDE DEF e, k
<1>6. /\ DOMAIN expected'[cur] = DOMAIN es
      /\ \A h \in DOMAIN es : /\ expected'[cur][h].pattern = es[h].pattern
                              /\ expected'[cur][h].count = es[h].count
  BY <1>3, <1>5
<1>7. ASSUME NEW h \in DOMAIN es,
             \A g \in 1..(h - 1) : Disjoint(expected'[cur][g].pattern, expected'[cur][h].pattern)
      PROVE  Agree(cur, h)'
  <2>1. \A g \in 1..(h - 1) : g \in DOMAIN es
    <3>1. DOMAIN es = 1..Len(es) /\ Len(es) \in Nat
      BY <1>2
    <3> QED
      BY <3>1
  <2>2. \A g \in 1..(h - 1) : Disjoint(es[g].pattern, es[h].pattern)
    BY <1>6, <1>7, <2>1
  <2>3. Agree(cur, h)
    BY <1>2, <2>2, Counted
  <2> QED
    BY <1>1, <1>6, <2>3 DEF Agree
<1>8. ASSUME NEW d \in Cases, d # cur, NEW h \in DOMAIN expected'[d],
             \A g \in 1..(h - 1) : Disjoint(expected'[d][g].pattern, expected'[d][h].pattern)
      PROVE  Agree(d, h)'
  <2>1. Agree(d, h)
    BY <1>3, <1>8, Counted
  <2> QED
    BY <1>1, <1>3, <1>8, <2>1 DEF Agree
<1>9. \A d \in Cases : DOMAIN seen'[d] = DOMAIN expected'[d]
  BY <1>1, <1>3, <1>6 DEF CountOK
<1> HIDE DEF es
<1>10. CountsAnswer'
  BY <1>1, <1>6, <1>7, <1>8 DEF CountsAnswer, Agree
<1> QED
  BY <1>9, <1>10 DEF CountOK

LEMMA ExpectCountCounts ==
  ASSUME IInv, CountOK, NEW k \in 1..MaxExpect, ExpectCount(k)
  PROVE  CountOK'
<1> DEFINE es == expected[cur]
           e == [es[k] EXCEPT !.count = 0]
<1>1. /\ expected' = [expected EXCEPT ![cur] = [es EXCEPT ![k].count = 0]]
      /\ seen' = [seen EXCEPT ![cur] = [seen[cur] EXCEPT ![k] = 0]]
      /\ k \in DOMAIN es /\ moved' = moved /\ cur' = cur
  BY DEF ExpectCount
<1>2. /\ expected \in [Cases -> Seq(Expectation)] /\ seen \in [Cases -> Seq(Nat)]
      /\ cur \in Cases
  BY DEF IInv, TypeOK, CaseOK, ExpectCount, At
<1>3. /\ expected'[cur] = [es EXCEPT ![k] = e]
      /\ seen'[cur] = [seen[cur] EXCEPT ![k] = 0]
      /\ \A d \in Cases : d # cur => expected'[d] = expected[d] /\ seen'[d] = seen[d]
  BY <1>1, <1>2
<1>4. \A h \in DOMAIN es : es[h] \in Expectation
  BY <1>2
<1>5. e.pattern = es[k].pattern /\ e.count = 0
  BY <1>1, <1>4 DEF Expectation
<1> HIDE DEF e
<1>6. /\ DOMAIN expected'[cur] = DOMAIN es /\ DOMAIN seen'[cur] = DOMAIN es
      /\ \A h \in DOMAIN es : /\ expected'[cur][h].pattern = es[h].pattern
                              /\ h # k => /\ expected'[cur][h].count = es[h].count
                                          /\ seen'[cur][h] = seen[cur][h]
      /\ expected'[cur][k].count = 0 /\ seen'[cur][k] = 0
  BY <1>1, <1>2, <1>3, <1>5 DEF CountOK
<1>7. ASSUME NEW h \in DOMAIN es,
             \A g \in 1..(h - 1) : Disjoint(expected'[cur][g].pattern, expected'[cur][h].pattern)
      PROVE  Agree(cur, h)'
  <2>1. \A g \in 1..(h - 1) : g \in DOMAIN es
    <3>1. DOMAIN es = 1..Len(es) /\ Len(es) \in Nat
      BY <1>2
    <3> QED
      BY <3>1
  <2>2. \A g \in 1..(h - 1) : Disjoint(es[g].pattern, es[h].pattern)
    BY <1>6, <1>7, <2>1
  <2>3. Agree(cur, h)
    BY <1>2, <2>2, Counted
  <2> QED
    BY <1>1, <1>6, <2>3 DEF Agree
<1>8. \A d \in Cases : DOMAIN seen'[d] = DOMAIN expected'[d]
  BY <1>3, <1>6 DEF CountOK
<1>9. CountsAnswer'
  <2>1. ASSUME NEW d \in Cases, d # cur
        PROVE  expected'[d] = expected[d] /\ seen'[d] = seen[d]
    BY <1>3, <2>1
  <2>2. DOMAIN expected'[cur] = DOMAIN es
    BY <1>6
  <2> HIDE DEF es
  <2> QED
    BY <1>1, <1>7, <2>1, <2>2 DEF CountOK, CountsAnswer, Agree
<1> QED
  BY <1>8, <1>9 DEF CountOK

LEMMA DisposeCounts ==
  ASSUME IInv, CountOK, Dispose
  PROVE  CountOK'
<1>1. /\ expected' = [expected EXCEPT ![cur] = <<>>]
      /\ seen' = [seen EXCEPT ![cur] = <<>>] /\ moved' = moved
  BY DEF Dispose
<1>2. /\ expected \in [Cases -> Seq(Expectation)] /\ seen \in [Cases -> Seq(Nat)]
      /\ cur \in Cases
  BY DEF IInv, TypeOK, CaseOK, Dispose, At
<1>3. /\ expected'[cur] = <<>> /\ seen'[cur] = <<>> /\ DOMAIN <<>> = {}
      /\ \A d \in Cases : d # cur => expected'[d] = expected[d] /\ seen'[d] = seen[d]
  BY <1>1, <1>2
<1> QED
  BY <1>1, <1>3 DEF CountOK, CountsAnswer

LEMMA Uncounted ==
  ASSUME UNCHANGED <<expected, seen, moved>>, CountOK
  PROVE  CountOK'
BY DEF CountOK, CountsAnswer

LEMMA NextCounts ==
  ASSUME IInv, ScanOK, CountOK, [Next]_vars
  PROVE  CountOK'
<1> DEFINE Still == UNCHANGED <<expected, seen, moved>>
<1>0. ASSUME NEW how, EndProcess(how)
      PROVE  Still
  BY <1>0 DEF EndProcess, caseVars, history
<1>1. CASE RunStep
  <2>1. Still \/ Dispose
    BY <1>0, <1>1 DEF RunStep, Begin, Push, Exec, ReadVerdict, FreeContext, Pop,
       caseVars, history
  <2> QED
    BY <2>1, Uncounted, DisposeCounts
<1>2. CASE BodyStep
  <2>1. \/ Still \/ FillExpectation
        \/ \E p \in Patterns : Expect(p)
        \/ \E h \in 1..MaxExpect : ExpectCount(h)
    BY <1>0, <1>2 DEF BodyStep, BodyReturn, BodyLog, AssertFail, SkipReached,
       AssertLeave, SkipLeave, Leave, caseVars, history
  <2> QED
    BY <2>1, Uncounted, FillCounts, ExpectCounts, ExpectCountCounts
<1>3. ASSUME NEW t \in Threads, LogStep(t)
      PROVE  CountOK'
  <2>1. ASSUME NEW i \in 1..MaxExpect, LogHookFind(t, i) PROVE Still
    BY <2>1 DEF LogHookFind, caseVars, history
  <2>2. \/ Still \/ LogHookCount(t) \/ LogHookMiscount(t)
        \/ \E i \in 1..MaxExpect : LogHookFind(t, i)
    BY <1>0, <1>3 DEF LogStep, LockHooks, Verbosity, VerbosityAssert, LogHookCrash,
       LogHookClobber, LogHookPass, LogHookFail, MarkMessage, MarkFailed, EndScan,
       Handled, Emit, ReturnFromLog, Unwind, Preempt, caseVars, history
  <2> QED
    BY <2>1, <2>2, Uncounted, LogHookCountCounts, LogHookMiscountCounts
<1>4. ASSUME NEW t \in Workers, NEW m \in WorkerMessages, WorkerLog(t, m)
      PROVE  CountOK'
  BY <1>4, Uncounted DEF WorkerLog, caseVars, history
<1>5. CASE UNCHANGED vars
  BY <1>5, Uncounted DEF vars, caseVars, history
<1>6. CASE DestroyStep
  BY <1>0, <1>6, Uncounted DEF DestroyStep, DestroyAssert, DestroyLog, caseVars, history
<1> QED
  BY <1>1, <1>2, <1>3, <1>4, <1>5, <1>6 DEF Next, Stop

(* Whatever messages the body and any number of workers log, the count of   *)
(* an expectation is of the messages that satisfied it since it was last    *)
(* asked for, if no earlier one of the case can take them and the array of  *)
(* the case's expectations never moved under log_hook(); if it did, some    *)
(* may be missing from the count, but none is in it that was not logged     *)
(* (run-init.c:20-39, expect.c:33-71).                                      *)
THEOREM CountsRight == Spec => []CountsAnswer
<1>1. Init => CountOK
  BY DEF Init, CountOK, CountsAnswer
<1>2. CountOK => CountsAnswer
  BY DEF CountOK
<1> QED
  BY <1>1, <1>2, NextCounts, ScanStands, Invariance, PTL DEF Spec

-----------------------------------------------------------------------------
(* A program whose other threads log calmly.                                *)

(* Only the body's own messages can fail it: those of the library are no    *)
(* warnings, and the target's destructor runs with log_hook off the stack.  *)
(* The main thread, which alone expects messages, is never in the scan when *)
(* the array moves.                                                         *)
CallOK ==
  pc[Main] \in InLog =>
    /\ call[Main].back = "body" => call[Main].msg.via = "log"
    /\ call[Main].back \notin {"body", "dispose"} => call[Main].msg.level = "info"
    /\ call[Main].msg.level # "custom" /\ ~call[Main].stale
    /\ pc[Main] \in {"mark", "fail", "unwind", "preempt"} => call[Main].back = "body"
    /\ pc[Main] \in {"mark", "fail"} => call[Main].charged = ctx.owner

(* Nothing is charged to a context before the body leaves. *)
Uncharged == Home \in InBody /\ ~Warned => ~ctx.message

(* An element that is not filled is the one just added. *)
ReadyOK ==
  \A c \in Cases : \A i \in DOMAIN expected[c] :
    expected[c][i].ready \/ (pc[Main] = "fill" /\ c = cur /\ i = Len(expected[c]))

MainOK == NoInternalFailure /\ CallOK /\ Uncharged /\ ReadyOK

(* A message that neither hook stops at: not of a level of the program's    *)
(* own, not a warning that would fail the test, and not one that the        *)
(* expectations of the test are searched for.                               *)
CalmMessage(m) ==
  /\ m.level # "custom"
  /\ m.level \in Grave => FatalOnArrival(m)
  /\ m.domain = "none" \/ Patterns = {}

(* Bodies log with g_log(), and like the destructors of their targets at    *)
(* GLib's own levels; those assert nothing; the other threads, if any, log  *)
(* only calm messages; and GTU_DEBUG does not ask for fatal-asserts.        *)
Calm ==
  /\ \A m \in WorkerMessages : CalmMessage(m)
  /\ \A m \in BodyMessages : m.via = "log" /\ m.level # "custom"
  /\ \A m \in DestroyMessages : m.level # "custom"
  /\ ~DestroyAsserts /\ ~FatalAsserts

(* A worker's message stays calm on its way, and the worker never comes to  *)
(* the places a message that fails the test leads to.                       *)
WorkersCalm ==
  \A t \in Workers : pc[t] \in InLog =>
    /\ pc[t] \in {"lock", "hook", "handled", "emit"}
    /\ call[t].msg.level \in Grave => call[t].fatal
    /\ call[t].msg.domain = "none" \/ Patterns = {}
    /\ call[t].msg.level # "custom" /\ ~call[t].stale

(* Where nothing can be expected, nothing is. *)
Unexpecting == Patterns = {} => \A c \in Cases : expected[c] = <<>>

CalmOK == MainOK /\ WorkersCalm /\ Unexpecting

(* The end of the process that such a program may come to. *)
LEMMA EndMain ==
  ASSUME MainOK, NEW how \in {"trapped", "bailed"}, EndProcess(how)
  PROVE  MainOK'
BY DEF MainOK, EndProcess, NoInternalFailure, CallOK, Uncharged, ReadyOK, Home, Thrown, Warned,
   threadVars, caseVars

(* A step that leaves the context and the expectations alone, at places     *)
(* from where no failure is on its way.                                     *)
LEMMA PlainMain ==
  ASSUME IInv, MainOK, UNCHANGED <<ctx, expected, proc>>,
         pc[Main] # "fill", pc'[Main] \notin {"mark", "fail", "unwind", "preempt"}, ~Warned,
         Home' \in InBody => Home \in InBody,
         CallOK'
  PROVE  MainOK'
<1>1. Uncharged'
  BY DEF MainOK, Uncharged, Thrown, Warned
<1>2. ReadyOK'
  BY DEF MainOK, ReadyOK
<1>3. NoInternalFailure'
  BY DEF MainOK, NoInternalFailure
<1> QED
  BY <1>1, <1>2, <1>3 DEF MainOK

(* The main thread between two places outside g_log(). *)
LEMMA MoveMain ==
  ASSUME IInv, MainOK, UNCHANGED <<call, ctx, expected, proc>>,
         pc[Main] \notin InLog, pc[Main] # "fill",
         NEW place \in MainUser, pc' = [pc EXCEPT ![Main] = place],
         place \in InBody => pc[Main] \in InBody
  PROVE  MainOK'
<1>1. Main \in Threads /\ pc \in [Threads -> MainUser \cup InLog \cup {"user"}]
  BY DEF IInv, TypeOK, Threads
<1>2. pc'[Main] = place /\ place \notin InLog
  BY <1>1 DEF MainUser, InLog, InGLib, Locked
<1>3. Home = pc[Main] /\ Home' = place /\ ~Warned /\ CallOK'
  BY <1>2 DEF Home, Thrown, Warned, CallOK, InLog, InGLib, Locked
<1> QED
  BY <1>2, <1>3, PlainMain DEF InLog, InGLib, Locked

(* Entering g_log(). *)
LEMMA EnterMain ==
  ASSUME IInv, MainOK, UNCHANGED expected,
         pc[Main] \in {"push", "reap", "body", "dispose"},
         NEW m \in Message, m.level # "custom",
         NEW back \in {"exec", "body", "pop", "dispose"},
         back = "body" => m.via = "log",
         back \notin {"body", "dispose"} => m.level = "info",
         back = "body" => pc[Main] = "body" /\ ctx' = ctx,
         EnterLog(Main, m, back)
  PROVE  MainOK'
<1>1. Main \in Threads /\ pc \in [Threads -> MainUser \cup InLog \cup {"user"}]
      /\ call \in [Threads -> Call]
  BY DEF IInv, TypeOK, Threads
<1>2. /\ call' = [call EXCEPT ![Main] = NewCall(m, back)]
      /\ pc' = [pc EXCEPT ![Main] = "lock"] /\ proc' = proc
  BY <1>1, EnterLogStep DEF InGLib, Locked
<1>3. /\ pc'[Main] = "lock" /\ call'[Main].msg = m /\ call'[Main].back = back
      /\ ~call'[Main].stale
  BY <1>1, <1>2 DEF NewCall
<1>4. Home' = back /\ Home = pc[Main]
  BY <1>3 DEF Home, InLog, InGLib, Locked
<1>5. CallOK'
  BY <1>3 DEF CallOK
<1>6. Uncharged'
  BY <1>4 DEF MainOK, Uncharged, Thrown, Warned, InBody
<1>7. ReadyOK'
  BY <1>1 DEF MainOK, ReadyOK
<1>8. NoInternalFailure'
  BY <1>2 DEF MainOK, NoInternalFailure
<1> QED
  BY <1>5, <1>6, <1>7, <1>8 DEF MainOK

LEMMA AnnouncementIs == Announcement \in Message /\ Announcement.via = "log" /\ Announcement.level = "info"
BY AnnouncementType DEF Announcement

(* A scan, and the return from the handlers, when the message fails nobody. *)
LEMMA QuietMain ==
  ASSUME IInv, MainOK, UNCHANGED <<ctx, expected, proc>>,
         pc[Main] \in InGLib \ {"mark", "fail", "unwind"},
         \/ pc'[Main] \in {"hook", "count", "handled", "emit"}
         \/ pc'[Main] = call[Main].back,
         call'[Main].msg = call[Main].msg, call'[Main].back = call[Main].back,
         call'[Main].stale => call[Main].stale
  PROVE  MainOK'
<1>1. call[Main].back \in {"exec", "body", "pop", "dispose"}
  BY DEF IInv, PlacesOK, InLog
<1>2. Home' = Home /\ ~Warned
  BY <1>1 DEF Home, Thrown, Warned, InLog, InGLib, Locked
<1>3. CallOK'
  BY <1>1 DEF MainOK, CallOK, InLog, InGLib, Locked
<1> QED
  BY <1>1, <1>2, <1>3, PlainMain DEF InLog, InGLib, Locked

(* Where a scan stands at a log_hook it is that of the current case. *)
LEMMA StandsAtCur ==
  ASSUME IInv, NEW k \in Nat, k > 0, k <= Len(hooks), hooks[k] \in Cases
  PROVE  Pushed /\ hooks[k] = cur
<1>1. CASE Pushed
  <2>1. Len(hooks) = 2 /\ hooks[1] = cur /\ hooks[2] = NoCase
    BY <1>1, Zenon DEF IInv, HooksOK
  <2>2. k = 1 \/ k = 2
    BY <2>1
  <2> QED
    BY <1>1, <2>1, <2>2, ThreadAssumption
<1>2. CASE ~Pushed
  <2>1. Len(hooks) = 1 /\ hooks[1] = NoCase
    BY <1>2, Zenon DEF IInv, HooksOK
  <2>2. k = 1
    BY <2>1
  <2> QED
    BY <2>1, <2>2, ThreadAssumption
<1> QED
  BY <1>1, <1>2

LEMMA LogMain ==
  ASSUME IInv, MainOK, NEW t \in Threads, t = Main, LogStep(t)
  PROVE  MainOK'
<1>0. /\ t = Main /\ Main \in Threads
      /\ pc \in [Threads -> MainUser \cup InLog \cup {"user"}]
      /\ call \in [Threads -> Call]
  BY DEF Threads, IInv, TypeOK
<1>1. ASSUME pc[Main] \in {"lock", "hook", "handled", "emit"},
             NEW place \in {"hook", "count", "handled", "emit", call[Main].back},
             pc' = [pc EXCEPT ![Main] = place], UNCHANGED <<ctx, expected, proc>>,
             call'[Main].msg = call[Main].msg, call'[Main].back = call[Main].back,
             call'[Main].stale => call[Main].stale
      PROVE  MainOK'
  <2>1. pc'[Main] = place
    BY <1>0, <1>1
  <2> QED
    BY <1>1, <2>1, QuietMain DEF InGLib, Locked
<1>2. CASE LockHooks(t) \/ EndScan(t)
  BY <1>0, <1>1, <1>2 DEF LockHooks, EndScan, At, Goto, caseVars, IInv, TypeOK
<1>4. CASE Verbosity(t)
  <2>1. /\ pc[Main] = "hook" /\ UNCHANGED <<ctx, expected, proc>>
        /\ \/ pc' = [pc EXCEPT ![Main] = "handled"]
           \/ pc' = [pc EXCEPT ![Main] = "hook"]
    BY <1>0, <1>4 DEF Verbosity, AtVerbosity, NextHook, StopScan, Goto, At, caseVars,
       IInv, TypeOK
  <2>2. /\ call'[Main].msg = call[Main].msg /\ call'[Main].back = call[Main].back
        /\ call'[Main].stale = call[Main].stale
    <3> DEFINE f == VerbosityFatal(call[t].msg, call[t].fatal)
    <3>1. call' = [call EXCEPT ![t] = [call[t] EXCEPT !.fatal = f]]
      BY <1>4 DEF Verbosity
    <3> HIDE DEF f
    <3> QED
      BY <1>0, <3>1 DEF Call
  <2> QED
    BY <1>1, <2>1, <2>2
<1>a. ~VerbosityAssert(t)
  BY <1>0 DEF VerbosityAssert, AtVerbosity, Unreached, At, MainOK, CallOK, InLog,
     InGLib, Locked
<1>b. ~LogHookMiscount(t) /\ ~LogHookClobber(t)
  BY <1>0 DEF LogHookMiscount, LogHookClobber, At, MainOK, CallOK, InLog, InGLib, Locked
<1>5. CASE LogHookPass(t)
  <2>1. /\ pc[Main] = "hook" /\ UNCHANGED <<ctx, expected, proc, call>>
        /\ pc' = [pc EXCEPT ![Main] = "hook"]
    BY <1>0, <1>5 DEF LogHookPass, AtLogHook, NextHook, At, caseVars, IInv, TypeOK
  <2> QED
    BY <1>1, <2>1
(* At a log_hook the scan stands at that of the current case. *)
<1>6. AtLogHook(t) => /\ HookCase(t) \in Cases /\ HookCase(t) = cur /\ Pushed
                      /\ ~disposed[cur] /\ pc[Main] = "hook" /\ ~call[t].stale
                      /\ \A i \in DOMAIN expected[cur] : expected[cur][i].ready
  <2> SUFFICES ASSUME AtLogHook(t)
               PROVE  /\ HookCase(t) \in Cases /\ HookCase(t) = cur /\ Pushed
                      /\ ~disposed[cur] /\ pc[Main] = "hook" /\ ~call[t].stale
                      /\ \A i \in DOMAIN expected[cur] : expected[cur][i].ready
    OBVIOUS
  <2>1. /\ pc[Main] = "hook" /\ cursor[Main] <= Len(hooks) /\ hooks[cursor[Main]] \in Cases
        /\ HookCase(t) = hooks[cursor[Main]]
    BY <1>0 DEF AtLogHook, HookCase, At
  <2>2. cursor[Main] \in Nat /\ cursor[Main] > 0
    BY <1>0, <2>1 DEF IInv, TypeOK, FoundOK
  <2>3. Pushed /\ hooks[cursor[Main]] = cur
    BY <2>1, <2>2, StandsAtCur
  <2>4. \A i \in DOMAIN expected[cur] : expected[cur][i].ready
    BY <2>1, <2>3 DEF MainOK, ReadyOK
  <2>5. ~call[t].stale
    BY <1>0, <2>1 DEF MainOK, CallOK, InLog, InGLib, Locked
  <2> QED
    BY <2>1, <2>3, <2>4, <2>5 DEF IInv, CaseOK
<1>7. CASE LogHookCrash(t)
  <2>1. AtLogHook(t) /\ ~disposed[HookCase(t)] /\ ~call[t].stale
    BY <1>6, <1>7 DEF LogHookCrash
  <2>2. PICK i \in DOMAIN expected[HookCase(t)] : ~expected[HookCase(t)][i].ready
    BY <1>7, <2>1 DEF LogHookCrash
  <2> QED
    BY <1>6, <2>1, <2>2
<1>c. ASSUME NEW i \in 1..MaxExpect, LogHookFind(t, i)
      PROVE  MainOK'
  <2>1. PICK still \in {FALSE, call[t].stale} :
          call' = [call EXCEPT ![t] = [call[t] EXCEPT !.element = i, !.stale = still]]
    BY <1>c DEF LogHookFind
  <2>2. /\ pc[Main] = "hook" /\ pc' = [pc EXCEPT ![Main] = "count"]
        /\ UNCHANGED <<ctx, expected, proc>>
    BY <1>0, <1>c DEF LogHookFind, AtLogHook, At, Goto, caseVars
  <2>3. /\ call'[Main].msg = call[Main].msg /\ call'[Main].back = call[Main].back
        /\ call'[Main].stale => call[Main].stale
    <3>1. call[Main] \in Call
      BY <1>0
    <3>2. call'[Main] = [call[Main] EXCEPT !.element = i, !.stale = still]
      BY <1>0, <2>1
    <3>3. call'[Main].stale = still
      BY <3>1, <3>2 DEF Call
    <3>4. call'[Main].msg = call[Main].msg /\ call'[Main].back = call[Main].back
      BY <3>1, <3>2 DEF Call
    <3> QED
      BY <1>0, <2>1, <3>3, <3>4
  <2> QED
    BY <1>1, <2>2, <2>3
<1>8. CASE LogHookCount(t)
  <2> DEFINE i == call[t].element
  <2>b. HookCase(t) \in Cases /\ i \in DOMAIN expected[HookCase(t)]
    BY <1>8 DEF IInv, FoundOK, HookCase, LogHookCount, At
  <2>c. PICK c \in Cases : c = HookCase(t)
    BY <2>b
  <2> DEFINE es == expected[c]
             new == [es[i] EXCEPT !.count = @ + 1]
  <2>1. /\ expected' = [expected EXCEPT ![c] = [es EXCEPT ![i] = new]]
        /\ pc' = [pc EXCEPT ![Main] = "handled"] /\ pc[Main] = "count"
        /\ UNCHANGED <<call, ctx, cur, proc>>
    BY <1>0, <1>8, <2>c DEF LogHookCount, StopScan, Goto, At
  <2>2. expected \in [Cases -> Seq(Expectation)] /\ i \in DOMAIN es
    BY <2>b, <2>c DEF IInv, TypeOK
  <2>3. expected'[c] = [es EXCEPT ![i] = new] /\ \A d \in Cases : d # c => expected'[d] = expected[d]
    BY <2>1, <2>2
  <2>4. es[i] \in Expectation
    BY <2>2, ElementOfSeq
  <2>5. new.ready = es[i].ready
    BY <2>4 DEF Expectation
  <2> HIDE DEF i, new
  <2>6. \A d \in Cases : \A h \in DOMAIN expected[d] : expected[d][h].ready
    BY <2>1 DEF MainOK, ReadyOK
  <2>7. \A h \in DOMAIN expected'[c] : expected'[c][h].ready
    BY <2>2, <2>3, <2>5, <2>6
  <2>8. ReadyOK'
    BY <2>3, <2>6, <2>7 DEF ReadyOK
  <2>9. pc'[Main] = "handled"
    BY <1>0, <2>1
  <2>10. CallOK'
    BY <2>1, <2>9 DEF MainOK, CallOK, InLog, InGLib, Locked
  <2>11. Home' = Home /\ ~Warned
    BY <2>1, <2>9 DEF Home, Thrown, Warned, InLog, InGLib, Locked
  <2>12. Uncharged' /\ NoInternalFailure'
    BY <2>1, <2>11 DEF MainOK, Uncharged, NoInternalFailure
  <2> QED
    BY <2>8, <2>10, <2>12 DEF MainOK
<1>9. CASE LogHookFail(t)
  <2> DEFINE o == ctx.owner
  <2>1. AtLogHook(t) /\ call[Main].msg.level \in Grave /\ pc[Main] = "hook" /\ Pushed
    BY <1>0, <1>6, <1>9 DEF LogHookFail, UnmatchedAction
  <2>2. call[Main].back = "body"
    <3>1. call[Main].back \in {"body", "dispose"}
      BY <2>1 DEF MainOK, CallOK, InLog, InGLib, Locked, Grave
    <3>2. call[Main].back # "dispose"
      BY <2>1 DEF Pushed, Home, InLog, InGLib, Locked
    <3> QED
      BY <3>1, <3>2
  <2>3. Home = "body" /\ ~Warned
    BY <2>1, <2>2 DEF Home, Thrown, Warned, InLog, InGLib, Locked
  <2>4. ctx.owner = cur /\ ~ctx.message
    BY <2>3 DEF IInv, ContextOK, MainOK, Uncharged, InBody
  <2>5. cur \in Cases
    BY <1>6, <2>1
  <2>6. /\ pc' = [pc EXCEPT ![Main] = "mark"]
        /\ call' = [call EXCEPT ![Main] = [call[Main] EXCEPT !.charged = o]]
        /\ UNCHANGED <<ctx, cur, expected, proc>>
    BY <1>0, <1>9, <2>4, <2>5, ThreadAssumption DEF LogHookFail, Goto, caseVars
  <2> HIDE DEF o
  <2>7. /\ pc'[Main] = "mark" /\ call'[Main].charged = o
        /\ call'[Main].msg = call[Main].msg /\ call'[Main].back = call[Main].back
        /\ call'[Main].stale = call[Main].stale
    BY <1>0, <2>6 DEF Call
  <2>8. CallOK'
    BY <2>1, <2>2, <2>6, <2>7 DEF MainOK, CallOK, InLog, InGLib, Locked, o
  <2>9. Home' = Home
    BY <2>2, <2>3, <2>7 DEF Home, InLog, InGLib, Locked
  <2>10. Uncharged' /\ NoInternalFailure'
    BY <2>3, <2>4, <2>6 DEF MainOK, Uncharged, NoInternalFailure
  <2>11. ReadyOK'
    BY <2>1, <2>6 DEF MainOK, ReadyOK
  <2> QED
    BY <2>8, <2>10, <2>11 DEF MainOK
<1>10. CASE MarkMessage(t) \/ MarkFailed(t)
  <2>1. pc[Main] \in {"mark", "fail"} /\ call[Main].charged = ctx.owner
    BY <1>0, <1>10 DEF MarkMessage, MarkFailed, At, MainOK, CallOK, InLog, InGLib, Locked
  <2>2. PICK place \in {"fail", "unwind"} :
          pc' = [pc EXCEPT ![Main] = place] /\ UNCHANGED <<call, cur, expected, proc>>
    BY <1>0, <1>10, <2>1 DEF MarkMessage, MarkFailed, Goto, caseVars
  <2>3. pc'[Main] = place
    BY <1>0, <2>2
  <2>a. ctx'.owner = ctx.owner
    BY <1>0, <1>10, <2>1 DEF MarkMessage, MarkFailed, IInv, TypeOK
  <2>4. CallOK'
    BY <2>1, <2>2, <2>3, <2>a DEF MainOK, CallOK, InLog, InGLib, Locked
  <2>5. Warned'
    BY <2>3 DEF Thrown, Warned
  <2>6. Uncharged' /\ NoInternalFailure'
    BY <2>2, <2>5 DEF MainOK, Uncharged, NoInternalFailure
  <2>7. ReadyOK'
    BY <2>1, <2>2 DEF MainOK, ReadyOK
  <2> QED
    BY <2>4, <2>6, <2>7 DEF MainOK
<1>11. CASE Handled(t) \/ Emit(t)
  <2>1. pc[Main] \in {"handled", "emit"}
    BY <1>0, <1>11 DEF Handled, Emit, At
  <2>2. CASE EndProcess("trapped")
    BY <2>2, EndMain
  <2>3. CASE Goto(t, call[t].back) /\ UNCHANGED <<call, ctx, caseVars, proc>>
    <3>1. call[Main].back \in {"exec", "body", "pop", "dispose"}
      BY <2>1 DEF IInv, PlacesOK, InLog, InGLib
    <3>2. pc' = [pc EXCEPT ![Main] = call[Main].back] /\ UNCHANGED <<ctx, expected, proc, call>>
      BY <1>0, <2>3 DEF Goto, caseVars
    <3> QED
      BY <1>1, <2>1, <3>1, <3>2
  <2> QED
    BY <1>11, <2>2, <2>3 DEF Handled, Emit, ReturnFromLog
<1>12. CASE Unwind(t)
  <2>1. pc[Main] = "unwind" /\ call[Main].msg.via # "structured"
    BY <1>0, <1>12 DEF Unwind, At, MainOK, CallOK, InLog, InGLib, Locked
  <2>2. pc' = [pc EXCEPT ![Main] = "preempt"] /\ UNCHANGED <<call, cur, ctx, expected, proc>>
    BY <1>0, <1>12, <2>1 DEF Unwind, Goto, caseVars
  <2>3. pc'[Main] = "preempt"
    BY <1>0, <2>2
  <2>4. CallOK'
    BY <2>1, <2>2, <2>3 DEF MainOK, CallOK, InLog, InGLib, Locked
  <2>5. Warned'
    BY <2>3 DEF Thrown, Warned
  <2>6. Uncharged' /\ NoInternalFailure'
    BY <2>2, <2>5 DEF MainOK, Uncharged, NoInternalFailure
  <2>7. ReadyOK'
    BY <2>1, <2>2 DEF MainOK, ReadyOK
  <2> QED
    BY <2>4, <2>6, <2>7 DEF MainOK
<1>13. CASE Preempt(t)
  <2>1. pc[Main] = "preempt" /\ Home = "body"
    BY <1>0, <1>13 DEF Preempt, At, MainOK, CallOK, Home, InLog, InGLib, Locked
  <2>2. ctx.owner = cur /\ cur # NoCase
    BY <2>1 DEF IInv, ContextOK, CaseOK
  <2>3. pc' = [pc EXCEPT ![Main] = "unwound"] /\ UNCHANGED <<call, cur, ctx, expected, proc>>
    BY <1>0, <1>13, <2>2 DEF Preempt, Goto, caseVars
  <2>4. pc'[Main] = "unwound" /\ Home' = "unwound"
    BY <1>0, <2>3 DEF Home, InLog, InGLib, Locked
  <2>5. CallOK' /\ Uncharged' /\ NoInternalFailure'
    BY <2>3, <2>4 DEF MainOK, CallOK, Uncharged, NoInternalFailure, InBody,
       InLog, InGLib, Locked
  <2>6. ReadyOK'
    BY <2>1, <2>3 DEF MainOK, ReadyOK
  <2> QED
    BY <2>5, <2>6 DEF MainOK
<1> QED
  BY <1>2, <1>4, <1>5, <1>7, <1>8, <1>9, <1>10, <1>11, <1>12, <1>13, <1>a, <1>b, <1>c
     DEF LogStep

LEMMA RunMain ==
  ASSUME IInv, MainOK, RunStep
  PROVE  MainOK'
<1>0. /\ Main \in Threads /\ pc \in [Threads -> MainUser \cup InLog \cup {"user"}]
      /\ Announcement \in Message /\ Announcement.via = "log" /\ Announcement.level = "info"
  BY AnnouncementIs DEF IInv, TypeOK, Threads
<1>1. ASSUME NEW from \in {"idle", "unwound", "pop"}, pc[Main] = from,
             NEW place \in MainUser \ InBody, pc' = [pc EXCEPT ![Main] = place],
             UNCHANGED <<call, ctx, expected, proc>>
      PROVE  MainOK'
  BY <1>1, MoveMain DEF InLog, InGLib, Locked
<1>2. ASSUME NEW c \in Cases, Begin(c)
      PROVE  MainOK'
  BY <1>1, <1>2 DEF Begin, At, Goto, caseVars, MainUser, InBody
<1>3. CASE Push
  <2>1. /\ pc[Main] = "push" /\ EnterLog(Main, Announcement, "exec")
        /\ UNCHANGED expected
    BY <1>3 DEF Push, At, caseVars
  <2> QED
    BY <1>0, <2>1, EnterMain
<1>4. CASE Exec
  <2>1. /\ pc[Main] = "exec" /\ Home = "exec"
    BY <1>4 DEF Exec, At, Home, InLog, InGLib, Locked
  <2>2. ctx.owner = NoCase
    BY <2>1 DEF IInv, ContextOK
  <2>3. /\ pc' = [pc EXCEPT ![Main] = "body"] /\ ctx' = NewContext(cur)
        /\ UNCHANGED <<expected, proc, cur>>
    BY <1>4, <2>2 DEF Exec, Goto, caseVars
  <2>4. pc'[Main] = "body" /\ ~ctx'.message
    BY <1>0, <2>3 DEF NewContext
  <2>5. CallOK' /\ Uncharged' /\ NoInternalFailure'
    BY <2>3, <2>4 DEF MainOK, CallOK, Uncharged, NoInternalFailure, InLog, InGLib, Locked
  <2>6. ReadyOK'
    BY <2>1, <2>3 DEF MainOK, ReadyOK
  <2> QED
    BY <2>5, <2>6 DEF MainOK
<1>5. CASE ReadVerdict
  BY <1>1, <1>5 DEF ReadVerdict, At, Goto, MainUser, InBody
<1>6. CASE FreeContext
  <2>1. /\ pc[Main] = "reap" /\ EnterLog(Main, Announcement, "pop")
        /\ UNCHANGED expected
    BY <1>6 DEF FreeContext, At, caseVars
  <2> QED
    BY <1>0, <2>1, EnterMain
<1>7. CASE Pop
  BY <1>1, <1>7 DEF Pop, At, Goto, caseVars, MainUser, InBody
<1>8. CASE Dispose
  <2>1. /\ pc[Main] = "dispose" /\ pc' = [pc EXCEPT ![Main] = "idle"]
        /\ expected' = [expected EXCEPT ![cur] = <<>>]
        /\ UNCHANGED <<call, ctx, proc>>
    BY <1>8 DEF Dispose, At, Goto
  <2>2. expected \in [Cases -> Seq(Expectation)]
    BY DEF IInv, TypeOK
  <2>3. pc'[Main] = "idle"
    BY <1>0, <2>1
  <2>4. CallOK' /\ Uncharged' /\ NoInternalFailure'
    BY <2>1, <2>3 DEF MainOK, CallOK, Uncharged, NoInternalFailure, Home, InBody,
       InLog, InGLib, Locked
  <2>5. \A c \in Cases : expected'[c] = <<>> \/ expected'[c] = expected[c]
    BY <2>1, <2>2
  <2>6. ReadyOK'
    <3>1. \A c \in Cases : \A i \in DOMAIN expected[c] : expected[c][i].ready
      BY <2>1 DEF MainOK, ReadyOK
    <3>2. DOMAIN <<>> = {}
      OBVIOUS
    <3>3. \A c \in Cases : \A i \in DOMAIN expected'[c] : expected'[c][i].ready
      BY <2>5, <3>1, <3>2
    <3> QED
      BY <3>3 DEF ReadyOK
  <2> QED
    BY <2>4, <2>6 DEF MainOK
<1> QED
  BY <1>2, <1>3, <1>4, <1>5, <1>6, <1>7, <1>8 DEF RunStep

LEMMA BodyMain ==
  ASSUME IInv, MainOK, Calm, BodyStep
  PROVE  MainOK'
<1>0. /\ Main \in Threads /\ pc \in [Threads -> MainUser \cup InLog \cup {"user"}]
      /\ expected \in [Cases -> Seq(Expectation)]
  BY DEF IInv, TypeOK, Threads
<1>1. ASSUME pc[Main] = "body", NEW place \in MainUser,
             pc' = [pc EXCEPT ![Main] = place],
             UNCHANGED <<call, ctx, expected, proc>>
      PROVE  MainOK'
  BY <1>1, MoveMain DEF InBody, InLog, InGLib, Locked
<1>2. pc[Main] = "body" => ContextChecked
  <2> SUFFICES ASSUME pc[Main] = "body"
               PROVE  ContextChecked
    OBVIOUS
  <2>1. Home = "body" /\ ~Warned
    BY DEF Home, Thrown, Warned, InLog, InGLib, Locked
  <2>2. ctx.owner = cur /\ cur # NoCase /\ ~ctx.message
    BY <2>1 DEF IInv, ContextOK, CaseOK, MainOK, Uncharged, InBody
  <2> QED
    BY <2>2 DEF ContextChecked
<1>3. CASE BodyReturn
  BY <1>1, <1>3 DEF BodyReturn, At, Goto, caseVars, MainUser
<1>4. ASSUME NEW m \in BodyMessages, BodyLog(m)
      PROVE  MainOK'
  <2>1. /\ pc[Main] = "body" /\ EnterLog(Main, m, "body") /\ m \in Message
        /\ m.via = "log" /\ m.level # "custom" /\ UNCHANGED <<expected, ctx>>
    BY <1>4, InputAssumption DEF BodyLog, At, caseVars, Calm
  <2> QED
    BY <2>1, EnterMain
<1>5. ASSUME NEW p \in Patterns, Expect(p)
      PROVE  MainOK'
  <2> DEFINE e == [pattern |-> p, ready |-> FALSE, count |-> 0]
             es == expected[cur]
  <2>1. /\ pc[Main] = "body" /\ pc' = [pc EXCEPT ![Main] = "fill"]
        /\ expected' = [expected EXCEPT ![cur] = Append(es, e)]
        /\ UNCHANGED <<ctx, cur, proc>>
    BY <1>5 DEF Expect, At, Goto
  <2>2. cur \in Cases /\ es \in Seq(Expectation)
    BY <1>0, <2>1 DEF IInv, TypeOK, CaseOK
  <2> HIDE DEF e
  <2>3. /\ expected'[cur] = Append(es, e)
        /\ \A c \in Cases : c # cur => expected'[c] = expected[c]
    BY <1>0, <2>1, <2>2
  <2>4. /\ Len(es) \in Nat /\ DOMAIN es = 1..Len(es)
        /\ DOMAIN expected'[cur] = 1..(Len(es) + 1) /\ Len(expected'[cur]) = Len(es) + 1
        /\ \A i \in 1..Len(es) : expected'[cur][i] = es[i]
    BY <2>2, <2>3
  <2>5. pc'[Main] = "fill"
    BY <1>0, <2>1
  <2>6. \A c \in Cases : \A i \in DOMAIN expected[c] : expected[c][i].ready
    BY <2>1 DEF MainOK, ReadyOK
  <2>7. \A i \in DOMAIN expected'[cur] : expected'[cur][i].ready \/ i = Len(expected'[cur])
    BY <2>2, <2>4, <2>6
  <2>8. ReadyOK'
    BY <2>1, <2>3, <2>5, <2>6, <2>7 DEF ReadyOK
  <2>9. Home = "body" /\ ~Warned
    BY <2>1 DEF Home, Thrown, Warned, InLog, InGLib, Locked
  <2>10. CallOK' /\ Uncharged' /\ NoInternalFailure'
    BY <2>1, <2>5, <2>9 DEF MainOK, CallOK, Uncharged, NoInternalFailure, InBody,
       InLog, InGLib, Locked
  <2> QED
    BY <2>8, <2>10 DEF MainOK
<1>6. CASE FillExpectation
  <2> DEFINE es == expected[cur]
             k == Len(es)
             e == [es[k] EXCEPT !.ready = TRUE]
  <2>1. /\ pc[Main] = "fill" /\ pc' = [pc EXCEPT ![Main] = "body"]
        /\ expected' = [expected EXCEPT ![cur] = [es EXCEPT ![k].ready = TRUE]]
        /\ UNCHANGED <<call, ctx, cur, proc>>
    BY <1>6 DEF FillExpectation, At, Goto
  <2>2. cur \in Cases /\ es \in Seq(Expectation)
    BY <1>0, <2>1 DEF IInv, TypeOK, CaseOK
  <2>3. /\ expected'[cur] = [es EXCEPT ![k] = e]
        /\ \A c \in Cases : c # cur => expected'[c] = expected[c]
    BY <1>0, <2>1, <2>2
  <2>4. k \in DOMAIN es => e.ready
    BY <2>2 DEF Expectation
  <2> HIDE DEF e
  <2>5. pc'[Main] = "body"
    BY <1>0, <2>1
  <2>6. \A i \in DOMAIN expected'[cur] : expected'[cur][i].ready
    <3>1. \A i \in DOMAIN es : es[i].ready \/ i = k
      BY <2>2 DEF MainOK, ReadyOK
    <3> HIDE DEF k, es
    <3> QED
      BY <2>3, <2>4, <3>1
  <2>7. ReadyOK'
    BY <2>1, <2>3, <2>6 DEF MainOK, ReadyOK
  <2>8. Home = "fill" /\ ~Warned
    BY <2>1 DEF Home, Thrown, Warned, InLog, InGLib, Locked
  <2>9. CallOK' /\ Uncharged' /\ NoInternalFailure'
    BY <2>1, <2>5, <2>8 DEF MainOK, CallOK, Uncharged, NoInternalFailure, InBody,
       InLog, InGLib, Locked
  <2> QED
    BY <2>7, <2>9 DEF MainOK
<1>7. ASSUME NEW h \in 1..MaxExpect, ExpectCount(h)
      PROVE  MainOK'
  <2> DEFINE es == expected[cur]
             e == [es[h] EXCEPT !.count = 0]
  <2>1. /\ pc[Main] = "body" /\ h \in DOMAIN es
        /\ expected' = [expected EXCEPT ![cur] = [es EXCEPT ![h].count = 0]]
        /\ UNCHANGED <<pc, call, cursor, ctx, cur, proc>>
    BY <1>7 DEF ExpectCount, At, threadVars
  <2>2. cur \in Cases /\ es \in Seq(Expectation)
    BY <1>0, <2>1 DEF IInv, TypeOK, CaseOK
  <2>3. /\ expected'[cur] = [es EXCEPT ![h] = e]
        /\ \A c \in Cases : c # cur => expected'[c] = expected[c]
    BY <1>0, <2>1, <2>2
  <2>4. e.ready = es[h].ready
    BY <2>1, <2>2 DEF Expectation
  <2> HIDE DEF e
  <2>5. \A c \in Cases : \A i \in DOMAIN expected[c] : expected[c][i].ready
    BY <2>1 DEF MainOK, ReadyOK
  <2>6. \A i \in DOMAIN expected'[cur] : expected'[cur][i].ready
    BY <2>1, <2>2, <2>3, <2>4, <2>5
  <2>7. ReadyOK'
    BY <2>3, <2>5, <2>6 DEF ReadyOK
  <2>8. CallOK' /\ Uncharged' /\ NoInternalFailure'
    BY <2>1 DEF MainOK, CallOK, Uncharged, NoInternalFailure, Home, Thrown, Warned
  <2> QED
    BY <2>7, <2>8 DEF MainOK
<1>8. CASE AssertFail
  <2>1. pc[Main] = "body" /\ ContextChecked
    BY <1>2, <1>8 DEF AssertFail, At
  <2>2. \/ EndProcess("bailed")
        \/ Goto(Main, "asserting") /\ UNCHANGED <<call, ctx, caseVars, proc>>
    BY <1>8, <2>1 DEF AssertFail, Calm
  <2> QED
    BY <1>1, <2>1, <2>2, EndMain DEF Goto, caseVars, MainUser
<1>9. CASE SkipReached
  <2>1. /\ pc[Main] = "body"
        /\ Goto(Main, "skipping") /\ UNCHANGED <<call, ctx, caseVars, proc>>
    BY <1>2, <1>9 DEF SkipReached, At
  <2> QED
    BY <1>1, <2>1 DEF Goto, caseVars, MainUser
<1>10. CASE AssertLeave \/ SkipLeave
  <2>1. /\ pc[Main] \in {"asserting", "skipping"} /\ pc' = [pc EXCEPT ![Main] = "unwound"]
        /\ UNCHANGED <<call, expected, proc, cur>>
    BY <1>10 DEF AssertLeave, SkipLeave, Leave, At, Goto, caseVars
  <2>2. pc'[Main] = "unwound"
    BY <1>0, <2>1
  <2>3. CallOK' /\ Uncharged' /\ NoInternalFailure'
    BY <2>1, <2>2 DEF MainOK, CallOK, Uncharged, NoInternalFailure, Home, InBody,
       InLog, InGLib, Locked
  <2>4. ReadyOK'
    BY <2>1 DEF MainOK, ReadyOK
  <2> QED
    BY <2>3, <2>4 DEF MainOK
<1> QED
  BY <1>3, <1>4, <1>5, <1>6, <1>7, <1>8, <1>9, <1>10 DEF BodyStep

(* The destructor of a target, whose messages no log_hook sees.             *)
LEMMA DestroyMain ==
  ASSUME IInv, MainOK, Calm, DestroyStep
  PROVE  MainOK'
<1>1. PICK m \in DestroyMessages : DestroyLog(m)
  BY DEF DestroyStep, DestroyAssert, Calm
<1>2. /\ pc[Main] = "dispose" /\ EnterLog(Main, m, "dispose") /\ m \in Message
      /\ m.level # "custom" /\ UNCHANGED <<expected, ctx>>
  BY <1>1, InputAssumption DEF DestroyLog, At, caseVars, Calm
<1> QED
  BY <1>2, EnterMain

-----------------------------------------------------------------------------
(* The steps of the other threads.                                          *)

(* What a worker does to the state of the main thread: nothing. *)
LEMMA WorkerFrame ==
  ASSUME MainOK, UNCHANGED <<cur, ctx, expected, proc>>,
         pc'[Main] = pc[Main], call'[Main] = call[Main], cursor'[Main] = cursor[Main]
  PROVE  MainOK'
BY DEF MainOK, NoInternalFailure, CallOK, Uncharged, ReadyOK, Home, Thrown, Warned

LEMMA CalmFrame ==
  ASSUME WorkersCalm, NEW t \in Workers,
         \A u \in Workers : u # t => /\ pc'[u] = pc[u] /\ call'[u] = call[u]
                                     /\ cursor'[u] = cursor[u],
         pc'[t] \in InLog =>
           /\ pc'[t] \in {"lock", "hook", "handled", "emit"}
           /\ call'[t].msg.level \in Grave => call'[t].fatal
           /\ call'[t].msg.domain = "none" \/ Patterns = {}
           /\ call'[t].msg.level # "custom" /\ ~call'[t].stale
  PROVE  WorkersCalm'
BY DEF WorkersCalm

LEMMA EndCalm ==
  ASSUME CalmOK, NEW how \in {"trapped", "bailed"}, EndProcess(how)
  PROVE  CalmOK'
<1>1. MainOK'
  BY EndMain DEF CalmOK
<1> QED
  BY <1>1 DEF CalmOK, EndProcess, WorkersCalm, Unexpecting, threadVars, caseVars

LEMMA WorkerLogMain ==
  ASSUME IInv, Calm, CalmOK, NEW t \in Workers, NEW m \in WorkerMessages, WorkerLog(t, m)
  PROVE  CalmOK'
<1>0. /\ t \in Threads /\ t # Main /\ m \in Message
      /\ Main \in Threads /\ Workers \subseteq Threads
      /\ pc \in [Threads -> MainUser \cup InLog \cup {"user"}]
      /\ call \in [Threads -> Call]
  BY ThreadAssumption, InputAssumption DEF Threads, IInv, TypeOK
<1> DEFINE new == NewCall(m, "user")
<1>1. /\ call' = [call EXCEPT ![t] = new] /\ pc' = [pc EXCEPT ![t] = "lock"]
      /\ cursor' = cursor /\ proc' = proc /\ UNCHANGED <<cur, ctx, expected>>
  BY <1>0, EnterLogStep DEF WorkerLog, At, caseVars, InGLib, Locked
<1>2. new.msg = m /\ new.fatal = FatalOnArrival(m) /\ ~new.stale
  BY DEF NewCall
<1> HIDE DEF new
<1>3. MainOK'
  BY <1>0, <1>1, WorkerFrame DEF CalmOK
<1>4. CalmMessage(m)
  BY DEF Calm
<1>5. WorkersCalm'
  <2>1. \A u \in Workers : u # t => /\ pc'[u] = pc[u] /\ call'[u] = call[u]
                                    /\ cursor'[u] = cursor[u]
    BY <1>0, <1>1
  <2>2. pc'[t] = "lock" /\ call'[t] = new
    BY <1>0, <1>1
  <2> QED
    BY <1>2, <1>4, <2>1, <2>2, CalmFrame DEF CalmMessage, CalmOK
<1> QED
  BY <1>1, <1>3, <1>5 DEF CalmOK, Unexpecting

(* A worker's calm message passes the hooks of a test by. *)
LEMMA WorkerStepMain ==
  ASSUME IInv, CalmOK, NEW t \in Workers, LogStep(t)
  PROVE  CalmOK'
<1>0. /\ t \in Threads /\ t # Main /\ Main \in Threads /\ Workers \subseteq Threads
      /\ pc \in [Threads -> MainUser \cup InLog \cup {"user"}]
      /\ call \in [Threads -> Call] /\ cursor \in [Threads -> Nat]
  BY ThreadAssumption DEF Threads, IInv, TypeOK
<1>1. pc[t] \in InLog =>
        /\ pc[t] \in {"lock", "hook", "handled", "emit"}
        /\ call[t].msg.level \in Grave => call[t].fatal
        /\ call[t].msg.domain = "none" \/ Patterns = {}
        /\ call[t].msg.level # "custom" /\ ~call[t].stale
  BY DEF CalmOK, WorkersCalm
(* A step of the scan or out of it. *)
<1>2. ASSUME pc[t] \in {"lock", "hook", "handled", "emit"},
             NEW place \in {"hook", "handled", "emit", "user"},
             pc' = [pc EXCEPT ![t] = place], UNCHANGED <<cur, ctx, expected, proc>>,
             NEW k \in Nat, cursor' = [cursor EXCEPT ![t] = k],
             NEW f, call' = [call EXCEPT ![t] = [call[t] EXCEPT !.fatal = f]],
             call[t].fatal => f
      PROVE  CalmOK'
  <2>1. /\ pc'[Main] = pc[Main] /\ call'[Main] = call[Main] /\ cursor'[Main] = cursor[Main]
    BY <1>0, <1>2
  <2>2. MainOK'
    BY <1>2, <2>1, WorkerFrame DEF CalmOK
  <2>3. \A u \in Workers : u # t => /\ pc'[u] = pc[u] /\ call'[u] = call[u]
                                    /\ cursor'[u] = cursor[u]
    BY <1>0, <1>2
  <2>4. pc'[t] = place /\ cursor'[t] = k /\ call'[t] = [call[t] EXCEPT !.fatal = f]
    BY <1>0, <1>2
  <2>5. call'[t].msg = call[t].msg /\ call'[t].fatal = f /\ call'[t].stale = call[t].stale
    BY <1>0, <2>4 DEF Call
  <2>6. /\ call[t].msg.level \in Grave => call[t].fatal
        /\ call[t].msg.domain = "none" \/ Patterns = {}
        /\ call[t].msg.level # "custom" /\ ~call[t].stale
    BY <1>1, <1>2 DEF InLog, InGLib, Locked
  <2>7. pc'[t] \in InLog =>
          /\ pc'[t] \in {"lock", "hook", "handled", "emit"}
          /\ call'[t].msg.level \in Grave => call'[t].fatal
          /\ call'[t].msg.domain = "none" \/ Patterns = {}
          /\ call'[t].msg.level # "custom" /\ ~call'[t].stale
    BY <1>2, <2>4, <2>5, <2>6 DEF InLog, InGLib, Locked
  <2>8. WorkersCalm'
    BY <2>3, <2>7, CalmFrame DEF CalmOK
  <2> QED
    BY <1>2, <2>2, <2>8 DEF CalmOK, Unexpecting
(* The message itself does not change. *)
<1>3. call = [call EXCEPT ![t] = [call[t] EXCEPT !.fatal = call[t].fatal]]
      /\ cursor = [cursor EXCEPT ![t] = cursor[t]] /\ cursor[t] \in Nat
  BY <1>0 DEF Call
<1>4. CASE LockHooks(t)
  <2> DEFINE k == 1
  <2>1. /\ pc[t] = "lock" /\ pc' = [pc EXCEPT ![t] = "hook"]
        /\ cursor' = [cursor EXCEPT ![t] = k] /\ call' = call
        /\ UNCHANGED <<cur, ctx, expected, proc>>
    BY <1>4 DEF LockHooks, At, Goto, caseVars
  <2>2. k \in Nat
    OBVIOUS
  <2> HIDE DEF k
  <2> QED
    BY <1>2, <1>3, <2>1, <2>2
<1>5. CASE EndScan(t)
  <2>1. /\ pc[t] = "hook" /\ pc' = [pc EXCEPT ![t] = "emit"]
        /\ cursor' = cursor /\ call' = call
        /\ UNCHANGED <<cur, ctx, expected, proc>>
    BY <1>5 DEF EndScan, At, Goto, caseVars
  <2> QED
    BY <1>2, <1>3, <2>1
<1>6. CASE Verbosity(t)
  <2> DEFINE f == VerbosityFatal(call[t].msg, call[t].fatal)
  <2>1. /\ pc[t] = "hook" /\ call' = [call EXCEPT ![t] = [call[t] EXCEPT !.fatal = f]]
        /\ UNCHANGED <<cur, ctx, expected, proc>>
        /\ \/ pc' = pc /\ cursor' = [cursor EXCEPT ![t] = cursor[t] + 1]
           \/ pc' = [pc EXCEPT ![t] = "handled"] /\ cursor' = cursor
    BY <1>6 DEF Verbosity, AtVerbosity, NextHook, StopScan, Goto, At, caseVars
  <2>2. call[t].fatal => f
    BY DEF VerbosityFatal
  <2> HIDE DEF f
  <2>3. cursor[t] + 1 \in Nat
    BY <1>3
  <2>4. pc = [pc EXCEPT ![t] = "hook"]
    BY <1>0, <2>1
  <2>5. CASE pc' = pc /\ cursor' = [cursor EXCEPT ![t] = cursor[t] + 1]
    BY <1>2, <2>1, <2>2, <2>3, <2>4, <2>5
  <2>6. CASE pc' = [pc EXCEPT ![t] = "handled"] /\ cursor' = cursor
    BY <1>2, <1>3, <2>1, <2>2, <2>6
  <2> QED
    BY <2>1, <2>5, <2>6
<1>7. CASE LogHookPass(t)
  <2>1. /\ pc[t] = "hook" /\ pc' = pc /\ call' = call
        /\ cursor' = [cursor EXCEPT ![t] = cursor[t] + 1]
        /\ UNCHANGED <<cur, ctx, expected, proc>>
    BY <1>7 DEF LogHookPass, AtLogHook, NextHook, At, caseVars
  <2>2. cursor[t] + 1 \in Nat
    BY <1>3
  <2>3. pc = [pc EXCEPT ![t] = "hook"]
    BY <1>0, <2>1
  <2> QED
    BY <1>2, <1>3, <2>1, <2>2, <2>3
(* The log_hook it may stand at is that of the running case. *)
<1>8. AtLogHook(t) =>
        /\ HookCase(t) \in Cases /\ ~disposed[HookCase(t)]
        /\ \A i \in DOMAIN expected[HookCase(t)] :
             ~Stops(call[t].msg, expected[HookCase(t)][i])
        /\ UnmatchedAction(call[t].msg, call[t].fatal) # "ABORT"
        /\ ~call[t].stale
  <2> SUFFICES ASSUME AtLogHook(t)
               PROVE  /\ HookCase(t) \in Cases /\ ~disposed[HookCase(t)]
                      /\ \A i \in DOMAIN expected[HookCase(t)] :
                           ~Stops(call[t].msg, expected[HookCase(t)][i])
                      /\ UnmatchedAction(call[t].msg, call[t].fatal) # "ABORT"
                      /\ ~call[t].stale
    OBVIOUS
  <2>1. /\ pc[t] = "hook" /\ cursor[t] <= Len(hooks) /\ hooks[cursor[t]] \in Cases
        /\ HookCase(t) = hooks[cursor[t]]
    BY DEF AtLogHook, HookCase, At
  <2>2. /\ call[t].msg.level \in Grave => call[t].fatal
        /\ call[t].msg.domain = "none" \/ Patterns = {}
        /\ ~call[t].stale
    BY <1>1, <2>1 DEF InLog, InGLib, Locked
  <2>3. cursor[t] \in Nat /\ cursor[t] > 0
    BY <1>0, <2>1 DEF IInv, FoundOK
  <2>4. HookCase(t) = cur
    BY <2>1, <2>3, StandsAtCur
  <2>5. ~disposed[cur]
    BY <2>1, <2>4 DEF IInv, CaseOK
  <2>6. Patterns = {} => expected[cur] = <<>>
    BY <2>1, <2>4 DEF CalmOK, Unexpecting
  <2>7. DOMAIN <<>> = {}
    OBVIOUS
  <2> QED
    BY <2>1, <2>2, <2>4, <2>5, <2>6, <2>7 DEF Stops, UnmatchedAction
<1>9. ~LogHookCrash(t)
  <2> SUFFICES ASSUME LogHookCrash(t)
               PROVE  FALSE
    OBVIOUS
  <2>1. AtLogHook(t)
    BY DEF LogHookCrash
  <2>2. PICK i \in DOMAIN expected[HookCase(t)] :
          StopsAt(call[t].msg, expected[HookCase(t)], i)
    BY <1>8, <2>1 DEF LogHookCrash
  <2> QED
    BY <1>8, <2>1, <2>2 DEF StopsAt
<1>10. ASSUME NEW i \in 1..MaxExpect, LogHookFind(t, i)
       PROVE  FALSE
  <2>1. AtLogHook(t) /\ StopsAt(call[t].msg, expected[HookCase(t)], i)
    BY <1>10 DEF LogHookFind
  <2> QED
    BY <1>8, <2>1 DEF StopsAt
<1>11. ~LogHookFail(t)
  BY <1>8 DEF LogHookFail
<1>a. /\ pc[t] = "hook" => call[t].msg.level # "custom"
      /\ pc[t] \notin {"count", "mark", "fail", "unwind", "preempt"}
  BY <1>1 DEF InLog, InGLib, Locked
<1>b. ~VerbosityAssert(t)
  BY <1>a DEF VerbosityAssert, AtVerbosity, At, Unreached
<1>12. /\ ~LogHookCount(t) /\ ~LogHookMiscount(t) /\ ~LogHookClobber(t)
       /\ ~MarkMessage(t) /\ ~MarkFailed(t) /\ ~Unwind(t) /\ ~Preempt(t)
  BY <1>a DEF LogHookCount, LogHookMiscount, LogHookClobber, MarkMessage, MarkFailed,
     Unwind, Preempt, At
<1>13. CASE Handled(t) \/ Emit(t)
  <2>1. pc[t] \in {"handled", "emit"}
    BY <1>13 DEF Handled, Emit, At
  <2>2. CASE EndProcess("trapped")
    BY <2>2, EndCalm
  <2>3. CASE Goto(t, call[t].back) /\ UNCHANGED <<call, cursor, cur, ctx, caseVars, proc>>
    <3>1. call[t].back = "user"
      BY <2>1 DEF IInv, PlacesOK, InLog, InGLib
    <3>2. /\ pc' = [pc EXCEPT ![t] = "user"] /\ cursor' = cursor /\ call' = call
          /\ UNCHANGED <<cur, ctx, expected, proc>>
      BY <2>3, <3>1 DEF Goto, caseVars
    <3> QED
      BY <1>2, <1>3, <2>1, <3>2
  <2> QED
    BY <1>13, <2>2, <2>3 DEF Handled, Emit, ReturnFromLog
<1> QED
  BY <1>4, <1>5, <1>6, <1>7, <1>9, <1>10, <1>11, <1>12, <1>13, <1>b DEF LogStep

(* The main thread's steps leave the workers where they are ... *)
LEMMA WorkersKept ==
  ASSUME IInv, WorkersCalm, RunStep \/ BodyStep \/ DestroyStep \/ LogStep(Main)
  PROVE  WorkersCalm'
<1>0. Main \notin Workers /\ Workers \subseteq Threads /\ TypeOK
  BY ThreadAssumption DEF Threads, IInv
<1>1. ASSUME \A u \in Workers : /\ pc'[u] = pc[u] /\ call'[u] = call[u]
                                /\ cursor'[u] = cursor[u]
      PROVE  WorkersCalm'
  BY <1>1 DEF WorkersCalm
<1>2. ASSUME NEW how, EndProcess(how)
      PROVE  WorkersCalm'
  BY <1>1, <1>2 DEF EndProcess, threadVars
<1>3. ASSUME NEW m, NEW back, EnterLog(Main, m, back)
      PROVE  WorkersCalm'
  BY <1>0, <1>1, <1>3 DEF EnterLog, Goto, threadVars, TypeOK
<1>4. ASSUME NEW place, Goto(Main, place), UNCHANGED <<call, cursor>>
      PROVE  WorkersCalm'
  BY <1>0, <1>1, <1>4 DEF Goto, TypeOK
<1>5. CASE RunStep
  BY <1>2, <1>3, <1>4, <1>5 DEF RunStep, Begin, Push, Exec, ReadVerdict, FreeContext,
     Pop, Dispose
<1>6. CASE BodyStep
  <2>1. ASSUME NEW h \in 1..MaxExpect, ExpectCount(h)
        PROVE  WorkersCalm'
    BY <1>1, <2>1 DEF ExpectCount, threadVars
  <2>2. CASE AssertFail \/ SkipReached
    BY <1>2, <1>4, <2>2 DEF AssertFail, SkipReached
  <2>3. ASSUME NEW p \in Patterns, Expect(p)
        PROVE  WorkersCalm'
    <3>1. PICK under \in SUBSET Reading(cur) :
            call' = [t \in Threads |->
                      IF t \in under THEN [call[t] EXCEPT !.stale = TRUE] ELSE call[t]]
      BY <2>3 DEF Expect
    <3>2. pc' = [pc EXCEPT ![Main] = "fill"] /\ cursor' = cursor
      BY <2>3 DEF Expect, Goto
    <3>3. ASSUME NEW u \in Workers PROVE u \notin under
      BY <3>1, <3>3 DEF Reading, WorkersCalm, InLog, InGLib, Locked
    <3>4. \A u \in Workers : call'[u] = call[u]
      BY <1>0, <3>1, <3>3
    <3> QED
      BY <1>0, <1>1, <3>2, <3>4 DEF TypeOK
  <2> QED
    BY <1>3, <1>4, <1>6, <2>1, <2>2, <2>3 DEF BodyStep, BodyReturn, BodyLog,
       FillExpectation, AssertLeave, SkipLeave, Leave
<1>a. CASE DestroyStep
  BY <1>2, <1>3, <1>a DEF DestroyStep, DestroyAssert, DestroyLog
<1>7. CASE LogStep(Main)
  <2>1. ASSUME NEW i \in 1..MaxExpect, LogHookFind(Main, i)
        PROVE  WorkersCalm'
    <3>1. /\ \E f : call' = [call EXCEPT ![Main] = f]
          /\ pc' = [pc EXCEPT ![Main] = "count"] /\ cursor' = cursor
      BY <2>1 DEF LogHookFind, Goto
    <3> QED
      BY <1>0, <1>1, <3>1 DEF TypeOK
  <2>a. CASE LogHookCount(Main) \/ LogHookMiscount(Main)
    BY <1>0, <1>1, <2>a DEF LogHookCount, LogHookMiscount, StopScan, Goto, TypeOK
  <2>2. CASE LockHooks(Main)
    BY <1>0, <1>1, <2>2 DEF LockHooks, Goto, TypeOK
  <2>3. CASE Verbosity(Main)
    <3>1. /\ \E f : call' = [call EXCEPT ![Main] = f]
          /\ pc' = pc \/ pc' = [pc EXCEPT ![Main] = "handled"]
          /\ cursor' = cursor \/ cursor' = [cursor EXCEPT ![Main] = cursor[Main] + 1]
      BY <2>3 DEF Verbosity, NextHook, StopScan, Goto
    <3> QED
      BY <1>0, <1>1, <3>1 DEF TypeOK
  <2>4. CASE LogHookPass(Main)
    BY <1>0, <1>1, <2>4 DEF LogHookPass, NextHook, TypeOK
  <2>5. CASE LogHookFail(Main)
    <3>1. CASE EndProcess("aborted")
      BY <1>2, <3>1
    <3>2. CASE /\ call' = [call EXCEPT ![Main].charged = ctx.owner]
               /\ Goto(Main, "mark") /\ UNCHANGED cursor
      BY <1>0, <1>1, <3>2 DEF Goto, TypeOK
    <3> QED
      BY <2>5, <3>1, <3>2 DEF LogHookFail
  <2>6. CASE Handled(Main) \/ Emit(Main)
    BY <1>2, <1>4, <2>6 DEF Handled, Emit, ReturnFromLog
  <2>7. CASE EndScan(Main) \/ Unwind(Main) \/ Preempt(Main)
    BY <1>2, <1>4, <2>7 DEF EndScan, Unwind, Preempt
  <2>8. CASE VerbosityAssert(Main) \/ LogHookCrash(Main) \/ LogHookClobber(Main)
    BY <1>2, <2>8 DEF VerbosityAssert, LogHookCrash, LogHookClobber
  <2>9. CASE MarkMessage(Main) \/ MarkFailed(Main)
    BY <1>2, <1>4, <2>9 DEF MarkMessage, MarkFailed
  <2> QED
    BY <1>7, <2>1, <2>2, <2>3, <2>4, <2>5, <2>6, <2>7, <2>8, <2>9, <2>a DEF LogStep
<1> QED
  BY <1>5, <1>6, <1>7, <1>a

(* ... and expect nothing that a body could not have expected. *)
LEMMA UnexpectingKept ==
  ASSUME IInv, Unexpecting, RunStep \/ BodyStep \/ DestroyStep \/ LogStep(Main)
  PROVE  Unexpecting'
<1> SUFFICES ASSUME Patterns = {}
             PROVE  \A c \in Cases : expected'[c] = <<>>
  BY DEF Unexpecting
<1>0. /\ \A c \in Cases : expected[c] = <<>>
      /\ expected \in [Cases -> Seq(Expectation)] /\ DOMAIN <<>> = {}
  BY DEF Unexpecting, IInv, TypeOK
<1> DEFINE Still == expected' = expected
<1>1. ASSUME NEW how, EndProcess(how)
      PROVE  Still
  BY <1>1 DEF EndProcess, caseVars
<1>2. CASE RunStep
  <2>1. Still \/ Dispose
    BY <1>1, <1>2 DEF RunStep, Begin, Push, Exec, ReadVerdict, FreeContext, Pop, caseVars
  <2>2. CASE Dispose
    BY <1>0, <2>2 DEF Dispose
  <2> QED
    BY <1>0, <2>1, <2>2
<1>3. CASE BodyStep
  <2>1. Still \/ FillExpectation \/ \E h \in 1..MaxExpect : ExpectCount(h)
    BY <1>1, <1>3 DEF BodyStep, BodyReturn, BodyLog, AssertFail, SkipReached,
       AssertLeave, SkipLeave, Leave, caseVars
  <2>2. CASE FillExpectation
    <3>1. /\ pc[Main] = "fill"
          /\ expected' = [expected EXCEPT ![cur][Len(expected[cur])].ready = TRUE]
      BY <2>2 DEF FillExpectation, At
    <3>2. cur \in Cases
      BY <3>1 DEF IInv, TypeOK, CaseOK
    <3>3. \A c \in Cases : c # cur => expected'[c] = expected[c]
      BY <1>0, <3>1
    <3>4. expected'[cur] = [<<>> EXCEPT ![Len(expected[cur])].ready = TRUE]
      BY <1>0, <3>1, <3>2
    <3>5. expected'[cur] = <<>>
      BY <3>4
    <3> QED
      BY <1>0, <3>3, <3>5
  <2>3. ASSUME NEW h \in 1..MaxExpect, ExpectCount(h)
        PROVE  FALSE
    <3>1. pc[Main] = "body" /\ h \in DOMAIN expected[cur]
      BY <2>3 DEF ExpectCount, At
    <3>2. cur \in Cases
      BY <3>1 DEF IInv, TypeOK, CaseOK
    <3> QED
      BY <1>0, <3>1, <3>2
  <2> QED
    BY <1>0, <2>1, <2>2, <2>3
<1>4. CASE LogStep(Main)
  <2>1. ASSUME NEW i \in 1..MaxExpect, LogHookFind(Main, i)
        PROVE  Still
    BY <2>1 DEF LogHookFind, caseVars
  <2>2. \/ Still \/ LogHookCount(Main)
        \/ \E i \in 1..MaxExpect : LogHookFind(Main, i)
    BY <1>1, <1>4 DEF LogStep, LockHooks, Verbosity, VerbosityAssert, LogHookCrash,
       LogHookMiscount, LogHookClobber, LogHookPass, LogHookFail, MarkMessage,
       MarkFailed, EndScan, Handled, Emit, ReturnFromLog, Unwind, Preempt, caseVars
  <2>3. ASSUME LogHookCount(Main)
        PROVE  FALSE
    <3>1. /\ Main \in Threads /\ pc[Main] = "count"
      BY <2>3 DEF LogHookCount, At, Threads
    <3>2. /\ hooks[cursor[Main]] \in Cases
          /\ call[Main].element \in DOMAIN expected[hooks[cursor[Main]]]
      BY <3>1 DEF IInv, FoundOK
    <3> QED
      BY <1>0, <3>2
  <2> QED
    BY <1>0, <2>1, <2>2, <2>3
<1>5. CASE DestroyStep
  BY <1>0, <1>1, <1>5 DEF DestroyStep, DestroyAssert, DestroyLog, caseVars
<1> QED
  BY <1>2, <1>3, <1>4, <1>5

LEMMA NextCalm ==
  ASSUME IInv, Calm, CalmOK, [Next]_vars
  PROVE  CalmOK'
<1>1. ASSUME RunStep \/ BodyStep \/ DestroyStep \/ LogStep(Main)
      PROVE  CalmOK'
  <2>1. MainOK'
    BY <1>1, LogMain, RunMain, BodyMain, DestroyMain DEF CalmOK, Threads
  <2>2. WorkersCalm' /\ Unexpecting'
    BY <1>1, WorkersKept, UnexpectingKept DEF CalmOK
  <2> QED
    BY <2>1, <2>2 DEF CalmOK
<1>2. CASE UNCHANGED vars
  BY <1>2 DEF vars, threadVars, caseVars, CalmOK, MainOK, NoInternalFailure, CallOK,
     Uncharged, ReadyOK, Home, Thrown, Warned, WorkersCalm, Unexpecting
<1> QED
  BY <1>1, <1>2, WorkerStepMain, WorkerLogMain DEF Next, Stop, Threads

(* A program whose bodies log with g_log() at GLib's own levels, whose       *)
(* destructors assert nothing, whose other threads log neither warnings     *)
(* that fail a test nor what a test may be expecting, and that does not ask *)
(* for assertions to be fatal: whatever its bodies log, expect, assert and  *)
(* skip, whatever the destructors and the other threads log meanwhile, no   *)
(* assertion of the library fails and no context is jumped to or written to *)
(* that is gone (run-init.c:20-61, run-setjmp.c:45-100, hooks.c:9-170,      *)
(* test-case.c:13-24, flags.c:64-65).                                       *)
THEOREM SoundIfCalm ==
  ASSUME Calm
  PROVE  Spec => []NoInternalFailure
<1>1. Init => CalmOK
  <2> SUFFICES ASSUME Init
               PROVE  CalmOK
    OBVIOUS
  <2>1. /\ pc[Main] = "idle" /\ proc = "running" /\ \A c \in Cases : expected[c] = <<>>
        /\ \A t \in Workers : pc[t] = "user"
    BY ThreadAssumption DEF Init, Threads
  <2>2. DOMAIN <<>> = {}
    OBVIOUS
  <2>3. MainOK
    BY <2>1, <2>2 DEF MainOK, NoInternalFailure, CallOK, Uncharged, ReadyOK, Home, InBody,
       InLog, InGLib, Locked
  <2> QED
    BY <2>1, <2>3 DEF CalmOK, WorkersCalm, Unexpecting, InLog, InGLib, Locked
<1>2. IInv /\ CalmOK /\ [Next]_vars => CalmOK'
  BY NextCalm
<1>3. CalmOK => NoInternalFailure
  BY DEF CalmOK, MainOK
<1> QED
  BY <1>1, <1>2, <1>3, Invariance, PTL DEF Spec
=============================================================================
