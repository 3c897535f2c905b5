------------------------------ MODULE Admission ------------------------------
(***************************************************************************)
(* How a call gets past the door of InvokeProxy.Invoke                     *)
(* (pkg/server/invoke.go): a client that calls through fault.Executor, the *)
(* ACL, whose rules an administrator replaces at run time, and the token   *)
(* bucket of the client's peer and method.  A refusal of the ACL is not    *)
(* retried, one of the limiter is, after a delay in which the bucket       *)
(* fills; so is a failure of the call itself, which costs another token.   *)
(***************************************************************************)
EXTENDS TokenBucket, AccessControl, Retry

(* The errors of Invoke itself. *)
ASSUME ErrorAssumption == {"PermissionDenied", "ResourceExhausted"} \subseteq Error

VARIABLES
  stage,   \* where Invoke is: "check", "limit", "call"
  crashed  \* acl.rules was indexed beyond its length: the process is gone

bucketVars == <<exists, tokens, elapsed, admitted, credit>>
admissionVars == <<bucketVars, aclVars, retryVars, stage, crashed>>

AdmissionTypeOK ==
  /\ TypeOK
  /\ ACLTypeOK
  /\ RetryTypeOK
  /\ stage \in {"check", "limit", "call"}
  /\ crashed \in BOOLEAN

AdmissionInit ==
  /\ Init
  /\ ACLInit
  /\ RetryInit
  /\ stage = "check"
  /\ crashed = FALSE

At(s) == ~crashed /\ phase = "running" /\ stage = s

-----------------------------------------------------------------------------
(* The client. *)
Call(r) ==
  /\ ~crashed
  /\ Begin
  /\ BeginMatch(r)
  /\ stage' = "check"
  /\ UNCHANGED <<bucketVars, crashed>>

CallAgain ==
  /\ ~crashed
  /\ TimerFires
  /\ BeginMatch(request)
  /\ stage' = "check"
  /\ UNCHANGED <<bucketVars, crashed>>

GiveUp ==
  /\ ~crashed
  /\ ContextDone
  /\ UNCHANGED <<bucketVars, aclVars, stage, crashed>>

Cancel ==
  /\ ~crashed
  /\ ContextEnds
  /\ UNCHANGED <<bucketVars, aclVars, stage, crashed>>

-----------------------------------------------------------------------------
(* Invoke. *)
CheckRule ==
  /\ At("check")
  /\ Consider
  /\ UNCHANGED <<bucketVars, retryVars, stage, crashed>>

CheckPanics ==
  /\ At("check")
  /\ OutOfRange
  /\ crashed' = TRUE
  /\ UNCHANGED <<bucketVars, aclVars, retryVars, stage>>

CheckAllows ==
  /\ At("check")
  /\ Allowed
  /\ EndMatch
  /\ stage' = "limit"
  /\ UNCHANGED <<bucketVars, retryVars, crashed>>

CheckDenies ==
  /\ At("check")
  /\ ~Allowed
  /\ EndMatch
  /\ AttemptReturns("PermissionDenied")
  /\ UNCHANGED <<bucketVars, stage, crashed>>

Limit ==
  /\ At("limit")
  /\ Allow
  /\ IF admitted' THEN stage' = "call" /\ UNCHANGED retryVars
                  ELSE AttemptReturns("ResourceExhausted") /\ UNCHANGED stage
  /\ UNCHANGED <<aclVars, crashed>>

(* Whatever the rest of Invoke returns; the limiter's Release does nothing. *)
CallEnds ==
  /\ At("call")
  /\ \E e \in (Error \cup {OK}) \ {"PermissionDenied", "ResourceExhausted"} :
       AttemptReturns(e)
  /\ UNCHANGED <<bucketVars, aclVars, stage, crashed>>

-----------------------------------------------------------------------------
(* The administrator, and the clock. *)
UpdateRules ==
  /\ ~crashed
  /\ WriteCount \/ WritePointer
  /\ UNCHANGED <<bucketVars, retryVars, stage, crashed>>

ClockTick ==
  /\ ~crashed
  /\ Tick
  /\ TimePasses
  /\ UNCHANGED <<aclVars, phase, outcomes, ended, verdict, stage, crashed>>

Work ==
  \/ CallAgain \/ GiveUp
  \/ CheckRule \/ CheckPanics \/ CheckAllows \/ CheckDenies
  \/ Limit \/ CallEnds

AdmissionNext ==
  \/ \E r \in Request : Call(r)
  \/ Cancel
  \/ Work
  \/ UpdateRules
  \/ ClockTick

(* Goroutines run, remote calls end at their deadline, and clocks tick.    *)
(* The client calls again and again.                                       *)
AdmissionSpec ==
  /\ AdmissionInit
  /\ [][AdmissionNext]_admissionVars
  /\ WF_admissionVars(\E r \in Request : Call(r))
  /\ WF_admissionVars(Work)
  /\ WF_admissionVars(ClockTick)

-----------------------------------------------------------------------------
(***************************************************************************)
(* Properties; WithinRate and VerdictIsTrue are with their components.     *)
(***************************************************************************)

(* A check during which nobody called UpdateRules decides as the rule set  *)
(* says: the first of the matching rules with the highest priority, and    *)
(* no rule ever applies to a name its pattern does not cover.  A pattern   *)
(* with a star in the middle covers names that matchPattern misses; of     *)
(* such rule sets only the latter is said.                                 *)
CheckIsExact ==
  /\ \A i \in DOMAIN rules : Applies(rules[i], request) =>
       Glob(request.peer, rules[i].peer) /\ Glob(request.method, rules[i].method)
  /\ At("check") /\ Decided /\ ~overlapped
     /\ (\A i \in DOMAIN rules :
           Documented(rules[i].peer) /\ Documented(rules[i].method))
     => Allowed = Decision(rules, request)

(* The rounding of the bucket starves nobody: a client that gets to the    *)
(* limiter again and again, more often than tokens come in or after the    *)
(* delays of Retry, is admitted again and again, because the clock of the  *)
(* bucket is left alone while there is less than one token to add.         *)
ClientIsServed == Burst > 0 /\ []<>At("limit") => []<>admitted
==============================================================================
