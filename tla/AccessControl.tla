---------------------------- MODULE AccessControl ----------------------------
(***************************************************************************)
(* StaticACL (pkg/server/acl.go).  Match walks over the rules without a    *)
(* lock and reads acl.rules again for every rule; UpdateRules replaces     *)
(* that slice, which is a pointer and a length, while calls are checked.   *)
(*                                                                         *)
(* A rule set is a sequence, the array the pointer leads to.  A            *)
(* PermissiveACL decides as the one rule with two stars, a RestrictiveACL  *)
(* as no rule at all.                                                      *)
(***************************************************************************)
EXTENDS Integers, Sequences, Patterns

CONSTANTS
  Char,      \* characters, Star among them
  Word,      \* names of peers and methods
  RuleSet    \* rule sets that UpdateRules is given

Rule == [peer : Seq(Char), method : Seq(Char), allow : BOOLEAN, priority : Int]

ASSUME ACLAssumption ==
  /\ Star \in Char
  /\ Word \subseteq Seq(Char)
  /\ RuleSet \subseteq Seq(Rule)

NoRule == [allow |-> FALSE, priority |-> -1]

VARIABLES
  rules,     \* the array acl.rules points to
  count,     \* the length in acl.rules
  request,   \* the peer and method being checked
  bound,     \* the length Match took at its start
  at,        \* the rule Match looks at next
  best,      \* bestMatch and bestPriority
  overlapped \* an UpdateRules has touched acl.rules since Match began

aclVars == <<rules, count, request, bound, at, best, overlapped>>
checkVars == <<request, bound, at, best>>

Request == [peer : Word, method : Word]

ACLTypeOK ==
  /\ rules \in RuleSet
  /\ count \in {Len(rs) : rs \in RuleSet}
  /\ request \in Request
  /\ bound \in Nat
  /\ at \in 1 .. bound + 1
  /\ best.allow \in BOOLEAN /\ best.priority \in Int
  /\ overlapped \in BOOLEAN

ACLInit ==
  /\ rules \in RuleSet
  /\ count = Len(rules)
  /\ request \in Request
  /\ bound = 0
  /\ at = 1
  /\ best = NoRule
  /\ overlapped = FALSE

(* UpdateRules writes the two words one after the other. *)
Consistent == count = Len(rules)

WriteCount ==
  /\ Consistent
  /\ \E rs \in RuleSet : count' = Len(rs)
  /\ overlapped' = TRUE
  /\ UNCHANGED <<rules, checkVars>>

WritePointer ==
  /\ rules' \in {rs \in RuleSet : Len(rs) = count}
  /\ overlapped' = TRUE
  /\ UNCHANGED <<count, checkVars>>

-----------------------------------------------------------------------------
BeginMatch(r) ==
  /\ request' = r
  /\ bound' = count
  /\ at' = 1
  /\ best' = NoRule
  /\ overlapped' = ~Consistent
  /\ UNCHANGED <<rules, count>>

Applies(rule, r) ==
  MatchPattern(r.peer, rule.peer) /\ MatchPattern(r.method, rule.method)

(* Mutation of Better: of equal priorities the last rule wins. *)
BetterOrEqual(rule, than) == rule.priority >= than.priority

Better(rule, than) == rule.priority > than.priority

Strictest(rule) == [allow |-> rule.allow, priority |-> rule.priority]

AnyRule == UNION {{rs[i] : i \in DOMAIN rs} : rs \in RuleSet}

(* acl.rules[i] panics beyond the length it reads now. *)
OutOfRange == at <= bound /\ at > count

(* One turn of the loop.  Between the two writes of UpdateRules the length *)
(* may exceed the array; what is read behind it can be any rule at all.    *)
Consider ==
  /\ at <= bound
  /\ at <= count
  /\ \E rule \in IF at <= Len(rules) THEN {rules[at]} ELSE AnyRule :
       best' = IF Applies(rule, request) /\ Better(rule, best)
               THEN Strictest(rule) ELSE best
  /\ at' = at + 1
  /\ UNCHANGED <<rules, count, request, bound, overlapped>>

(* Check: denied unless a rule was found, and allows. *)
Decided == at > bound
Allowed == best.allow

(* Match returns. *)
EndMatch ==
  /\ Decided
  /\ bound' = 0
  /\ at' = 1
  /\ best' = NoRule
  /\ overlapped' = FALSE
  /\ UNCHANGED <<rules, count, request>>

-----------------------------------------------------------------------------
(* What the rule set means: of the rules that match, by the meaning of     *)
(* their patterns, and whose priority is not negative, the first of those  *)
(* with the highest priority decides; without one the call is denied.      *)
Matching(rs, r) ==
  {i \in DOMAIN rs : /\ Glob(r.peer, rs[i].peer) /\ Glob(r.method, rs[i].method)
                     /\ rs[i].priority >= 0}

Decision(rs, r) ==
  \E i \in Matching(rs, r) :
    /\ rs[i].allow
    /\ \A j \in Matching(rs, r) \ {i} :
         \/ rs[j].priority < rs[i].priority
         \/ rs[j].priority = rs[i].priority /\ i < j
==============================================================================
