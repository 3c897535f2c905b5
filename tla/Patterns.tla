------------------------------- MODULE Patterns -------------------------------
(***************************************************************************)
(* matchPattern, which pkg/server/acl.go and                               *)
(* pkg/registry/method_registry.go define alike, and what one expects of   *)
(* it.  Values and patterns are sequences of characters.                   *)
(***************************************************************************)
EXTENDS Naturals, Sequences
SX == INSTANCE SequencesExt

CONSTANT Star

(* strings.Contains. *)
HasSubstring(value, word) ==
  \E i \in 0 .. Len(value) - Len(word) :
    SubSeq(value, i + 1, i + Len(word)) = word

(* strings.Trim(pattern, "*"). *)
TrimStars(pattern) ==
  LET kept == {i \in DOMAIN pattern : pattern[i] # Star}
  IN  IF kept = {} THEN <<>> ELSE SubSeq(pattern, SX!Min(kept), SX!Max(kept))

StartsWithStar(pattern) == pattern # <<>> /\ Head(pattern) = Star
EndsWithStar(pattern) == pattern # <<>> /\ SX!Last(pattern) = Star

(* A star elsewhere than at the ends matches nothing but itself. *)
MatchPattern(value, pattern) ==
  \/ Star \notin SX!ToSet(pattern) /\ value = pattern
  \/ /\ StartsWithStar(pattern) /\ EndsWithStar(pattern)
     /\ HasSubstring(value, TrimStars(pattern))
  \/ /\ StartsWithStar(pattern) /\ ~EndsWithStar(pattern)
     /\ SX!IsSuffix(Tail(pattern), value)
  \/ /\ ~StartsWithStar(pattern) /\ EndsWithStar(pattern)
     /\ SX!IsPrefix(SX!Front(pattern), value)

-----------------------------------------------------------------------------
(* The meaning of a pattern: cut is the length of the part of the value    *)
(* that each prefix of the pattern covers.  A star covers anything, any    *)
(* other character covers itself.                                          *)
Glob(value, pattern) ==
  \E cut \in [0 .. Len(pattern) -> 0 .. Len(value)] :
    /\ cut[0] = 0 /\ cut[Len(pattern)] = Len(value)
    /\ \A i \in DOMAIN pattern :
         IF pattern[i] = Star THEN cut[i - 1] <= cut[i]
         ELSE cut[i] = cut[i - 1] + 1 /\ value[cut[i]] = pattern[i]

(* The patterns the documents use: a word with at most one star at each    *)
(* end.                                                                    *)
Documented(pattern) ==
  \A i \in 2 .. Len(pattern) - 1 : pattern[i] # Star
==============================================================================
