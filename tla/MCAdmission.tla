----------------------------- MODULE MCAdmission -----------------------------
(***************************************************************************)
(* A small instance of Admission for TLC.  The rule sets have ties, a      *)
(* negative priority, all forms of pattern, and different lengths.         *)
(***************************************************************************)
EXTENDS Admission

MCStar == "*"
MCChar == {"a", "b", MCStar}
MCWord == {<<"a", "b">>, <<"b">>}

Any == <<MCStar>>
For(p, m, al, pr) == [peer |-> p, method |-> m, allow |-> al, priority |-> pr]

MCRuleSet ==
  { <<>>,
    <<For(Any, Any, TRUE, -1)>>,
    <<For(<<"b">>, <<MCStar, MCStar>>, TRUE, 0)>>,
    <<For(<<"a", MCStar>>, Any, TRUE, 1), For(<<MCStar, "b">>, Any, FALSE, 1)>>,
    <<For(<<MCStar, "a", MCStar>>, Any, TRUE, 0), For(<<"a", MCStar, "b">>, Any, FALSE, 2)>> }

MCError == {"PermissionDenied", "ResourceExhausted", "Unavailable"}
MCRetryable == {"ResourceExhausted", "Unavailable"}
==============================================================================
