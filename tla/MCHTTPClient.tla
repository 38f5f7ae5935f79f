---------------------------- MODULE MCHTTPClient ----------------------------
(***************************************************************************)
(* Small instances of HTTPClient for TLC.                                  *)
(***************************************************************************)
EXTENDS HTTPClient, TLC

\* SingleRetry: one retry after a fixed wait.
OneBackoff == <<{1}>>

\* One retry with jitter, as each of ExponentialRetry's.
JitteredBackoff == <<{0, 1}>>

Seconds(S) == [syntax : {"seconds"}, value : S]
Dates(S) == [syntax : {"date"}, value : S]
Lenient(S) == [syntax : {"lenient"}, value : S]

\* With a second of three ticks and Durations from -5 to 4: a number that is
\* obeyed, one whose product wraps to the past, one whose product wraps to a
\* delay that is obeyed; dates in the past and too far away.
GoHeaders == Seconds({1, 2, 4}) \cup Dates({-1, 4})

TypeScriptHeaders == Seconds({1, 2}) \cup Dates({-1}) \cup Lenient({2})

Symmetry == Permutations(Callers)
=============================================================================
