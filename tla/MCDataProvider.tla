---------------------------- MODULE MCDataProvider ----------------------------
(* Small instances of DataProvider for TLC. *)
EXTENDS DataProvider, TLC

CONSTANTS a1, a2, p1, p2, request, ticker, one, all, full, partial, none

\* One adapter that serves two paths, or two adapters with one path each.
OneAdapter  == [p \in {p1, p2} |-> a1]
TwoAdapters == p1 :> a1 @@ p2 :> a2

\* The mask "one" names the path p2, the mask "all" has a wildcard.
Matched == [m \in Masks |-> IF m = one THEN {p2} ELSE {p1, p2}]

\* A client that may read everything, a client that may read p1 only, and a
\* client that may read nothing.
Permissions == [u \in Auths |-> CASE u = full -> {p1, p2}
                                   [] u = partial -> {p1}
                                   [] u = none -> {}]
=============================================================================
