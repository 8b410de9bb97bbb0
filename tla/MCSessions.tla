----------------------------- MODULE MCSessions -----------------------------
(* Sessions on small instances. *)
EXTENDS Sessions, TLC

Symmetry == Permutations(Pair) \cup Permutations(Request)

\* Rotations and logouts against expiry and the clean-up; revocations of
\* everything against the same; the state of the account; single revocations.
Safety == {
    {"login", "refresh", "logout", "time", "cleanup"},
    {"login", "logoutAll", "revokeAll", "time", "cleanup"},
    {"login", "google", "refresh", "deactivate", "delete", "admin"},
    {"login", "refresh", "revoke", "revokeAll"} }

Rotation == {{"login", "refresh"}}
=============================================================================
