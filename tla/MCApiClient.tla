----------------------------- MODULE MCApiClient -----------------------------
(* ApiClient for TLC.  CrashSpec leaves deactivation out: processes end only *)
(* by crashing, the case the comment on the restart speaks of.               *)
EXTENDS ApiClient

CrashSpec == Init /\ [][Next /\ ~Stop]_vars
=============================================================================
