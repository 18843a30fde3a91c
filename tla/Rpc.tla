---------------------------------- MODULE Rpc ----------------------------------
(***************************************************************************)
(* What a caller may rely on when it sends requests to the daemon, whoever *)
(* the caller is: the extension (ApiClient) or the graph view in its       *)
(* webview (WebviewTransport).                                             *)
(*                                                                         *)
(* A call is settled at most once.  It is answered only after the daemon   *)
(* carried it out, and the daemon carries out a call at most once, and     *)
(* none that was refused.  Nothing is promised the other way: a call that  *)
(* failed may have been carried out, or may yet be.                        *)
(*                                                                         *)
(* The exception is `confused': calls that may be answered with the        *)
(* response to another one, because an id was used twice.                  *)
(***************************************************************************)
EXTENDS FiniteSets

CONSTANT Calls

VARIABLES
    status,     \* of each call, as its caller sees it
    done,       \* calls the daemon carried out
    confused    \* calls whose id was used twice

vars == <<status, done, confused>>

Status == {"unsent", "waiting", "answered", "failed", "refused"}

Init ==
    /\ status = [c \in Calls |-> "unsent"]
    /\ done = {}
    /\ confused = {}

Settle(c, s) == status' = [status EXCEPT ![c] = s]

\* An id is used again: on the way from the caller to the daemon, here or later.
Reuse == \E reused \in SUBSET Calls : confused' = confused \cup reused

Send(c) ==
    /\ status[c] = "unsent"
    /\ Settle(c, "waiting")
    /\ Reuse
    /\ UNCHANGED done

Confuse == Reuse /\ UNCHANGED <<status, done>>

Refuse(c) ==
    /\ status[c] = "unsent"
    /\ Settle(c, "refused")
    /\ UNCHANGED <<done, confused>>

CarryOut(c) ==
    /\ status[c] \notin {"unsent", "refused"}
    /\ c \notin done
    /\ done' = done \cup {c}
    /\ UNCHANGED <<status, confused>>

Answer(c) ==
    /\ status[c] = "waiting"
    /\ c \in done \cup confused
    /\ Settle(c, "answered")
    /\ UNCHANGED <<done, confused>>

\* A timeout fails one call, the end of the daemon or of a view all of them.
Fail(cs) ==
    /\ cs # {}
    /\ \A c \in cs : status[c] = "waiting"
    /\ status' = [c \in Calls |-> IF c \in cs THEN "failed" ELSE status[c]]
    /\ UNCHANGED <<done, confused>>

Next ==
    \/ \E c \in Calls : Send(c) \/ Refuse(c) \/ CarryOut(c) \/ Answer(c)
    \/ \E cs \in SUBSET Calls : Fail(cs)
    \/ Confuse

Spec == Init /\ [][Next]_vars
=============================================================================
