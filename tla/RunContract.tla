---------------------------- MODULE RunContract ----------------------------
(***************************************************************************)
(* What `Rolekit.run` promises its callers, with none of its machinery.    *)
(* A call either is refused, or holds its run id from acceptance until it  *)
(* settles; a run id has one holder at a time; a call settles once; and a  *)
(* call whose adapter was asked to cancel never settles as completed.      *)
(***************************************************************************)
CONSTANTS
  Calls,    \* invocations of run()
  RunIds,   \* the identifiers callers may ask for
  NoRunId   \* not a run id

VARIABLES
  held,     \* held[c]: the run id call c holds, or NoRunId
  revoked,  \* revoked[c]: c's adapter has been asked to cancel
  settled   \* settled[c]: "pending", or what c's promise settled with

contractVars == <<held, revoked, settled>>

\* The four terminal run statuses, and the promise rejecting instead.
Statuses == {"completed", "failed", "blocked", "cancelled"}
Verdicts == Statuses \cup {"rejected"}

Init ==
  /\ held = [c \in Calls |-> NoRunId]
  /\ revoked = [c \in Calls |-> FALSE]
  /\ settled = [c \in Calls |-> "pending"]

\* A call that never holds its run id: bad options, or the id is taken.
Refuse(c) ==
  /\ settled[c] = "pending" /\ held[c] = NoRunId
  /\ settled' = [settled EXCEPT ![c] = "rejected"]
  /\ UNCHANGED <<held, revoked>>

Accept(c, r) ==
  /\ settled[c] = "pending" /\ held[c] = NoRunId
  /\ \A d \in Calls : held[d] # r
  /\ held' = [held EXCEPT ![c] = r]
  /\ UNCHANGED <<revoked, settled>>

\* One abort signal may be shared by several calls.
Revoke(C) ==
  /\ \A c \in C : held[c] # NoRunId
  /\ revoked' = [c \in Calls |-> revoked[c] \/ c \in C]
  /\ UNCHANGED <<held, settled>>

Settle(c, verdict) ==
  /\ held[c] # NoRunId
  /\ revoked[c] => verdict # "completed"
  /\ held' = [held EXCEPT ![c] = NoRunId]
  /\ settled' = [settled EXCEPT ![c] = verdict]
  /\ UNCHANGED revoked

Next ==
  \/ \E c \in Calls : Refuse(c)
  \/ \E c \in Calls, r \in RunIds : Accept(c, r)
  \/ \E C \in SUBSET Calls : Revoke(C)
  \/ \E c \in Calls, verdict \in Verdicts : Settle(c, verdict)

Spec == Init /\ [][Next]_contractVars
=============================================================================
