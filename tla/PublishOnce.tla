----------------------------- MODULE PublishOnce -----------------------------
(***************************************************************************)
(* What the daemon promises about publication, one job at a time: it       *)
(* commits to a review before it asks for it, asks once per commitment,    *)
(* and leaves the commitment only when it knows the outcome (README.md,    *)
(* "Recovery and limits").  ReviewEngine implements this specification,    *)
(* and so do all runs of WorkerService together.                           *)
(***************************************************************************)
CONSTANTS Jobs

VARIABLES
  phase,   \* phase[k]: what the saved state says: "open", "intent" or "done"
  remote   \* remote[k]: what became of the request: "none", "sent", "published"

vars == <<phase, remote>>

TypeOK ==
  /\ phase \in [Jobs -> {"open", "intent", "done"}]
  /\ remote \in [Jobs -> {"none", "sent", "published"}]

Init ==
  /\ phase = [k \in Jobs |-> "open"]
  /\ remote = [k \in Jobs |-> "none"]

\* The payload is saved before anything is sent.
Commit(k) ==
  /\ phase[k] = "open" /\ remote[k] = "none"
  /\ phase' = [phase EXCEPT ![k] = "intent"]
  /\ UNCHANGED remote

Send(k) ==
  /\ phase[k] = "intent" /\ remote[k] = "none"
  /\ remote' = [remote EXCEPT ![k] = "sent"]
  /\ UNCHANGED phase

\* GitHub creates the review, or does not.
Resolve(k) ==
  /\ remote[k] = "sent"
  /\ \E r \in {"none", "published"} : remote' = [remote EXCEPT ![k] = r]
  /\ UNCHANGED phase

\* Known to be published, or known never to be.
Confirm(k) ==
  /\ phase[k] = "intent" /\ remote[k] = "published"
  /\ phase' = [phase EXCEPT ![k] = "done"]
  /\ UNCHANGED remote

Withdraw(k) ==
  /\ phase[k] = "intent" /\ remote[k] = "none"
  /\ phase' = [phase EXCEPT ![k] = "open"]
  /\ UNCHANGED remote

Next == \E k \in Jobs : Commit(k) \/ Send(k) \/ Resolve(k) \/ Confirm(k) \/ Withdraw(k)

Spec == Init /\ [][Next]_vars
=============================================================================
