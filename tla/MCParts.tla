------------------------------- MODULE MCParts -------------------------------
(***************************************************************************)
(* Parts of the program that share no state, checked side by side: a       *)
(* behaviour chooses one of them and is a behaviour of its specification,  *)
(* the dashboard's within DashBounds.                                      *)
(***************************************************************************)
EXTENDS Keys, Dashboard, Transcript, CommandOutput, DiffAnchor, Listing, Attempt

VARIABLE part  \* the part whose behaviour this is

partsVars == <<part, keysVars, dashVars, transcriptVars, tailVars, anchorVars, listingVars, attemptVars>>

PartsInit ==
  /\ part \in {"keys", "dashboard", "transcript", "output", "anchor", "listing", "attempt"}
  /\ KeysInit /\ DashInit /\ TranscriptInit /\ TailInit /\ AnchorInit /\ ListingInit /\ AttemptInit
  /\ part # "dashboard" => before = DOMAIN jobs

Is(p) == part = p /\ UNCHANGED part

\* Bounds: of the new reviews the first is attempted, the others wait; log lines
\* arrive when nothing is left to do.
DashBounds ==
  /\ attempt' \in {0, Saved + 1} /\ \A n \in (Saved + 2)..Len(jobs') : jobs'[n] = "pending"
  /\ lines' = 0 \/ (Len(jobs') = Saved /\ attempt' = 0 /\ SubmittedIn(jobs') = DOMAIN jobs')

PartsNext ==
  \/ Is("keys") /\ KeysNext
     /\ UNCHANGED <<dashVars, transcriptVars, tailVars, anchorVars, listingVars, attemptVars>>
  \/ Is("dashboard") /\ DashNext /\ DashBounds
     /\ UNCHANGED <<keysVars, transcriptVars, tailVars, anchorVars, listingVars, attemptVars>>
  \/ Is("transcript") /\ TranscriptNext
     /\ UNCHANGED <<keysVars, dashVars, tailVars, anchorVars, listingVars, attemptVars>>
  \/ Is("output") /\ TailNext
     /\ UNCHANGED <<keysVars, dashVars, transcriptVars, anchorVars, listingVars, attemptVars>>
  \/ Is("anchor") /\ AnchorNext
     /\ UNCHANGED <<keysVars, dashVars, transcriptVars, tailVars, listingVars, attemptVars>>
  \/ Is("listing") /\ ListingNext
     /\ UNCHANGED <<keysVars, dashVars, transcriptVars, tailVars, anchorVars, attemptVars>>
  \/ Is("attempt") /\ AttemptNext
     /\ UNCHANGED <<keysVars, dashVars, transcriptVars, tailVars, anchorVars, listingVars>>

\* The fairness of a part asks nothing of the others: where it is not chosen,
\* its fair actions are not enabled.
PartsSpec == PartsInit /\ [][PartsNext]_partsVars /\ KeysFairness /\ DashFairness

\* A write may bring up to three bytes.
MCChunks == UNION {[1..n -> Bytes] : n \in 1..3}

\* A text ends up to two lines, and may begin another.
MCTexts == {<<>>, <<FALSE>>, <<TRUE>>, <<TRUE, FALSE>>, <<TRUE, TRUE>>}

\* All variables have their types, in every part.
PartsTypeOK ==
  /\ KeysTypeOK /\ DashTypeOK /\ TranscriptTypeOK /\ TailTypeOK
  /\ AnchorTypeOK /\ ListingTypeOK /\ AttemptTypeOK
=============================================================================
