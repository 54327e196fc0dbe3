----------------------------- MODULE PartsProofs -----------------------------
(***************************************************************************)
(* Proofs about MCParts: its behaviours are behaviours of every component, *)
(* so that what is proved of a component holds in it.  The converse is not *)
(* claimed: a component alone has more behaviours (DashBounds leaves out   *)
(* some of the dashboard's), and its own proofs are about all of them.     *)
(***************************************************************************)
EXTENDS MCParts, AttemptProofs, OutputProofs, DashboardProofs

\* A step of a part is a step of its component, and none of any other.
LEMMA PartsStep ==
  [PartsNext]_partsVars =>
    /\ [KeysNext]_keysVars /\ [DashNext]_dashVars /\ [TranscriptNext]_transcriptVars
    /\ [TailNext]_tailVars /\ [AnchorNext]_anchorVars /\ [ListingNext]_listingVars
    /\ [AttemptNext]_attemptVars
<1> SUFFICES ASSUME [PartsNext]_partsVars
             PROVE  /\ [KeysNext]_keysVars /\ [DashNext]_dashVars /\ [TranscriptNext]_transcriptVars
                    /\ [TailNext]_tailVars /\ [AnchorNext]_anchorVars /\ [ListingNext]_listingVars
                    /\ [AttemptNext]_attemptVars
  OBVIOUS
<1>1. CASE PartsNext
  BY <1>1 DEF PartsNext
<1>2. CASE UNCHANGED partsVars
  BY <1>2 DEF partsVars
<1> QED BY <1>1, <1>2

\* Every behaviour of MCParts is one of each component's specification, with
\* the fairness that is assumed of it: what is proved of a component's
\* specification holds in the composition that TLC checks.  This is one direction
\* only; the composition does not have every behaviour of each component.
THEOREM PartsAreTheirOwn ==
  PartsSpec =>
    /\ KeysSpec /\ KeysFairness /\ DashSpec /\ DashFairness
    /\ TranscriptSpec /\ TailSpec /\ AnchorSpec /\ ListingSpec /\ AttemptSpec
<1>1. PartsInit =>
        /\ KeysInit /\ DashInit /\ TranscriptInit /\ TailInit
        /\ AnchorInit /\ ListingInit /\ AttemptInit
  BY DEF PartsInit
<1> QED BY <1>1, PartsStep, PTL DEF PartsSpec, KeysSpec, DashSpec, TranscriptSpec, TailSpec,
     AnchorSpec, ListingSpec, AttemptSpec

\* The variables of all components have their types, on a link that brings the
\* bytes of a press together.
THEOREM PartsTypeCorrect ==
  ASSUME ~SlowLink PROVE PartsSpec => []PartsTypeOK
<1>1. PartsTypeOK <=> /\ KeysTypeOK /\ DashTypeOK /\ TranscriptTypeOK /\ TailTypeOK
                      /\ AnchorTypeOK /\ ListingTypeOK /\ AttemptTypeOK
  BY DEF PartsTypeOK
<1> QED BY <1>1, PartsAreTheirOwn, KeysTypeCorrect, DashTypeCorrect, TranscriptTypeCorrect,
     OutputTypeCorrect, AnchorTypeCorrect, ListingTypeCorrect, AttemptTypeCorrect, PTL
=============================================================================
