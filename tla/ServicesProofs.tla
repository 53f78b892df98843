--------------------------- MODULE ServicesProofs ---------------------------
(***************************************************************************)
(* The services side by side: a behaviour of MCServices is one of every    *)
(* service's own specification, so what is proved of a service by itself   *)
(* holds of it in the composition.                                         *)
(***************************************************************************)
EXTENDS MCServices, VettingProofs, CrewOrdersProofs, MatchingProofs, ChatProofs,
        RowsProofs

\* A step of the composition is a step of one service and leaves the others as
\* they are.
LEMMA ServicesStep ==
  ASSUME [Next]_vars
  PROVE  /\ [VettingNext]_vetVars
         /\ [CrewNext]_crewVars
         /\ [MatchingNext]_matchVars
         /\ [ChatNext]_chatVars
         /\ [SignInNext]_signInVars
         /\ [UniqueNext]_uniqVars
<1>1. CASE Next
  BY <1>1 DEF Next, Rest
<1>2. CASE UNCHANGED vars
  BY <1>2 DEF vars
<1> QED
  BY <1>1, <1>2

\* The composition adds nothing to what each service does by itself.
THEOREM ServicesAreThemselves ==
  Spec => /\ VettingSpec
          /\ CrewSpec
          /\ MatchingSpec
          /\ ChatSpec
          /\ SignInSpec
          /\ UniqueSpec
<1>1. Init => /\ VettingInit /\ CrewInit /\ MatchingInit
              /\ ChatInit /\ SignInInit /\ UniqueInit
  BY DEF Init
<1>2. [Next]_vars => /\ [VettingNext]_vetVars
                     /\ [CrewNext]_crewVars
                     /\ [MatchingNext]_matchVars
                     /\ [ChatNext]_chatVars
                     /\ [SignInNext]_signInVars
                     /\ [UniqueNext]_uniqVars
  BY ServicesStep
<1> QED
  BY <1>1, <1>2, PTL DEF Spec, VettingSpec, CrewSpec, MatchingSpec, ChatSpec,
                         SignInSpec, UniqueSpec

\* Side by side as by itself, every service keeps its invariant.
THEOREM ServicesInvariance == Spec => []ServicesInv
<1>1. VettingInv /\ CrewInv /\ MatchingInv /\ ChatInv /\ SignInInv /\ UniqueInv
        => ServicesInv
  BY DEF ServicesInv
<1> QED
  BY <1>1, ServicesAreThemselves, VettingInvariance, CrewInvariance, MatchingInvariance,
     ChatInvariance, SignInInvariance, UniqueInvariance, PTL

=============================================================================
