------------------------- MODULE CitationValidation -------------------------
(***************************************************************************)
(* The claim/citation gate between a generated answer and its persistence  *)
(* (apps/api/app/agents/chat/citation_validation.py).                      *)
(*                                                                         *)
(* An answer is a set of claims: its sentences and lines, with the text    *)
(* reduced to what the validator reads off it.  `cites' holds the          *)
(* bracketed citation ids of the claim, `material' is the verdict of       *)
(* _is_material_claim, `asserts' that of the eligibility-assertion         *)
(* pattern, and `supportedBy' the sources whose label and content share    *)
(* two meaningful tokens and every number with the claim.                  *)
(***************************************************************************)
EXTENDS FiniteSets

CONSTANTS
    Sources,   \* citation ids a claim can carry
    Official   \* the ids whose source_kind is "official_scheme"

ASSUME OfficialAssumption == Official \subseteq Sources

Claim == [cites       : SUBSET Sources,
          material    : BOOLEAN,
          asserts     : BOOLEAN,
          supportedBy : SUBSET Sources]

Code == {"unknown_citation", "uncited_material_claim",
         "non_official_scheme_source", "unsupported_claim",
         "eligibility_assertion"}

\* The citations of a claim the support test looks at: those that resolve
\* and, for a material claim, are official.
Usable(claim, evidence) ==
    {id \in claim.cites \cap evidence : claim.material => id \in Official}

\* Whether the loop body appends this code for this claim.
Raises(code, claim, evidence) ==
    \/ /\ code = "unknown_citation"
       /\ ~(claim.cites \subseteq evidence)
    \/ /\ code = "eligibility_assertion"
       /\ claim.asserts
    \/ /\ code = "uncited_material_claim"
       /\ claim.material
       /\ claim.cites = {}
    \/ /\ code = "non_official_scheme_source"
       /\ claim.material
       /\ \E id \in claim.cites \cap evidence : id \notin Official
    \/ /\ code = "unsupported_claim"
       /\ claim.cites # {}
       /\ Usable(claim, evidence) = claim.cites
       /\ claim.cites \cap claim.supportedBy = {}

\* Mutant: the kind of a cited source is not looked at.
CodesOfAnyKind(claims, evidence) ==
    {code \in Code \ {"non_official_scheme_source"} :
        \E claim \in claims : Raises(code, claim, evidence)}

Codes(claims, evidence) ==
    {code \in Code : \E claim \in claims : Raises(code, claim, evidence)}

Valid(claims, evidence) == Codes(claims, evidence) = {}

CitedIds(claims) == UNION {claim.cites : claim \in claims}

-----------------------------------------------------------------------------
(* What a validated claim promises its reader, stated without the codes.   *)

Grounded(claim, evidence) ==
    /\ ~claim.asserts
    /\ claim.cites \subseteq evidence
    /\ claim.cites # {} => claim.cites \cap claim.supportedBy # {}
    /\ claim.material => /\ claim.cites # {}
                         /\ claim.cites \subseteq Official
=============================================================================
