-------------------------- MODULE InspectionProps ---------------------------
(***************************************************************************)
(* What must hold of the reports and bundles of module Inspection while    *)
(* the registry runs.                                                      *)
(***************************************************************************)
EXTENDS RegistryProps, Inspection

CONSTANT Roots     \* the root certificates a receiver may pin

\* No certificate, and no trust store, is the absence of one.
ASSUME RootsAssumption == None \notin Roots /\ \A roots \in SUBSET Roots : roots # None

\* The loaded objects sealed with o as a parent.
ChildrenOf(o) == {c \in objects : o \in Parents(c)}

(***************************************************************************)
(* The verdict travels: from the bundle and the bytes alone a receiver     *)
(* that pins no roots reaches the verdict the node itself would give, and  *)
(* one that pins roots differs from it exactly on the objects whose        *)
(* external time was stamped under another root; it never accepts more,    *)
(* and local time is accepted all the same.                                *)
(***************************************************************************)
BundleAgrees ==
    \A o \in objects \cap DOMAIN artifacts :
        LET bundle    == BuildProofBundle(o)
            verdict(roots) == VerifyFromProofBundle(bundle, artifacts[o], roots, clock)
            token     == sealed[o].time_event.rfc3161_token
        IN  /\ verdict(None) = Verdict(o)
            /\ \A roots \in (SUBSET Roots) \ {{}} :
                   verdict(roots) = "Verified" <=>
                       Verdict(o) = "Verified" /\ (token = None \/ token.root \in roots)

\* What the verifier's checks of the chain, the policy and the lineage say of
\* an object, apart from the others.
ChainFault(o)    == TimeChainFailures(Input(sealed[o], TheArtifact)) # {}
PolicyFault(o)   == PolicyFailures(Input(sealed[o], TheArtifact)) # {}
LineageFault(o)  == LineageFailures(Input(sealed[o], TheArtifact)) # {}

(***************************************************************************)
(* The report of an object beside the verifier and the store, though it    *)
(* works out its rows separately: the rows of the hash, the signatures,    *)
(* the creator, the policy and the lineage are bad exactly when the        *)
(* verifier's check of the same thing fails.  The row of the time chain is *)
(* weaker: GENESIS excludes a failure of the chain, while LINKED only says *)
(* that a predecessor is named; it stands beside TimePredecessorMissing    *)
(* after a restart, and PREDECESSOR_MISSING is never shown.  While the     *)
(* node is up no child whose seal succeeded is missing from the count, and *)
(* none is counted that the store does not hold.                           *)
(***************************************************************************)
InspectionHonest ==
    pc # "down" =>
        \A o \in objects :
            LET report == Inspect(o)
                shows(bad, code) == bad <=> code \in report.failures
            IN  /\ report.status = "Verified" <=> report.failures = {}
                /\ shows(report.recomputed_hash_status # "MATCH", "PayloadHashMismatch")
                /\ shows(report.signature_status # "VALID", "ObjectSignatureInvalid")
                /\ shows(~ report.signature_verified, "TimeSignatureInvalid")
                /\ shows(report.creator_status # "Active", "CreatorIdentityNotActive")
                /\ report.proof_status # "Verified" <=> PolicyFault(o)
                /\ report.lineage_status # "CLEAN" <=> LineageFault(o)
                /\ report.chain_linkage_status = "GENESIS" => ~ ChainFault(o)
                /\ report.chain_linkage_status # "PREDECESSOR_MISSING"
                /\ report.child_count <= Cardinality(ChildrenOf(o))
                /\ report.child_count >= Cardinality(ChildrenOf(o) \cap Acked)
=============================================================================
