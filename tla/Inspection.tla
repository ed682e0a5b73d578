----------------------------- MODULE Inspection -----------------------------
(***************************************************************************)
(* What a node tells others of the objects it holds: the proof bundle of   *)
(* build_proof_bundle (`registry-core`), which export_object serves, the   *)
(* verdict a receiver reaches from that bundle alone, and the report of    *)
(* inspect_object (`window-api`), which works out its rows a second time   *)
(* beside the verdict.  Operators over the state of module Registry; both  *)
(* handlers hold the registry's mutex and change nothing.                  *)
(***************************************************************************)
EXTENDS Registry

\* Variant: the predecessor event is left out.
BuildProofBundle_NoPredecessor(o) ==
    LET in == Input(sealed[o], TheArtifact)
    IN  IF o \notin objects THEN None
        ELSE [object                    |-> sealed[o],
              creator_identity          |-> in.creator,
              module_registration       |-> in.module,
              time_authority_identity   |-> in.authority,
              policy_evaluator_identity |-> in.evaluator,
              predecessor_time_event    |-> None,
              parent_objects            |-> {sealed[q] : q \in sealed[o].parent_ids \cap objects}]

(***************************************************************************)
(* The bundle of an object: identities, module and events as the registry  *)
(* has them now, and the parents that are in the store.  The bundles of    *)
(* the parents (parent_proofs) are left out: no verifier reads them.       *)
(***************************************************************************)
BuildProofBundle(o) ==
    LET obj  == sealed[o]
        pred == obj.time_event.predecessor_event_id
    IN  IF o \notin objects THEN None
        ELSE [object                    |-> obj,
              creator_identity          |-> [id     |-> obj.origin.creator,
                                             key    |-> obj.origin.creator,
                                             kind   |-> KindOf(obj.origin.creator),
                                             status |-> status[obj.origin.creator]],
              module_registration       |-> [id |-> obj.origin.module, kind |-> obj.origin.module],
              time_authority_identity   |-> [id |-> TimeKey, key |-> TimeKey],
              policy_evaluator_identity |-> [id |-> PolicyKey, key |-> PolicyKey],
              predecessor_time_event    |-> IF pred \in DOMAIN events THEN events[pred] ELSE None,
              parent_objects            |-> {sealed[q] : q \in obj.parent_ids \cap objects}]
-----------------------------------------------------------------------------
(***************************************************************************)
(* inspect_object.  An object without an artifact has no verdict: it is    *)
(* shown as invalid, with the code MISSING_DATA.                           *)
(***************************************************************************)
Failures(o) ==
    IF o \notin DOMAIN artifacts THEN {"MISSING_DATA"}
    ELSE VerifyObject(Input(sealed[o], artifacts[o]), clock)

\* The status shown is that of the verdict; one there is none of is invalid.
ShownStatus(o) == IF Verdict(o) = "None" THEN "Invalid" ELSE Verdict(o)

\* The row only tells whether a predecessor is named, not whether it is there.
ChainLinkage(event) ==
    IF IsGenesis(event) THEN "GENESIS"
    ELSE IF event.predecessor_event_id # None THEN "LINKED"
    ELSE "PREDECESSOR_MISSING"

HashRow(o) ==
    IF o \in DOMAIN artifacts /\ artifacts[o].hash = sealed[o].payload_hash
    THEN "MATCH" ELSE "MISMATCH"

\* Variant: the handler's copy of the signed fields has no lineage.
SignatureRow_NoLineage(o) ==
    IF o \notin DOMAIN artifacts THEN "UNVERIFIABLE"
    ELSE IF SignatureOK(sealed[o].origin.creator,
                        [ObjSignPayload(sealed[o]) EXCEPT !.parent_ids = {}],
                        sealed[o].object_signature)
    THEN "VALID" ELSE "INVALID"

SignatureRow(o) ==
    IF o \notin DOMAIN artifacts THEN "UNVERIFIABLE"
    ELSE IF SignatureOK(sealed[o].origin.creator, ObjSignPayload(sealed[o]),
                        sealed[o].object_signature)
    THEN "VALID" ELSE "INVALID"

PolicyCodes  == {"PolicyDecisionNotPermit", "PolicyProofSignatureInvalid"}

PolicyRow(failures) == IF failures \cap PolicyCodes # {} THEN "Failed" ELSE "Verified"

LineageCodes == {"LineageParentMissing", "LineageParentInvalid",
                 "LineageParentTimestampViolation", "LineageSelfCycle",
                 "LineageCycleDetected"}

LineageRow(failures) ==
    IF failures \cap LineageCodes = {}                     THEN "CLEAN"
    ELSE IF "LineageParentMissing" \in failures            THEN "PARENT_MISSING"
    ELSE IF "LineageParentInvalid" \in failures            THEN "PARENT_INVALID"
    ELSE IF "LineageParentTimestampViolation" \in failures THEN "PARENT_TIMESTAMP_VIOLATION"
    ELSE IF failures \cap {"LineageSelfCycle", "LineageCycleDetected"} # {}
         THEN "CYCLE_DETECTED"
    ELSE "PARENT_INVALID"

\* GraphIndex::child_count: the edges that name the object as their parent.
Children(o) == {c \in Objects : <<c, o>> \in edges}

Inspect(o) ==
    [status                 |-> ShownStatus(o),
     failures               |-> Failures(o),
     creator_status         |-> status[sealed[o].origin.creator],
     chain_linkage_status   |-> ChainLinkage(sealed[o].time_event),
     signature_verified     |-> SignatureOK(TimeKey, TimeSignPayload(sealed[o].time_event),
                                            sealed[o].time_event.signature),
     recomputed_hash_status |-> HashRow(o),
     signature_status       |-> SignatureRow(o),
     proof_status           |-> PolicyRow(Failures(o)),
     lineage_status         |-> LineageRow(Failures(o)),
     parent_count           |-> Cardinality(sealed[o].parent_ids),
     child_count            |-> Cardinality(Children(o))]
=============================================================================
