------------------------------ MODULE Verifier ------------------------------
(***************************************************************************)
(* The receiver's check of one sealed object: verify_object of the crate   *)
(* `verifier`, with the helpers of time-core, policy-core and canon-types  *)
(* it calls.  The module has no variables: a verification is a function    *)
(* of its input and, through the certificate dates of an RFC 3161 token,   *)
(* of the receiver's clock.                                                *)
(*                                                                         *)
(* Data.  Bytes are represented by what the checks can tell apart: an      *)
(* artifact is a record of its digest and its size; a signature is the     *)
(* pair of the key and the content it was made over; the digest of a time  *)
(* event is the event itself (SHA-256 has no collisions here, Ed25519 no   *)
(* forgeries).  Failures are a set of codes: their order and their wording *)
(* are left out.                                                           *)
(***************************************************************************)
EXTENDS Integers, FiniteSets

CONSTANT None     \* Option::None

ObjectClasses   == {"Native", "AiGenerated", "SealedImport"}
IdentityKinds   == {"Personal", "Organization", "Service", "Session"}
IdentityStatus  == {"Active", "Suspended", "Revoked"}
ModuleKinds     == {"Import", "AiGeneration", "Capture", "Document", "Posting",
                    "CodeExecution"}

SUPPORTED_PROTOCOL     == "V1"
CURRENT_POLICY_VERSION == 1

Sign(key, content) == [key |-> key, content |-> content]

SignatureOK(key, content, signature) == signature = Sign(key, content)

(***************************************************************************)
(* The contents that get signed: every field of the record but the         *)
(* signature itself (time event, policy proof), or the seven fields of the *)
(* object envelope.                                                        *)
(***************************************************************************)
ObjSignPayload(obj) ==
    [object_id           |-> obj.object_id,
     object_class        |-> obj.object_class,
     payload_hash        |-> obj.payload_hash,
     artifact_size_bytes |-> obj.artifact_size_bytes,
     parent_ids          |-> obj.parent_ids,
     protocol            |-> obj.protocol,
     proof_chain         |-> obj.proof_chain]

TimeSignPayload(event) ==
    [f \in {"time_event_id", "timestamp", "authority", "predecessor_event_id",
            "predecessor_hash", "payload_hash", "time_source", "rfc3161_token",
            "anchored_time"} |-> event[f]]

PolicySignPayload(proof) ==
    [f \in {"decision", "policy_version", "context_hash", "evaluator"} |-> proof[f]]

Digest(event) == event

IsGenesis(event) == event.predecessor_event_id = None

(***************************************************************************)
(* verify_time_chain: a genesis event needs no predecessor; any other must *)
(* name the predecessor it is given and carry that event's digest.         *)
(***************************************************************************)
VerifyTimeChain(event, predecessor) ==
    \/ IsGenesis(event)
    \/ /\ predecessor.time_event_id = event.predecessor_event_id
       /\ event.predecessor_hash = Digest(predecessor)

VerifyPolicyProof(proof, key) ==
    /\ proof.decision = "Permit"
    /\ proof.policy_version = CURRENT_POLICY_VERSION
    /\ SignatureOK(key, PolicySignPayload(proof), proof.signature)

(***************************************************************************)
(* verify_token_full.  A token is a record: `defect` says what is wrong    *)
(* with it ("unparsable": the response does not decode; "cms": it decodes  *)
(* but its CMS part is malformed or of an unknown algorithm; "signature",  *)
(* "chain"; "none"), `hash` the digest it stamps, `not_before`/`not_after` *)
(* the validity of its certificates, `root` its root certificate or None.  *)
(* The steps run in this order and the first that fails decides; "ok" is   *)
(* success.  A trust store is a set of roots; the empty one is open.       *)
(***************************************************************************)
RootTrusted(root, roots) == roots = {} \/ (root # None /\ root \in roots)

CertValid(token, now) == token.not_before <= now /\ now <= token.not_after

VerifyTokenFull(token, hash, roots, now) ==
    IF token.defect = "unparsable"            THEN "TsaTokenMalformed"
    ELSE IF token.hash # hash                 THEN "TsaTokenHashMismatch"
    ELSE IF token.defect = "cms"              THEN "TsaTokenMalformed"
    ELSE IF token.defect = "signature"        THEN "TsaSignatureInvalid"
    ELSE IF token.defect = "chain"            THEN "TsaCertificateChainInvalid"
    ELSE IF ~ CertValid(token, now)           THEN "TsaCertificateExpired"
    ELSE IF ~ RootTrusted(token.root, roots)  THEN "TsaNotTrusted"
    ELSE "ok"

FailIf(condition, code) == IF condition THEN {code} ELSE {}
-----------------------------------------------------------------------------
(***************************************************************************)
(* The numbered checks of verify_object, each the set of codes it pushes.  *)
(***************************************************************************)
PayloadFailures(in) ==                                          \* 1, 1b
    FailIf(\/ in.artifact.hash # in.object.payload_hash
           \/ in.artifact.size # in.object.artifact_size_bytes,
           "PayloadHashMismatch")

SignatureFailures(in) ==                                        \* 2
    FailIf(~ SignatureOK(in.creator.key, ObjSignPayload(in.object),
                         in.object.object_signature),
           "ObjectSignatureInvalid")

CreatorFailures(in) ==                                          \* 3
    FailIf(in.creator.id # in.object.origin.creator, "OriginCreatorMismatch")
    \cup FailIf(in.creator.status # "Active", "CreatorIdentityNotActive")
    \cup FailIf(/\ in.creator.kind = "Session"
                /\ in.object.object_class \in {"Native", "AiGenerated"},
                "SessionCannotCreateNative")

\* The kind a module must have to seal an object of a class; any kind may
\* seal a native one.
ExpectedKinds(class) ==
    CASE class = "SealedImport" -> {"Import"}
      [] class = "AiGenerated"  -> {"AiGeneration"}
      [] OTHER                  -> ModuleKinds

ModuleFailures(in) ==                                           \* 4
    FailIf(in.module.id # in.object.origin.module, "OriginModuleMismatch")
    \cup FailIf(in.module.kind \notin ExpectedKinds(in.object.object_class),
                "ModuleKindMismatch")

TimeSignatureFailures(in) ==                                    \* 5
    FailIf(in.authority.id # in.object.origin.authority, "OriginTimeMismatch")
    \cup FailIf(~ SignatureOK(in.authority.key, TimeSignPayload(in.object.time_event),
                              in.object.time_event.signature),
                "TimeSignatureInvalid")

TimeChainFailures(in) ==                                        \* 6
    IF IsGenesis(in.object.time_event) THEN {}
    ELSE IF in.predecessor = None      THEN {"TimePredecessorMissing"}
    ELSE FailIf(~ VerifyTimeChain(in.object.time_event, in.predecessor),
                "TimePredecessorHashMismatch")

TsaFailures(in, now) ==                                         \* 6b
    LET event == in.object.time_event
        roots == IF in.tsa_roots = None THEN {} ELSE in.tsa_roots
    IN  IF event.time_source # "External"     THEN {}
        ELSE IF event.rfc3161_token = None    THEN {"TsaTokenMissing"}
        ELSE {VerifyTokenFull(event.rfc3161_token, in.object.payload_hash, roots, now)}
             \ {"ok"}

PolicyFailures(in) ==                                           \* 7
    FailIf(in.object.policy_proof.decision # "Permit", "PolicyDecisionNotPermit")
    \cup FailIf(~ VerifyPolicyProof(in.object.policy_proof, in.evaluator.key),
                "PolicyProofSignatureInvalid")

OriginFailures(in) ==                                           \* 8
    FailIf(in.object.origin.object_id # in.object.object_id, "OriginObjectIdMismatch")

AiFailures(in) ==                                               \* 9
    LET record == in.object.ai_generation
    IN  IF in.object.object_class # "AiGenerated" THEN {}
        ELSE IF record = None THEN {"AiGenerationRecordMissing"}
        ELSE FailIf(record.object_id # in.object.object_id, "AiGenerationObjectIdMismatch")
             \cup FailIf(record.output_hash # in.artifact.hash,
                         "AiGenerationOutputHashMismatch")

ImportFailures(in) ==                                           \* 10
    FailIf(/\ in.object.object_class = "SealedImport"
           /\ in.object.import_declaration = None,
           "ImportDeclarationMissing")

\* Variant: the order of the timestamps is not checked.
LineageFailures_Unordered(in) ==
    FailIf(in.object.object_id \in in.object.parent_ids, "LineageSelfCycle")
    \cup FailIf(\E pid \in in.object.parent_ids : \A p \in in.parents : p.object_id # pid,
                "LineageParentMissing")

\* in.parents: the parent objects supplied, as a set of
\* [object_id, timestamp], one per id.  RFC 3339 strings are compared as strings in the
\* code, which is the order of the instants: all come from one clock format.
LineageFailures(in) ==                                          \* 11
    LET supplied(pid) == {p \in in.parents : p.object_id = pid}
    IN  FailIf(in.object.object_id \in in.object.parent_ids, "LineageSelfCycle")
        \cup FailIf(\E pid \in in.object.parent_ids : supplied(pid) = {},
                    "LineageParentMissing")
        \cup FailIf(\E pid \in in.object.parent_ids : \E p \in supplied(pid) :
                        ~ (p.timestamp < in.object.time_event.timestamp),
                    "LineageParentTimestampViolation")

ProofChainFailures(in) ==                                       \* 12
    FailIf(/\ in.object.proof_chain # None
           /\ in.object.proof_chain.predecessor_proof_id # None
           /\ in.object.proof_chain.predecessor_payload_hash = None,
           "ChainPredecessorMissing")
-----------------------------------------------------------------------------
(***************************************************************************)
(* verify_object: the protocol gate returns at once; otherwise every check *)
(* runs and the failures accumulate.                                       *)
(***************************************************************************)
VerifyObject(in, now) ==
    IF in.object.protocol # SUPPORTED_PROTOCOL THEN {"OriginRecordMissing"}
    ELSE PayloadFailures(in) \cup SignatureFailures(in) \cup CreatorFailures(in)
         \cup ModuleFailures(in) \cup TimeSignatureFailures(in)
         \cup TimeChainFailures(in) \cup TsaFailures(in, now)
         \cup PolicyFailures(in) \cup OriginFailures(in) \cup AiFailures(in)
         \cup ImportFailures(in) \cup LineageFailures(in) \cup ProofChainFailures(in)

\* VerificationStatus::from_failures
FromFailures(failures) ==
    CASE failures = {}                        -> "Verified"
      [] "PayloadHashMismatch" \in failures   -> "Tampered"
      [] OTHER                                -> "Invalid"

\* verify_from_proof_bundle_with_trust: the receiver's input is the bundle,
\* the bytes and its own trust store (None: it pins no roots).
VerifyFromProofBundle(bundle, bytes, roots, now) ==
    FromFailures(VerifyObject(
        [object      |-> bundle.object,
         artifact    |-> bytes,
         creator     |-> bundle.creator_identity,
         module      |-> bundle.module_registration,
         authority   |-> bundle.time_authority_identity,
         evaluator   |-> bundle.policy_evaluator_identity,
         predecessor |-> bundle.predecessor_time_event,
         parents     |-> {[object_id |-> p.object_id, timestamp |-> p.time_event.timestamp] :
                             p \in bundle.parent_objects},
         tsa_roots   |-> roots], now))
=============================================================================
