----------------------------- MODULE Transition -----------------------------
(***************************************************************************)
(* Governed transitions: govern, the filesystem executor and the recorder  *)
(* of the crate `win-transition`, and the receiver's check of the record   *)
(* and of the .win artifact that carries it.                               *)
(*                                                                         *)
(* Calls of govern run concurrently (window-api serves each request in its *)
(* own task, the SDK and the CLI in their own processes) and may write to  *)
(* the same target.  fs::write is what the standard library makes it: open *)
(* and truncate, then write; either can fail, and two writers of one file  *)
(* may leave a mixture.  A process may die at any point of a call.         *)
(*                                                                         *)
(* A digest is the content itself; ids, times and messages that nothing    *)
(* compares are left out.                                                  *)
(***************************************************************************)
EXTENDS Verifier

CONSTANTS
    Calls,          \* the calls of govern
    Requests,       \* the requests each may be made with: [Calls -> SUBSET request]
    Targets,        \* paths of the executor's host
    Executor,       \* identity of the executor; its key bears the same name
    Recorder        \* identity of the recorder; likewise

VARIABLES
    pc,         \* where each call is
    request,    \* the request of each call
    outcome,    \* what settle returned: an Executed receipt or a Refused record
    record,     \* the transition each call sealed
    disk,       \* content of each target
    touched     \* history: the calls that changed their target

vars == <<pc, request, outcome, record, disk, touched>>

Absent == "absent"   \* no file
Empty  == "empty"    \* opened and truncated
Torn   == "torn"     \* part of a content, or parts of two
-----------------------------------------------------------------------------
(***************************************************************************)
(* Grants: the authorizer signs one authority for one subject.             *)
(***************************************************************************)
GrantPayload(g) ==
    [granted_authority |-> g.granted_authority, subject |-> g.subject,
     authorizer |-> g.authorizer]

IssueGrant(authorizer, key, authority, subject) ==
    [granted_authority |-> authority, subject |-> subject, authorizer |-> authorizer,
     signature |-> Sign(key, [granted_authority |-> authority, subject |-> subject,
                              authorizer |-> authorizer])]

VerifyAuthorization(g, key) == SignatureOK(key, GrantPayload(g), g.signature)

Covers(granted, required) == granted = required

BoundAuthority == "LocalWrite"

\* Variant: the executor may have issued the grant itself.
Precheck_OwnGrant(r) ==
    IF ~ VerifyAuthorization(r.grant, r.authorizer_key) THEN "AuthorizationInvalid"
    ELSE IF r.proposer = r.grant.authorizer             THEN "SelfApproval"
    ELSE IF r.policy # None /\ ~ VerifyPolicyProof(r.policy, r.policy_key)
                                                        THEN "PolicyDenied"
    ELSE "permit"

(***************************************************************************)
(* govern's checks before the executor is asked, in order, and the gates   *)
(* of settle behind them: the reason of the refusal, or "permit".          *)
(***************************************************************************)
Precheck(r) ==
    IF ~ VerifyAuthorization(r.grant, r.authorizer_key) THEN "AuthorizationInvalid"
    ELSE IF r.proposer = r.grant.authorizer             THEN "SelfApproval"
    ELSE IF Executor = r.grant.authorizer               THEN "SelfApproval"
    ELSE IF r.policy # None /\ ~ VerifyPolicyProof(r.policy, r.policy_key)
                                                        THEN "PolicyDenied"
    ELSE "permit"

Gates(action, grant) ==
    IF action.subject # grant.subject                  THEN "SubjectMismatch"
    ELSE IF ~ Covers(grant.granted_authority, action.required)
                                                       THEN "AuthorizationScopeExceeded"
    ELSE IF action.required # BoundAuthority           THEN "AuthorizationScopeExceeded"
    ELSE IF action.verb # "create_file"                THEN "UnsupportedAction"
    ELSE "permit"

Decision(r) ==
    IF Precheck(r) # "permit" THEN Precheck(r) ELSE Gates(r.action, r.grant)

(***************************************************************************)
(* sign_receipt and sign_refusal, with the executor's key.                 *)
(***************************************************************************)
Signed(body, key) == [body |-> body, signature |-> Sign(key, body)]

Receipt(r, output, result, effect) ==
    Signed([kind |-> "Executed", verb |-> r.action.verb, destination |-> r.action.target,
            output |-> output, result |-> result, side_effect_occurred |-> effect,
            executor |-> Executor], Executor)

Refusal(r, reason) ==
    Signed([kind |-> "Refused", verb |-> r.action.verb,
            requested |-> r.action.required, permitted |-> r.grant.granted_authority,
            reason |-> reason, side_effect_occurred |-> FALSE, recorded |-> TRUE,
            refused_by |-> Executor], Executor)

Executed(o) == o.body.kind = "Executed"

(***************************************************************************)
(* The record: what the recorder signs and what it seals.                  *)
(***************************************************************************)
TransitionFields ==
    {"transition", "subject", "proposer", "action", "policy", "authorization",
     "outcome", "resulting_state"}

\* Variant: the outcome is left out of what the recorder signs.
TransitionPayload_NoOutcome(t) == [f \in TransitionFields \ {"outcome"} |-> t[f]]

TransitionPayload(t) == [f \in TransitionFields |-> t[f]]

Seal(c, r, o) ==
    LET t == [transition      |-> c,
              subject         |-> r.subject,
              proposer        |-> r.proposer,
              action          |-> r.action,
              policy          |-> r.policy,
              authorization   |-> r.grant,
              outcome         |-> o,
              resulting_state |-> IF Executed(o) THEN o.body.output ELSE None]
    IN  [f \in TransitionFields \cup {"signature"} |->
            IF f = "signature" THEN Sign(Recorder, TransitionPayload(t)) ELSE t[f]]
(***************************************************************************)
(* What settle can return for a request, and what is assumed of requests:  *)
(* they name targets of the host and a content (None stands for the absent *)
(* value, never for a content or a record); a policy proof that verifies   *)
(* does so under a key (govern reads an absent one as "", nobody's key).   *)
(***************************************************************************)
Outcomes(r) ==
    IF Decision(r) = "permit"
    THEN {Receipt(r, r.content, "Completed", TRUE), Receipt(r, None, "Failed", FALSE)}
    ELSE {Refusal(r, Decision(r))}

ASSUME TargetsAssumption ==
    \A c \in Calls : \A r \in Requests[c] : r.action.target \in Targets

ASSUME NoneAssumption ==
    \A c \in Calls : \A r \in Requests[c] :
        r.content # None /\ \A o \in Outcomes(r) : o # None /\ Seal(c, r, o) # None

ASSUME PolicyKeyAssumption ==
    \A c \in Calls : \A r \in Requests[c] :
        r.policy # None /\ VerifyPolicyProof(r.policy, r.policy_key) => r.policy_key # None
-----------------------------------------------------------------------------
Init ==
    /\ pc = [c \in Calls |-> "start"]
    /\ request \in {f \in [Calls -> UNION {Requests[c] : c \in Calls}] :
                        \A c \in Calls : f[c] \in Requests[c]}
    /\ outcome = [c \in Calls |-> None]
    /\ record = [c \in Calls |-> None]
    /\ disk = [t \in Targets |-> Absent]
    /\ touched = {}

Target(c) == request[c].action.target

Goto(c, here, there) == pc[c] = here /\ pc' = [pc EXCEPT ![c] = there]

Settled(c, o) == outcome' = [outcome EXCEPT ![c] = o]

\* The checks and the gates; a refusal is signed at once.
Refuse(c) ==
    /\ Goto(c, "start", "settled")
    /\ Decision(request[c]) # "permit"
    /\ Settled(c, Refusal(request[c], Decision(request[c])))
    /\ UNCHANGED <<request, record, disk, touched>>

Permit(c) ==
    /\ Goto(c, "start", "open")
    /\ Decision(request[c]) = "permit"
    /\ UNCHANGED <<request, outcome, record, disk, touched>>

\* fs::write.
OpenTarget(c) ==
    /\ Goto(c, "open", "write")
    /\ disk' = [disk EXCEPT ![Target(c)] = Empty]
    /\ touched' = touched \cup {c}
    /\ UNCHANGED <<request, outcome, record>>

\* Another writer's bytes may show past the end of a shorter content.
AfterWrite(found, content) ==
    IF found = Empty THEN {content} ELSE {content, Torn}

WriteTarget(c) ==
    /\ Goto(c, "write", "settled")
    /\ \E left \in AfterWrite(disk[Target(c)], request[c].content) :
          disk' = [disk EXCEPT ![Target(c)] = left]
    /\ Settled(c, Receipt(request[c], request[c].content, "Completed", TRUE))
    /\ UNCHANGED <<request, record, touched>>

\* Variants: a failed write reports the intended output, or reports a refusal.
FailedReceipt_Intended(c) == Receipt(request[c], request[c].content, "Completed", FALSE)
FailedReceipt_Refusal(c)  == Refusal(request[c], "UnsupportedAction")

FailedReceipt(c) == Receipt(request[c], None, "Failed", FALSE)

OpenFails(c) ==
    /\ Goto(c, "open", "settled")
    /\ Settled(c, FailedReceipt(c))
    /\ UNCHANGED <<request, record, disk, touched>>

WriteFails(c) ==
    /\ Goto(c, "write", "settled")
    /\ \E left \in {disk[Target(c)], Torn} :
          disk' = [disk EXCEPT ![Target(c)] = left]
    /\ Settled(c, FailedReceipt(c))
    /\ UNCHANGED <<request, record, touched>>

\* Variant: the record is not kept.
Record_Drops(c) ==
    /\ Goto(c, "settled", "done")
    /\ UNCHANGED <<request, outcome, record, disk, touched>>

\* The recorder seals, govern returns.
Record(c) ==
    /\ Goto(c, "settled", "done")
    /\ record' = [record EXCEPT ![c] = Seal(c, request[c], outcome[c])]
    /\ UNCHANGED <<request, outcome, disk, touched>>

\* The process of the call dies, maybe with part of the content written or all.
Die(c) ==
    /\ pc[c] \notin {"done", "dead"}
    /\ pc' = [pc EXCEPT ![c] = "dead"]
    /\ \/ UNCHANGED disk
       \/ /\ pc[c] = "write"
          /\ \E left \in AfterWrite(disk[Target(c)], request[c].content) \cup {Torn} :
                disk' = [disk EXCEPT ![Target(c)] = left]
    /\ UNCHANGED <<request, outcome, record, touched>>

Step(c) ==
    \/ Refuse(c) \/ Permit(c)
    \/ OpenTarget(c) \/ OpenFails(c)
    \/ WriteTarget(c) \/ WriteFails(c)
    \/ Record(c)

Next == \E c \in Calls : Step(c) \/ Die(c)

Spec == Init /\ [][Next]_vars
-----------------------------------------------------------------------------
\* Variant: an attached policy proof must be a permit, also of a refusal.
VerifyTransition_AlwaysPermit(t, keys) ==
    /\ SignatureOK(keys.recorder, TransitionPayload(t), t.signature)
    /\ VerifyAuthorization(t.authorization, keys.authorizer)
    /\ t.action.subject = t.subject
    /\ t.policy # None => keys.policy # None /\ VerifyPolicyProof(t.policy, keys.policy)
    /\ SignatureOK(keys.executor, t.outcome.body, t.outcome.signature)

(***************************************************************************)
(* verify_transition: every signature, and that the parts agree.  A policy *)
(* proof has to be a permit only for what was executed.                    *)
(***************************************************************************)
VerifyTransition(t, keys) ==
    /\ SignatureOK(keys.recorder, TransitionPayload(t), t.signature)
    /\ VerifyAuthorization(t.authorization, keys.authorizer)
    /\ t.action.subject = t.subject
    /\ t.policy # None /\ Executed(t.outcome) =>
          keys.policy # None /\ VerifyPolicyProof(t.policy, keys.policy)
    /\ SignatureOK(keys.executor, t.outcome.body, t.outcome.signature)
    /\ IF Executed(t.outcome)
       THEN t.outcome.body.result = "Completed" =>
                t.resulting_state = t.outcome.body.output
       ELSE ~ t.outcome.body.side_effect_occurred /\ t.resulting_state = None

\* Variant: the carried file is not hashed.
ContentIntegrity_Unhashed(t, content) ==
    IF ~ Executed(t.outcome) \/ t.outcome.body.output = None THEN "NotApplicable"
    ELSE "Valid"

(***************************************************************************)
(* verify_win and all_checks_pass, on a transition that came with a file   *)
(* of the given content.                                                   *)
(***************************************************************************)
ContentIntegrity(t, content) ==
    IF ~ Executed(t.outcome) \/ t.outcome.body.output = None THEN "NotApplicable"
    ELSE IF t.outcome.body.output = content                  THEN "Valid"
    ELSE "Mismatch"

AllChecksPass(t, keys, content) ==
    VerifyTransition(t, keys) /\ ContentIntegrity(t, content) # "Mismatch"

\* The keys that travel with the record of a call.
Keys(c) ==
    [recorder |-> Recorder, authorizer |-> request[c].authorizer_key,
     executor |-> Executor, policy |-> request[c].policy_key]
=============================================================================
