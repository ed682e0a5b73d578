-------------------------- MODULE TransitionProps --------------------------
(***************************************************************************)
(* What must hold of governed transitions.                                 *)
(***************************************************************************)
EXTENDS Transition

Done(c) == pc[c] = "done"

\* What the sealed record of a call says.
Answered(c) ==
    IF ~ Done(c) THEN "none"
    ELSE IF Executed(record[c].outcome) THEN record[c].outcome.body.result
    ELSE "Refused"

Contents == {r.content : r \in UNION {Requests[c] : c \in Calls}}

(***************************************************************************)
(* Type correctness.                                                       *)
(***************************************************************************)
TypeOK ==
    /\ pc \in [Calls -> {"start", "open", "write", "settled", "done", "dead"}]
    /\ \A c \in Calls : request[c] \in Requests[c]
    /\ disk \in [Targets -> Contents \cup {Absent, Empty, Torn}]
    /\ touched \subseteq Calls
    /\ \A c \in Calls : outcome[c] # None => outcome[c].body.kind \in {"Executed", "Refused"}
    /\ \A c \in Calls : Done(c) <=> record[c] # None

(***************************************************************************)
(* Whose effects are allowed, from the rules alone: the grant is the       *)
(* authorizer's, a third party's, for this subject and for writing files;  *)
(* the action asks for just that; a policy that was attached permits.      *)
(***************************************************************************)
Allowed(r) ==
    /\ r.action.required = "LocalWrite" /\ r.action.verb = "create_file"
    /\ r.grant.granted_authority = "LocalWrite" /\ r.grant.subject = r.action.subject
    /\ r.grant.signature =
          IssueGrant(r.grant.authorizer, r.authorizer_key, "LocalWrite",
                     r.action.subject).signature
    /\ r.grant.authorizer \notin {r.proposer, Executor}
    /\ r.policy = None \/
          (r.policy.decision = "Permit" /\ VerifyPolicyProof(r.policy, r.policy_key))

(***************************************************************************)
(* No file changes but on behalf of a call that was allowed to, whatever   *)
(* the other calls do; and nobody who was allowed to is refused.           *)
(***************************************************************************)
EffectsAreAllowed ==
    /\ \A c \in touched : Allowed(request[c])
    /\ \A t \in Targets : disk[t] # Absent => \E c \in touched : Target(c) = t
    /\ \A c \in Calls : Done(c) /\ Allowed(request[c]) => Executed(record[c].outcome)

(***************************************************************************)
(* A refusal is a proof that nothing happened, and never disappears: a     *)
(* sealed refusal is of a call that touched nothing, and says so.          *)
(***************************************************************************)
RefusalsAreClean ==
    \A c \in Calls : Done(c) /\ ~ Executed(record[c].outcome) =>
        /\ c \notin touched
        /\ record[c].outcome.body.recorded
        /\ ~ record[c].outcome.body.side_effect_occurred
        /\ record[c].resulting_state = None

(***************************************************************************)
(* Completed records tell what is on disk.  The state a record results in  *)
(* is the content of the target, unless another call wrote there.  When    *)
(* several did and all have completed, the target holds what one of the    *)
(* records says or their bytes mixed: it is never left truncated, or with  *)
(* what no record tells of.                                                *)
(***************************************************************************)
Writers(t) == {c \in touched : Target(c) = t}

ResultIsOnDisk ==
    /\ \A c \in Calls :
           (Answered(c) = "Completed" /\ Writers(Target(c)) \subseteq {c}) =>
               disk[Target(c)] = record[c].resulting_state
    /\ \A t \in Targets :
           (Writers(t) # {} /\ \A c \in Writers(t) : Answered(c) = "Completed") =>
               \/ \E c \in Writers(t) : disk[t] = record[c].resulting_state
               \/ disk[t] = Torn /\ \E c, d \in Writers(t) : c # d

(***************************************************************************)
(* A record verifies, offline and with the keys that travel with it,       *)
(* exactly when its grant is authentic and the subject of the request is   *)
(* the subject of its action, whatever became of the call.  Whom the grant *)
(* is about plays no part in it: the refusal for a grant about somebody    *)
(* else verifies.                                                          *)
(***************************************************************************)
RecordVerifies ==
    \A c \in Calls : Done(c) =>
        (VerifyTransition(record[c], Keys(c)) <=>
            /\ VerifyAuthorization(request[c].grant, request[c].authorizer_key)
            /\ request[c].subject = request[c].action.subject)

(***************************************************************************)
(* What content an artifact passes with: a Completed record only with the  *)
(* one that was sealed; a Failed or Refused one, which names no content,   *)
(* with any.  Nothing else about the content decides.                      *)
(***************************************************************************)
ContentIsBound ==
    \A c \in Calls : Done(c) => \A x \in Contents :
        AllChecksPass(record[c], Keys(c), x) <=>
            /\ VerifyTransition(record[c], Keys(c))
            /\ Answered(c) = "Completed" => x = request[c].content

(***************************************************************************)
(* No part of one record can be put into another: receipts and refusals do *)
(* not name their transition, the recorder's signature alone binds them.   *)
(***************************************************************************)
NoTransplant ==
    \A c, d \in Calls : Done(c) /\ Done(d) =>
        \A f \in TransitionFields :
            LET mixed == [record[c] EXCEPT ![f] = record[d][f]]
            IN  VerifyTransition(mixed, Keys(c)) => mixed = record[c]

(***************************************************************************)
(* Governed transitions implement Governance: whatever the calls do beside *)
(* each other and wherever they fail or die, a file changes only for an    *)
(* allowed call that has no record yet, and the record says how it ended.  *)
(***************************************************************************)
Gov == INSTANCE Governance WITH
    Values   <- Contents \cup {Empty, Torn},
    allowed  <- {c \in Calls : Allowed(request[c])},
    aim      <- [c \in Calls |-> Target(c)],
    files    <- disk,
    affected <- touched,
    answer   <- [c \in Calls |-> Answered(c)]

ImplementsGovernance == Gov!Spec
-----------------------------------------------------------------------------
(***************************************************************************)
(* Claims of the repository the code does not keep.                        *)
(***************************************************************************)

(* The receipt records "what actually happened": if it says that no side   *)
(* effect occurred, the call did not touch its target.                     *)
EffectsAreReported ==
    \A c \in Calls : Done(c) /\ ~ record[c].outcome.body.side_effect_occurred =>
        c \notin touched

(* "A refusal record must itself verify."                                  *)
RefusalsVerify ==
    \A c \in Calls :
        /\ Done(c) /\ ~ Executed(record[c].outcome)
        /\ request[c].subject = request[c].action.subject
        => VerifyTransition(record[c], Keys(c))
=============================================================================
