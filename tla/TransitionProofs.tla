-------------------------- MODULE TransitionProofs --------------------------
(***************************************************************************)
(* For any calls, requests and interleaving of their writes: only allowed  *)
(* calls have effects, a sealed refusal is of a call that had none, the    *)
(* records say what happened, and the calls implement Governance.          *)
(***************************************************************************)
EXTENDS TransitionProps, TLAPS

(***************************************************************************)
(* The gates of govern and of settle, run in their order, let exactly the  *)
(* allowed requests through.                                               *)
(***************************************************************************)
LEMMA PermitIsAllowed ==
    ASSUME NEW r
    PROVE  Decision(r) = "permit" <=> Allowed(r)
<1>1. Precheck(r) = "permit" <=>
        /\ VerifyAuthorization(r.grant, r.authorizer_key)
        /\ r.grant.authorizer \notin {r.proposer, Executor}
        /\ r.policy = None \/ VerifyPolicyProof(r.policy, r.policy_key)
  BY DEF Precheck
<1>2. Gates(r.action, r.grant) = "permit" <=>
        /\ r.action.subject = r.grant.subject
        /\ r.grant.granted_authority = r.action.required
        /\ r.action.required = "LocalWrite"
        /\ r.action.verb = "create_file"
  BY DEF Gates, Covers, BoundAuthority
<1>3. Decision(r) = "permit" <=> Precheck(r) = "permit" /\ Gates(r.action, r.grant) = "permit"
  BY DEF Decision
<1>4. ASSUME r.grant.granted_authority = "LocalWrite", r.grant.subject = r.action.subject
      PROVE  VerifyAuthorization(r.grant, r.authorizer_key) <=>
               r.grant.signature =
                 IssueGrant(r.grant.authorizer, r.authorizer_key, "LocalWrite",
                            r.action.subject).signature
  BY <1>4 DEF VerifyAuthorization, SignatureOK, GrantPayload, IssueGrant
<1>5. VerifyPolicyProof(r.policy, r.policy_key) => r.policy.decision = "Permit"
  BY DEF VerifyPolicyProof
<1> QED
  BY <1>1, <1>2, <1>3, <1>4, <1>5 DEF Allowed

(***************************************************************************)
(* A call past the gates is allowed; one that has not written yet touched  *)
(* nothing; what settle returned agrees with the gates; the record seals   *)
(* what settle returned.                                                   *)
(***************************************************************************)
OutcomeSound(c) ==
    IF Executed(outcome[c])
    THEN Decision(request[c]) = "permit"
    ELSE /\ Decision(request[c]) # "permit"
         /\ outcome[c].body.recorded
         /\ ~ outcome[c].body.side_effect_occurred

RecordSound(c) ==
    /\ record[c].outcome = outcome[c]
    /\ ~ Executed(outcome[c]) => record[c].resulting_state = None

Shape ==
    /\ pc \in [Calls -> {"start", "open", "write", "settled", "done", "dead"}]
    /\ outcome = [c \in Calls |-> outcome[c]]
    /\ record = [c \in Calls |-> record[c]]
    /\ disk = [t \in Targets |-> disk[t]]
    /\ touched \subseteq Calls

IInv ==
    /\ Shape
    /\ \A c \in Calls : pc[c] \in {"open", "write"} => Decision(request[c]) = "permit"
    /\ \A c \in touched : Decision(request[c]) = "permit"
    /\ \A c \in Calls : pc[c] = "write" => c \in touched
    /\ \A t \in Targets : disk[t] # Absent => \E c \in touched : Target(c) = t
    /\ \A c \in Calls : pc[c] \in {"settled", "done"} => OutcomeSound(c)
    /\ \A c \in Calls : pc[c] = "done" => RecordSound(c)
-----------------------------------------------------------------------------
\* IInv holds before any call.
LEMMA InitIInv == Init => IInv
  BY DEF Init, IInv, Shape

(***************************************************************************)
(* The step of one call leaves what the invariant says of the others.      *)
(***************************************************************************)
LEMMA RefuseIInv ==
    ASSUME IInv, NEW c \in Calls, Refuse(c)
    PROVE  IInv'
<1> USE DEF Refuse, Goto, Settled, Shape
<1>1. Shape'
  BY DEF IInv
<1>2. OutcomeSound(c)'
  BY DEF OutcomeSound, Refusal, Signed, Executed, IInv
<1>3. \A d \in Calls : pc'[d] \in {"settled", "done"} => OutcomeSound(d)'
  BY <1>2 DEF OutcomeSound, Executed, IInv
<1>4. \A d \in Calls : pc'[d] = "done" => RecordSound(d)'
  BY DEF RecordSound, Executed, IInv
<1> QED
  BY <1>1, <1>3, <1>4 DEF IInv, Target

\* A permit keeps IInv.
LEMMA PermitIInv ==
    ASSUME IInv, NEW c \in Calls, Permit(c)
    PROVE  IInv'
  BY DEF Permit, Goto, Shape, IInv, Target, OutcomeSound, RecordSound

\* Opening the target keeps IInv: the call that touches it was permitted.
LEMMA OpenIInv ==
    ASSUME IInv, NEW c \in Calls, OpenTarget(c)
    PROVE  IInv'
<1> USE DEF OpenTarget, Goto, Shape
<1>1. \A t \in Targets : disk'[t] # Absent => \E d \in touched' : Target(d)' = t
  BY DEF IInv, Target
<1>2. /\ Shape'
      /\ \A d \in Calls : pc'[d] \in {"settled", "done"} => OutcomeSound(d)'
      /\ \A d \in Calls : pc'[d] = "done" => RecordSound(d)'
  BY DEF IInv, OutcomeSound, RecordSound
<1> QED
  BY <1>1, <1>2 DEF IInv

(***************************************************************************)
(* However fs::write ended, what it leaves behind is the call's own.       *)
(***************************************************************************)
LEMMA SettleIInv ==
    ASSUME IInv, NEW c \in Calls, OpenFails(c) \/ WriteTarget(c) \/ WriteFails(c)
    PROVE  IInv'
<1>1. /\ pc[c] \in {"open", "write"} /\ pc' = [pc EXCEPT ![c] = "settled"]
      /\ UNCHANGED <<request, record, touched>>
      /\ \E r : outcome' = [outcome EXCEPT ![c] = r] /\ Executed(r)
  <2> DEFINE written == Receipt(request[c], request[c].content, "Completed", TRUE)
  <2>1. Executed(FailedReceipt(c)) /\ Executed(written)
    BY DEF Executed, FailedReceipt, Receipt, Signed
  <2> HIDE DEF written
  <2>2. outcome' = [outcome EXCEPT ![c] = FailedReceipt(c)]
        \/ outcome' = [outcome EXCEPT ![c] = written]
    BY DEF OpenFails, WriteTarget, WriteFails, Settled, written
  <2>3. /\ pc[c] \in {"open", "write"} /\ pc' = [pc EXCEPT ![c] = "settled"]
        /\ UNCHANGED <<request, record, touched>>
    BY DEF OpenFails, WriteTarget, WriteFails, Goto
  <2> QED
    BY <2>1, <2>2, <2>3
<1>2. disk' = disk \/ (c \in touched /\ \E v : disk' = [disk EXCEPT ![Target(c)] = v])
  BY DEF OpenFails, WriteTarget, WriteFails, Goto, IInv
<1>3. \A t \in Targets : disk'[t] # Absent => \E d \in touched' : Target(d)' = t
  BY <1>1, <1>2 DEF IInv, Shape, Target
<1>4. Shape'
  BY <1>1, <1>2 DEF IInv, Shape
<1>5. OutcomeSound(c)'
  BY <1>1 DEF OutcomeSound, IInv, Shape
<1>6. \A d \in Calls : pc'[d] \in {"settled", "done"} => OutcomeSound(d)'
  BY <1>1, <1>5 DEF OutcomeSound, IInv, Shape
<1>7. \A d \in Calls : pc'[d] = "done" => RecordSound(d)'
  BY <1>1 DEF RecordSound, IInv, Shape
<1> QED
  BY <1>1, <1>3, <1>4, <1>6, <1>7 DEF IInv, Shape

\* The recorder keeps IInv: the record carries the outcome of the call.
LEMMA RecordIInv ==
    ASSUME IInv, NEW c \in Calls, Record(c)
    PROVE  IInv'
<1> USE DEF Record, Goto, Shape
<1>1. RecordSound(c)'
  BY DEF RecordSound, Seal, TransitionFields, IInv
<1>2. \A d \in Calls : pc'[d] = "done" => RecordSound(d)'
  BY <1>1 DEF RecordSound, IInv
<1>3. \A d \in Calls : pc'[d] \in {"settled", "done"} => OutcomeSound(d)'
  BY DEF OutcomeSound, IInv
<1> QED
  BY <1>2, <1>3 DEF IInv, Target

\* Every step keeps IInv.
LEMMA StepIInv == IInv /\ [Next]_vars => IInv'
<1> SUFFICES ASSUME IInv, [Next]_vars PROVE IInv'
  OBVIOUS
<1>1. ASSUME NEW c \in Calls, Step(c) PROVE IInv'
  BY <1>1, RefuseIInv, PermitIInv, OpenIInv, SettleIInv, RecordIInv DEF Step
<1>2. ASSUME NEW c \in Calls, Die(c) PROVE IInv'
  <2>1. /\ pc' = [pc EXCEPT ![c] = "dead"]
        /\ UNCHANGED <<request, outcome, record, touched>>
    BY <1>2 DEF Die
  <2>2. disk' = disk \/ (c \in touched /\ \E v : disk' = [disk EXCEPT ![Target(c)] = v])
    BY <1>2 DEF Die, IInv
  <2>3. \A t \in Targets : disk'[t] # Absent => \E d \in touched' : Target(d)' = t
    BY <2>1, <2>2 DEF IInv, Shape, Target
  <2>4. Shape'
    BY <2>1, <2>2 DEF IInv, Shape
  <2> QED
    BY <2>1, <2>3, <2>4 DEF IInv, Shape, OutcomeSound, RecordSound
<1>3. CASE UNCHANGED vars
  BY <1>3 DEF vars, Shape, IInv, Target, OutcomeSound, RecordSound
<1> QED
  BY <1>1, <1>2, <1>3 DEF Next

(***************************************************************************)
(* IInv holds in every reachable state: what a call did to its target and  *)
(* what its outcome and record say follow from the decision on it.         *)
(***************************************************************************)
THEOREM TransitionInductive == Spec => []IInv
<1> QED
  BY InitIInv, StepIInv, PTL DEF Spec

-----------------------------------------------------------------------------
(***************************************************************************)
(* No file changes but for a call that was allowed to change it, and no    *)
(* call that was allowed to is refused.                                    *)
(***************************************************************************)
THEOREM OnlyAllowedEffects == Spec => []EffectsAreAllowed
<1>1. IInv => EffectsAreAllowed
  <2> SUFFICES ASSUME IInv PROVE EffectsAreAllowed
    OBVIOUS
  <2>1. \A c \in touched : Allowed(request[c])
    BY PermitIsAllowed DEF IInv
  <2>2. \A c \in Calls : Done(c) /\ Allowed(request[c]) => Executed(record[c].outcome)
    BY PermitIsAllowed DEF IInv, Done, OutcomeSound, RecordSound
  <2> QED
    BY <2>1, <2>2 DEF IInv, EffectsAreAllowed
<1> QED
  BY <1>1, TransitionInductive, PTL

(***************************************************************************)
(* Every sealed refusal proves that no side effect happened.               *)
(***************************************************************************)
THEOREM RefusalsProveNoEffect == Spec => []RefusalsAreClean
<1>1. IInv => RefusalsAreClean
  BY DEF IInv, RefusalsAreClean, Done, OutcomeSound, RecordSound
<1> QED
  BY <1>1, TransitionInductive, PTL
-----------------------------------------------------------------------------
(***************************************************************************)
(* What the records say.  Reasoning about one needs what every part of it  *)
(* is: the outcome is one settle can return for the request, the record is *)
(* what the recorder makes of it; and while no other call touches the      *)
(* target of a call, the target holds what the call last did to it.        *)
(***************************************************************************)
Alone(c) == \A d \in touched \ {c} : Target(d) # Target(c)

Completed(c) == outcome[c] = Receipt(request[c], request[c].content, "Completed", TRUE)

OnDisk(c) ==
    Alone(c) =>
        /\ pc[c] = "write" => disk[Target(c)] = Empty
        /\ pc[c] \in {"settled", "done"} /\ Completed(c) =>
              disk[Target(c)] = request[c].content

DiskInv ==
    /\ disk \in [Targets -> Contents \cup {Absent, Empty, Torn}]
    /\ \A c \in Calls : OnDisk(c)

OutcomeOf(c) ==
    IF pc[c] \in {"start", "open", "write"} THEN outcome[c] = None
    ELSE outcome[c] \in Outcomes(request[c]) \/ (pc[c] = "dead" /\ outcome[c] = None)

RecordOf(c) ==
    IF pc[c] = "done" THEN record[c] = Seal(c, request[c], outcome[c]) ELSE record[c] = None

RInv ==
    /\ IInv
    /\ \A c \in Calls : request[c] \in Requests[c]
    /\ \A c \in Calls : OutcomeOf(c) /\ RecordOf(c)
    /\ DiskInv

\* RInv holds before any call.
LEMMA InitRInv == Init => RInv
<1> SUFFICES ASSUME Init PROVE RInv
  OBVIOUS
<1>1. IInv
  BY InitIInv
<1>2. DiskInv
  BY DEF Init, DiskInv, OnDisk
<1> QED
  BY <1>1, <1>2 DEF Init, RInv, OutcomeOf, RecordOf

\* The two outcomes of the executor are not each other.
LEMMA FailedIsNotCompleted ==
    ASSUME NEW c, NEW r
    PROVE  Receipt(r, None, "Failed", FALSE) # Receipt(r, r.content, "Completed", TRUE)
  BY DEF Receipt, Signed

(***************************************************************************)
(* What one step of a call does to the disk: nothing; or it opens its      *)
(* target; or it writes there, having opened it, and ends.                 *)
(***************************************************************************)
LEMMA DiskStep ==
    ASSUME RInv, NEW c \in Calls, Step(c) \/ Die(c)
    PROVE  DiskInv'
<1>0. /\ request' = request
      /\ \A d \in Calls : Target(d) \in Targets /\ Target(d)' = Target(d)
      /\ \A d \in Calls : request[d].content \in Contents
  <2>1. request' = request
    BY DEF Step, Die, Refuse, Permit, OpenTarget, OpenFails, WriteTarget, WriteFails, Record
  <2> QED
    BY <2>1, TargetsAssumption DEF RInv, Target, Contents
<1>1. \A d \in Calls \ {c} : pc'[d] = pc[d] /\ outcome'[d] = outcome[d]
  BY DEF RInv, IInv, Shape, Step, Die, Refuse, Permit, OpenTarget, OpenFails, WriteTarget,
         WriteFails, Record, Goto, Settled
<1>2. CASE disk' = disk /\ touched' = touched /\ pc'[c] # "write"
           /\ (pc'[c] \in {"settled", "done"} /\ Completed(c)' =>
                  pc[c] \in {"settled", "done"} /\ Completed(c))
  <2>1. \A d \in Calls : Alone(d)' => Alone(d)
    BY <1>0, <1>2 DEF Alone, RInv, IInv, Shape
  <2>2. \A d \in Calls \ {c} : OnDisk(d)'
    BY <2>1, <1>0, <1>1, <1>2 DEF RInv, DiskInv, OnDisk, Completed
  <2>3. OnDisk(c)'
    BY <2>1, <1>0, <1>2 DEF RInv, DiskInv, OnDisk
  <2> QED
    BY <1>2, <2>2, <2>3, <1>0 DEF RInv, DiskInv
<1>3. CASE OpenTarget(c)
  <2>1. /\ disk' = [disk EXCEPT ![Target(c)] = Empty]
        /\ touched' = touched \cup {c} /\ pc'[c] = "write"
    BY <1>3 DEF OpenTarget, Goto, RInv, IInv, Shape
  <2>2. ASSUME NEW d \in Calls \ {c}, Alone(d)'
        PROVE  Alone(d) /\ disk'[Target(d)] = disk[Target(d)]
    BY <2>1, <2>2, <1>0 DEF Alone, RInv, DiskInv, IInv, Shape
  <2>3. \A d \in Calls \ {c} : OnDisk(d)'
    BY <2>2, <1>0, <1>1 DEF OnDisk, RInv, DiskInv, Completed
  <2>4. OnDisk(c)'
    BY <2>1, <1>0 DEF OnDisk, RInv, DiskInv
  <2> QED
    BY <2>1, <2>3, <2>4, <1>0 DEF RInv, DiskInv
<1>4. CASE /\ pc[c] = "write" /\ touched' = touched
           /\ \E v \in Contents \cup {Absent, Empty, Torn} :
                 disk' = [disk EXCEPT ![Target(c)] = v]
           /\ \/ pc'[c] \in {"settled", "dead"} /\ ~ Completed(c)'
              \/ pc'[c] = "dead"
              \/ WriteTarget(c)
  <2>1. c \in touched
    BY <1>4 DEF RInv, IInv
  <2>2. ASSUME NEW d \in Calls \ {c}, Alone(d)'
        PROVE  Alone(d) /\ disk'[Target(d)] = disk[Target(d)]
    BY <2>1, <2>2, <1>4, <1>0 DEF Alone, RInv, DiskInv, IInv, Shape
  <2>3. \A d \in Calls \ {c} : OnDisk(d)'
    BY <2>2, <1>0, <1>1 DEF OnDisk, RInv, DiskInv, Completed
  <2>4. OnDisk(c)'
    <3>1. CASE (pc'[c] \in {"settled", "dead"} /\ ~ Completed(c)') \/ pc'[c] = "dead"
      BY <3>1 DEF OnDisk
    <3>2. CASE WriteTarget(c)
      <4>1. SUFFICES ASSUME Alone(c)' PROVE disk'[Target(c)] = request[c].content
        BY <1>0, <3>2 DEF OnDisk, WriteTarget, Goto, RInv, IInv, Shape
      <4>2. disk[Target(c)] = Empty
        BY <4>1, <1>0, <1>4 DEF Alone, OnDisk, RInv, DiskInv, IInv, Shape
      <4> QED
        BY <4>2, <3>2, <1>0 DEF WriteTarget, AfterWrite, RInv, DiskInv
    <3> QED
      BY <3>1, <3>2, <1>4
  <2> QED
    BY <1>4, <2>3, <2>4, <1>0 DEF RInv, DiskInv
<1>5. CASE Refuse(c)
  <2>1. ~ Completed(c)'
    BY <1>5, <1>0 DEF Refuse, Settled, Refusal, Receipt, Signed, Completed, RInv, IInv, Shape
  <2> QED
    BY <1>2, <1>5, <2>1 DEF Refuse, Goto, RInv, IInv, Shape
<1>6. CASE Permit(c) \/ Record(c)
  BY <1>2, <1>6, <1>0 DEF Permit, Record, Goto, RInv, IInv, Shape, Completed
<1>7. CASE OpenFails(c)
  <2>1. ~ Completed(c)'
    BY <1>7, <1>0, FailedIsNotCompleted
       DEF OpenFails, Settled, FailedReceipt, Completed, RInv, IInv, Shape
  <2> QED
    BY <1>2, <1>7, <2>1 DEF OpenFails, Goto, RInv, IInv, Shape
<1>8. CASE WriteTarget(c)
  <2>1. \E v \in Contents \cup {Absent, Empty, Torn} : disk' = [disk EXCEPT ![Target(c)] = v]
    BY <1>8, <1>0 DEF WriteTarget, AfterWrite
  <2> QED
    BY <1>4, <1>8, <2>1 DEF WriteTarget, Goto
<1>9. CASE WriteFails(c)
  <2>1. ~ Completed(c)'
    BY <1>9, <1>0, FailedIsNotCompleted
       DEF WriteFails, Settled, FailedReceipt, Completed, RInv, IInv, Shape
  <2>2. \E v \in Contents \cup {Absent, Empty, Torn} : disk' = [disk EXCEPT ![Target(c)] = v]
    BY <1>9, <1>0 DEF WriteFails, RInv, DiskInv
  <2> QED
    BY <1>4, <1>9, <2>1, <2>2 DEF WriteFails, Goto, RInv, IInv, Shape
<1>10. CASE Die(c)
  <2>1. pc'[c] = "dead" /\ touched' = touched
    BY <1>10 DEF Die, RInv, IInv, Shape
  <2>2. CASE UNCHANGED disk
    BY <2>1, <2>2, <1>2
  <2>3. CASE pc[c] = "write" /\ ~ UNCHANGED disk
    <3>1. \E v \in Contents \cup {Absent, Empty, Torn} : disk' = [disk EXCEPT ![Target(c)] = v]
      BY <1>10, <2>3, <1>0 DEF Die, AfterWrite
    <3> QED
      BY <1>4, <2>1, <2>3, <3>1
  <2> QED
    BY <1>10, <2>2, <2>3 DEF Die
<1> QED
  BY <1>3, <1>5, <1>6, <1>7, <1>8, <1>9, <1>10 DEF Step
(***************************************************************************)
(* A call's outcome is one its request can have, and the record seals it.  *)
(***************************************************************************)
LEMMA OutcomeStep ==
    ASSUME RInv, NEW c \in Calls, Step(c) \/ Die(c)
    PROVE  \A d \in Calls : OutcomeOf(d)' /\ RecordOf(d)'
<1>0. /\ request' = request
      /\ \A d \in Calls \ {c} :
            pc'[d] = pc[d] /\ outcome'[d] = outcome[d] /\ record'[d] = record[d]
  BY DEF RInv, IInv, Shape, Step, Die, Refuse, Permit, OpenTarget, OpenFails, WriteTarget,
         WriteFails, Record, Goto, Settled
<1>1. \A d \in Calls \ {c} : OutcomeOf(d)' /\ RecordOf(d)'
  BY <1>0 DEF RInv, OutcomeOf, RecordOf
<1>2. CASE Refuse(c)
  <2>1. outcome'[c] \in Outcomes(request[c])
    BY <1>2 DEF Refuse, Settled, Outcomes, RInv, IInv, Shape
  <2> QED
    BY <1>0, <1>2, <2>1 DEF Refuse, Goto, OutcomeOf, RecordOf, RInv, IInv, Shape
<1>3. CASE OpenFails(c) \/ WriteTarget(c) \/ WriteFails(c)
  <2>1. pc[c] \in {"open", "write"} /\ pc'[c] = "settled" /\ record' = record
    BY <1>3 DEF OpenFails, WriteTarget, WriteFails, Goto, RInv, IInv, Shape
  <2>2. Decision(request[c]) = "permit"
    BY <2>1 DEF RInv, IInv
  <2>3. outcome'[c] \in Outcomes(request[c])
    BY <1>3, <2>2 DEF OpenFails, WriteTarget, WriteFails, Settled, FailedReceipt, Outcomes,
                      RInv, IInv, Shape
  <2> QED
    BY <1>0, <2>1, <2>3 DEF OutcomeOf, RecordOf, RInv
<1>4. CASE Permit(c) \/ OpenTarget(c)
  BY <1>0, <1>4 DEF Permit, OpenTarget, Goto, OutcomeOf, RecordOf, RInv, IInv, Shape
<1>5. CASE Record(c)
  BY <1>0, <1>5 DEF Record, Goto, OutcomeOf, RecordOf, RInv, IInv, Shape
<1>6. CASE Die(c)
  BY <1>0, <1>6 DEF Die, OutcomeOf, RecordOf, RInv, IInv, Shape
<1> QED
  BY <1>1, <1>2, <1>3, <1>4, <1>5, <1>6 DEF Step

\* Every step keeps RInv.
LEMMA StepRInv == RInv /\ [Next]_vars => RInv'
<1> SUFFICES ASSUME RInv, [Next]_vars PROVE RInv'
  OBVIOUS
<1>1. IInv'
  BY StepIInv DEF RInv
<1>2. ASSUME NEW c \in Calls, Step(c) \/ Die(c) PROVE RInv'
  <2>1. request' = request
    BY <1>2 DEF Step, Die, Refuse, Permit, OpenTarget, OpenFails, WriteTarget, WriteFails, Record
  <2> QED
    BY <1>1, <1>2, <2>1, DiskStep, OutcomeStep DEF RInv
<1>3. CASE UNCHANGED vars
  BY <1>1, <1>3 DEF vars, RInv, DiskInv, OnDisk, Alone, Target, Completed, OutcomeOf, RecordOf
<1> QED
  BY <1>2, <1>3 DEF Next

(***************************************************************************)
(* RInv holds in every reachable state, whoever writes, fails or dies.     *)
(***************************************************************************)
THEOREM RecordsInductive == Spec => []RInv
<1> QED
  BY InitRInv, StepRInv, PTL DEF Spec
-----------------------------------------------------------------------------
(***************************************************************************)
(* Type correctness; a call has a record exactly when govern returned.     *)
(***************************************************************************)
THEOREM TransitionTypes == Spec => []TypeOK
<1>1. ASSUME NEW r, NEW o \in Outcomes(r) PROVE o.body.kind \in {"Executed", "Refused"}
  BY DEF Outcomes, Receipt, Refusal, Signed
<1>2. RInv => TypeOK
  <2> SUFFICES ASSUME RInv PROVE TypeOK
    OBVIOUS
  <2>1. \A c \in Calls : outcome[c] # None => outcome[c].body.kind \in {"Executed", "Refused"}
    BY <1>1 DEF RInv, OutcomeOf
  <2>2. \A c \in Calls : Done(c) <=> record[c] # None
    BY NoneAssumption DEF RInv, OutcomeOf, RecordOf, Done
  <2> QED
    BY <2>1, <2>2 DEF TypeOK, RInv, DiskInv, IInv, Shape
<1> QED
  BY <1>2, RecordsInductive, PTL

(***************************************************************************)
(* What the recorder seals and how it is read again.                       *)
(***************************************************************************)
LEMMA SealFields ==
    ASSUME NEW c, NEW r, NEW o
    PROVE  LET s == Seal(c, r, o) IN
           /\ s = [f \in TransitionFields \cup {"signature"} |-> s[f]]
           /\ s.signature = Sign(Recorder, TransitionPayload(s))
           /\ s.subject = r.subject /\ s.action = r.action /\ s.policy = r.policy
           /\ s.authorization = r.grant /\ s.outcome = o
           /\ s.resulting_state = IF Executed(o) THEN o.body.output ELSE None
<1> DEFINE t == [transition      |-> c,
                 subject         |-> r.subject,
                 proposer        |-> r.proposer,
                 action          |-> r.action,
                 policy          |-> r.policy,
                 authorization   |-> r.grant,
                 outcome         |-> o,
                 resulting_state |-> IF Executed(o) THEN o.body.output ELSE None]
           s == Seal(c, r, o)
<1>1. s = [f \in TransitionFields \cup {"signature"} |->
             IF f = "signature" THEN Sign(Recorder, TransitionPayload(t)) ELSE t[f]]
  BY DEF Seal
<1>2. /\ t.subject = r.subject /\ t.action = r.action /\ t.policy = r.policy
      /\ t.authorization = r.grant /\ t.outcome = o
      /\ t.resulting_state = IF Executed(o) THEN o.body.output ELSE None
  OBVIOUS
<1> HIDE DEF t, s
<1>3. \A f \in TransitionFields : s[f] = t[f]
  BY <1>1 DEF TransitionFields
<1>4. TransitionPayload(s) = TransitionPayload(t)
  BY <1>3 DEF TransitionPayload
<1>5. s.signature = Sign(Recorder, TransitionPayload(s))
  BY <1>1, <1>4
<1>6. s = [f \in TransitionFields \cup {"signature"} |-> s[f]]
  BY <1>1
<1> QED
  BY <1>2, <1>3, <1>5, <1>6 DEF TransitionFields, s

(***************************************************************************)
(* What settle returns is signed by the executor; a receipt is only of a   *)
(* permitted request, and the one that says Completed has its content.     *)
(***************************************************************************)
LEMMA OutcomeFields ==
    ASSUME NEW r, NEW o \in Outcomes(r)
    PROVE  /\ SignatureOK(Executor, o.body, o.signature)
           /\ Executed(o) => Decision(r) = "permit"
           /\ ~ Executed(o) => ~ o.body.side_effect_occurred
           /\ Executed(o) /\ o.body.result = "Completed" =>
                 /\ o = Receipt(r, r.content, "Completed", TRUE)
                 /\ o.body.output = r.content
<1>1. CASE o = Receipt(r, r.content, "Completed", TRUE) /\ Decision(r) = "permit"
  <2> DEFINE body == [kind |-> "Executed", verb |-> r.action.verb,
                      destination |-> r.action.target, output |-> r.content,
                      result |-> "Completed", side_effect_occurred |-> TRUE,
                      executor |-> Executor]
  <2>1. o.body = body /\ o.signature = Sign(Executor, body)
    BY <1>1 DEF Receipt, Signed
  <2> QED
    BY <2>1, <1>1 DEF SignatureOK, Executed
<1>2. CASE o = Receipt(r, None, "Failed", FALSE) /\ Decision(r) = "permit"
  <2> DEFINE body == [kind |-> "Executed", verb |-> r.action.verb,
                      destination |-> r.action.target, output |-> None,
                      result |-> "Failed", side_effect_occurred |-> FALSE,
                      executor |-> Executor]
  <2>1. o.body = body /\ o.signature = Sign(Executor, body)
    BY <1>2 DEF Receipt, Signed
  <2> QED
    BY <2>1, <1>2 DEF SignatureOK, Executed
<1>3. CASE o = Refusal(r, Decision(r))
  <2> DEFINE body == [kind |-> "Refused", verb |-> r.action.verb,
                      requested |-> r.action.required,
                      permitted |-> r.grant.granted_authority, reason |-> Decision(r),
                      side_effect_occurred |-> FALSE, recorded |-> TRUE,
                      refused_by |-> Executor]
  <2>1. o.body = body /\ o.signature = Sign(Executor, body)
    BY <1>3 DEF Refusal, Signed
  <2> QED
    BY <2>1 DEF SignatureOK, Executed
<1> QED
  BY <1>1, <1>2, <1>3 DEF Outcomes

\* An outcome that does not say Completed names no content.
LEMMA OutputOfOthers ==
    ASSUME NEW r, NEW o \in Outcomes(r), Executed(o), o.body.result # "Completed"
    PROVE  o.body.output = None
  BY DEF Outcomes, Receipt, Refusal, Signed, Executed

(***************************************************************************)
(* Where several calls met on a target: once all of them have written what *)
(* they had to, one's content is there, or a mixture if there were two.    *)
(***************************************************************************)
Wrote(c) == pc[c] \in {"settled", "done"} /\ Completed(c)

Explained(t) ==
    (Writers(t) # {} /\ \A c \in Writers(t) : Wrote(c)) =>
        \/ \E c \in Writers(t) : disk[t] = request[c].content
        \/ disk[t] = Torn /\ \E c, d \in Writers(t) : c # d

MInv == RInv /\ \A t \in Targets : Explained(t)

\* MInv holds before any call.
LEMMA InitMInv == Init => MInv
  BY InitRInv DEF Init, MInv, Explained, Writers

\* A target that a call does not write to, or whose writer has not completed.
LEMMA StillExplained ==
    ASSUME MInv, NEW t \in Targets, NEW c \in Calls, request' = request,
           \A d \in Calls \ {c} : pc'[d] = pc[d] /\ outcome'[d] = outcome[d],
           \/ /\ Writers(t)' = Writers(t) /\ disk'[t] = disk[t]
              /\ c \in Writers(t) /\ Wrote(c)' => Wrote(c)
           \/ c \in Writers(t)' /\ ~ Wrote(c)'
    PROVE  Explained(t)'
<1>1. CASE c \in Writers(t)' /\ ~ Wrote(c)'
  BY <1>1 DEF Explained
<1>2. CASE /\ Writers(t)' = Writers(t) /\ disk'[t] = disk[t]
           /\ c \in Writers(t) /\ Wrote(c)' => Wrote(c)
  <2>1. SUFFICES ASSUME Writers(t)' # {}, \A d \in Writers(t)' : Wrote(d)'
                 PROVE  \/ \E d \in Writers(t)' : disk'[t] = request'[d].content
                        \/ disk'[t] = Torn /\ \E d, e \in Writers(t)' : d # e
    BY DEF Explained
  <2>2. \A d \in Writers(t) : d \in Calls
    BY DEF Writers, MInv, RInv, IInv, Shape
  <2>3. \A d \in Writers(t) : Wrote(d)
    BY <1>2, <2>1, <2>2 DEF Wrote, Completed
  <2> QED
    BY <1>2, <2>1, <2>3 DEF MInv, Explained
<1> QED
  BY <1>1, <1>2

\* Every step keeps MInv: a mixture needs that the file was not empty.
LEMMA StepMInv == MInv /\ [Next]_vars => MInv'
<1> SUFFICES ASSUME MInv, [Next]_vars PROVE MInv'
  OBVIOUS
<1>1. RInv'
  BY StepRInv DEF MInv
<1>2. ASSUME NEW c \in Calls, Step(c) \/ Die(c), NEW t \in Targets PROVE Explained(t)'
  <2>1. /\ request' = request
        /\ \A d \in Calls \ {c} : pc'[d] = pc[d] /\ outcome'[d] = outcome[d]
        /\ \A d \in Calls : Target(d)' = Target(d)
    BY <1>2 DEF MInv, RInv, IInv, Shape, Step, Die, Refuse, Permit, OpenTarget, OpenFails,
                WriteTarget, WriteFails, Record, Goto, Settled, Target
  <2>2. touched \subseteq Calls /\ disk = [x \in Targets |-> disk[x]]
    BY DEF MInv, RInv, IInv, Shape
  <2>3. touched' = touched => Writers(t)' = Writers(t)
    BY <2>1, <2>2 DEF Writers
  <2>4. CASE Refuse(c) \/ OpenFails(c)
    <3>1. touched' = touched /\ disk' = disk
      BY <2>4 DEF Refuse, OpenFails
    <3>2. ~ Completed(c)'
      BY <2>1, <2>4, FailedIsNotCompleted
         DEF Refuse, OpenFails, FailedReceipt, Settled, Refusal, Receipt, Signed,
             Completed, MInv, RInv, IInv, Shape
    <3>3. ~ Wrote(c)'
      BY <3>2 DEF Wrote
    <3> QED
      BY <2>1, <2>3, <3>1, <3>3, StillExplained
  <2>5. CASE Permit(c) \/ Record(c)
    <3>1. touched' = touched /\ disk' = disk /\ (Wrote(c)' => Wrote(c))
      BY <2>1, <2>5 DEF Permit, Record, Goto, Wrote, Completed, MInv, RInv, IInv, Shape
    <3> QED
      BY <2>1, <2>3, <3>1, StillExplained
  <2>6. CASE OpenTarget(c)
    <3>1. /\ touched' = touched \cup {c} /\ pc'[c] = "write"
          /\ disk' = [disk EXCEPT ![Target(c)] = Empty]
      BY <2>6 DEF OpenTarget, Goto, MInv, RInv, IInv, Shape
    <3>2. CASE Target(c) = t
      <4>1. c \in Writers(t)' /\ ~ Wrote(c)'
        BY <2>1, <3>1, <3>2 DEF Writers, Wrote
      <4> QED
        BY <2>1, <4>1, StillExplained
    <3>3. CASE Target(c) # t
      <4>1. Writers(t)' = Writers(t) /\ c \notin Writers(t) /\ disk'[t] = disk[t]
        BY <2>1, <2>2, <3>1, <3>3 DEF Writers
      <4> QED
        BY <2>1, <4>1, StillExplained
    <3> QED
      BY <3>2, <3>3
  <2>7. CASE pc[c] = "write" /\ touched' = touched /\ ~ Wrote(c)'
             /\ \A x \in Targets \ {Target(c)} : disk'[x] = disk[x]
    <3>1. c \in touched
      BY <2>7 DEF MInv, RInv, IInv
    <3>2. CASE Target(c) = t
      <4>1. c \in Writers(t)'
        BY <2>3, <2>7, <3>1, <3>2 DEF Writers
      <4> QED
        BY <2>1, <2>7, <4>1, StillExplained
    <3>3. CASE Target(c) # t
      <4>1. c \notin Writers(t) /\ disk'[t] = disk[t]
        BY <2>7, <3>3 DEF Writers
      <4> QED
        BY <2>1, <2>3, <2>7, <4>1, StillExplained
    <3> QED
      BY <3>2, <3>3
  <2>8. CASE WriteFails(c)
    <3>1. ~ Completed(c)'
      BY <2>1, <2>8, FailedIsNotCompleted
         DEF WriteFails, FailedReceipt, Settled, Completed, MInv, RInv, IInv, Shape
    <3>2. /\ pc[c] = "write" /\ touched' = touched /\ ~ Wrote(c)'
          /\ \A x \in Targets \ {Target(c)} : disk'[x] = disk[x]
      BY <2>2, <2>8, <3>1 DEF WriteFails, Goto, Wrote
    <3> QED
      BY <2>7, <3>2
  <2>9. CASE WriteTarget(c)
    <3>1. /\ pc[c] = "write" /\ touched' = touched
          /\ \E left \in AfterWrite(disk[Target(c)], request[c].content) :
                disk' = [disk EXCEPT ![Target(c)] = left]
      BY <2>9 DEF WriteTarget, Goto
    <3>2. c \in touched /\ OnDisk(c)
      BY <3>1 DEF MInv, RInv, IInv, DiskInv
    <3>3. CASE Target(c) = t
      <4>1. c \in Writers(t)' /\ c \in Writers(t)
        BY <2>3, <3>1, <3>2, <3>3 DEF Writers
      <4>2. CASE disk'[t] = request[c].content
        <5>1. disk'[t] = request'[c].content
          BY <2>1, <4>2
        <5> QED
          BY <4>1, <5>1 DEF Explained
      <4>3. CASE disk'[t] # request[c].content
        <5>1. disk'[t] = Torn /\ disk[t] # Empty
          BY <2>2, <3>1, <3>3, <4>3 DEF AfterWrite
        <5>2. ~ Alone(c)
          BY <3>1, <3>2, <3>3, <5>1 DEF OnDisk
        <5>3. PICK d \in touched \ {c} : Target(d) = Target(c)
          BY <5>2 DEF Alone
        <5>4. d \in Writers(t)' /\ d # c
          BY <2>3, <3>1, <3>3, <5>3 DEF Writers
        <5> QED
          BY <4>1, <5>1, <5>4 DEF Explained
      <4> QED
        BY <4>2, <4>3
    <3>4. CASE Target(c) # t
      <4>1. c \notin Writers(t) /\ disk'[t] = disk[t]
        BY <2>2, <3>1, <3>4 DEF Writers
      <4> QED
        BY <2>1, <2>3, <3>1, <4>1, StillExplained
    <3> QED
      BY <3>3, <3>4
  <2>10. CASE Die(c)
    <3>1. pc'[c] = "dead" /\ touched' = touched
      BY <2>10 DEF Die, MInv, RInv, IInv, Shape
    <3>2. ~ Wrote(c)'
      BY <3>1 DEF Wrote
    <3>3. CASE UNCHANGED disk
      BY <2>1, <2>3, <3>1, <3>2, <3>3, StillExplained
    <3>4. CASE pc[c] = "write" /\ ~ UNCHANGED disk
      <4>1. \A x \in Targets \ {Target(c)} : disk'[x] = disk[x]
        BY <2>2, <2>10, <3>4 DEF Die
      <4> QED
        BY <2>7, <3>1, <3>2, <3>4, <4>1
    <3> QED
      BY <2>10, <3>3, <3>4 DEF Die
  <2> QED
    BY <1>2, <2>4, <2>5, <2>6, <2>8, <2>9, <2>10 DEF Step
<1>3. CASE UNCHANGED vars
  <2>1. ASSUME NEW t \in Targets PROVE Explained(t)'
    <3>1. Writers(t)' = Writers(t) /\ disk' = disk /\ request' = request
      BY <1>3 DEF vars, Writers, Target
    <3>2. \A c : Wrote(c)' <=> Wrote(c)
      BY <1>3 DEF vars, Wrote, Completed
    <3>3. Explained(t)
      BY DEF MInv
    <3> QED
      BY <3>1, <3>2, <3>3 DEF Explained
  <2> QED
    BY <1>1, <2>1 DEF MInv
<1> QED
  BY <1>1, <1>2, <1>3 DEF Next, MInv

\* What a record that says Completed is made of.
LEMMA CompletedRecord ==
    ASSUME RInv, NEW c \in Calls, Answered(c) = "Completed"
    PROVE  /\ Wrote(c) /\ Executed(record[c].outcome)
           /\ record[c].outcome.body.output = request[c].content
           /\ record[c].resulting_state = request[c].content
<1>1. Done(c) /\ Executed(record[c].outcome) /\ record[c].outcome.body.result = "Completed"
  BY DEF Answered
<1>2. /\ outcome[c] \in Outcomes(request[c])
      /\ record[c].outcome = outcome[c]
      /\ record[c].resulting_state = outcome[c].body.output
  BY <1>1, SealFields DEF RInv, OutcomeOf, RecordOf, Done
<1>3. Completed(c) /\ outcome[c].body.output = request[c].content
  BY <1>1, <1>2, OutcomeFields DEF Completed
<1> QED
  BY <1>1, <1>2, <1>3 DEF Wrote, Done

(***************************************************************************)
(* Completed records tell what is on disk: of a target with one writer its *)
(* content, of one on which calls met a content or a mixture of theirs.    *)
(***************************************************************************)
THEOREM ResultsAreOnDisk == Spec => []ResultIsOnDisk
<1>1. MInv => ResultIsOnDisk
  <2> SUFFICES ASSUME MInv PROVE ResultIsOnDisk
    OBVIOUS
  <2>1. ASSUME NEW c \in Calls, Answered(c) = "Completed", Writers(Target(c)) \subseteq {c}
        PROVE  disk[Target(c)] = record[c].resulting_state
    <3>1. Wrote(c) /\ record[c].resulting_state = request[c].content
      BY <2>1, CompletedRecord DEF MInv
    <3>2. Alone(c) /\ OnDisk(c)
      BY <2>1 DEF Alone, Writers, MInv, RInv, DiskInv
    <3> QED
      BY <3>1, <3>2 DEF OnDisk, Wrote
  <2>2. ASSUME NEW t \in Targets, Writers(t) # {},
               \A c \in Writers(t) : Answered(c) = "Completed"
        PROVE  \/ \E c \in Writers(t) : disk[t] = record[c].resulting_state
               \/ disk[t] = Torn /\ \E c, d \in Writers(t) : c # d
    <3>1. \A c \in Writers(t) : c \in Calls
      BY DEF Writers, MInv, RInv, IInv, Shape
    <3>2. \A c \in Writers(t) : Wrote(c) /\ record[c].resulting_state = request[c].content
      BY <2>2, <3>1, CompletedRecord DEF MInv
    <3> QED
      BY <2>2, <3>2 DEF MInv, Explained
  <2> QED
    BY <2>1, <2>2 DEF ResultIsOnDisk
<1> QED
  BY <1>1, InitMInv, StepMInv, PTL DEF Spec

(***************************************************************************)
(* A record verifies exactly when its grant is authentic and the request   *)
(* and its action have one subject: of a permitted call and a refused one. *)
(***************************************************************************)
THEOREM RecordsVerify == Spec => []RecordVerifies
<1>1. RInv => RecordVerifies
  <2> SUFFICES ASSUME RInv, NEW c \in Calls, Done(c)
               PROVE  VerifyTransition(record[c], Keys(c)) <=>
                        /\ VerifyAuthorization(request[c].grant, request[c].authorizer_key)
                        /\ request[c].subject = request[c].action.subject
    BY DEF RecordVerifies
  <2> DEFINE r == request[c]
             o == outcome[c]
  <2>1. o \in Outcomes(r) /\ r \in Requests[c] /\ record[c] = Seal(c, r, o)
    BY DEF RInv, OutcomeOf, RecordOf, Done
  <2>2. /\ record[c].signature = Sign(Recorder, TransitionPayload(record[c]))
        /\ record[c].subject = r.subject /\ record[c].action = r.action
        /\ record[c].policy = r.policy /\ record[c].authorization = r.grant
        /\ record[c].outcome = o
        /\ record[c].resulting_state = IF Executed(o) THEN o.body.output ELSE None
    BY <2>1, SealFields
  <2>3. /\ Keys(c).recorder = Recorder /\ Keys(c).authorizer = r.authorizer_key
        /\ Keys(c).executor = Executor /\ Keys(c).policy = r.policy_key
    BY DEF Keys
  <2>4. /\ SignatureOK(Executor, o.body, o.signature)
        /\ Executed(o) => Decision(r) = "permit"
        /\ ~ Executed(o) => ~ o.body.side_effect_occurred
    BY <2>1, OutcomeFields
  <2>5. r.policy # None /\ Executed(o) =>
          r.policy_key # None /\ VerifyPolicyProof(r.policy, r.policy_key)
    BY <2>1, <2>4, PolicyKeyAssumption DEF Decision, Precheck
  <2>6. SignatureOK(Keys(c).recorder, TransitionPayload(record[c]), record[c].signature)
    BY <2>2, <2>3 DEF SignatureOK
  <2> HIDE DEF r, o
  <2> QED
    BY <2>2, <2>3, <2>4, <2>5, <2>6 DEF VerifyTransition, r, o
<1> QED
  BY <1>1, RecordsInductive, PTL

(***************************************************************************)
(* An artifact whose record says Completed passes with no other content    *)
(* than the one that was sealed, and one that says Failed or Refused with  *)
(* any, exactly when the record verifies.                                  *)
(***************************************************************************)
THEOREM ContentsAreBound == Spec => []ContentIsBound
<1>1. RInv => ContentIsBound
  <2> SUFFICES ASSUME RInv, NEW c \in Calls, Done(c), NEW x \in Contents
               PROVE  (ContentIntegrity(record[c], x) # "Mismatch") <=>
                          (Answered(c) = "Completed" => x = request[c].content)
    BY DEF ContentIsBound, AllChecksPass
  <2>1. CASE Answered(c) = "Completed"
    <3>1. /\ Executed(record[c].outcome)
          /\ record[c].outcome.body.output = request[c].content
      BY <2>1, CompletedRecord
    <3>2. request[c].content # None
      BY NoneAssumption DEF RInv
    <3> QED
      BY <2>1, <3>1, <3>2 DEF ContentIntegrity
  <2>2. CASE Answered(c) # "Completed"
    <3>1. outcome[c] \in Outcomes(request[c]) /\ record[c].outcome = outcome[c]
      BY SealFields DEF RInv, OutcomeOf, RecordOf, Done
    <3>2. ~ Executed(record[c].outcome) \/ record[c].outcome.body.result # "Completed"
      BY <2>2 DEF Answered
    <3>3. ~ Executed(record[c].outcome) \/ record[c].outcome.body.output = None
      BY <3>1, <3>2, OutputOfOthers
    <3> QED
      BY <2>2, <3>3 DEF ContentIntegrity
  <2> QED
    BY <2>1, <2>2
<1> QED
  BY <1>1, RecordsInductive, PTL

(***************************************************************************)
(* No part of one record verifies inside another.                          *)
(***************************************************************************)
THEOREM PartsAreNotExchanged == Spec => []NoTransplant
<1>1. RInv => NoTransplant
  <2> SUFFICES ASSUME RInv, NEW c \in Calls, Done(c), NEW f \in TransitionFields, NEW v,
                      VerifyTransition([record[c] EXCEPT ![f] = v], Keys(c))
               PROVE  [record[c] EXCEPT ![f] = v] = record[c]
    BY DEF NoTransplant
  <2> DEFINE s == record[c]
             m == [record[c] EXCEPT ![f] = v]
  <2>1. /\ s = [g \in TransitionFields \cup {"signature"} |-> s[g]]
        /\ s.signature = Sign(Recorder, TransitionPayload(s))
    BY SealFields DEF RInv, RecordOf, Done
  <2>2. m.signature = Sign(Recorder, TransitionPayload(m))
    BY DEF VerifyTransition, SignatureOK, Keys
  <2>3. /\ m = [g \in TransitionFields \cup {"signature"} |-> m[g]]
        /\ m.signature = s.signature
    BY <2>1 DEF TransitionFields
  <2> HIDE DEF m, s
  <2>4. TransitionPayload(m) = TransitionPayload(s)
    BY <2>1, <2>2, <2>3 DEF Sign
  <2>5. \A g \in TransitionFields : m[g] = s[g]
    BY <2>4 DEF TransitionPayload
  <2>6. m = s
    BY <2>1, <2>3, <2>5
  <2> QED
    BY <2>6 DEF m, s
<1> QED
  BY <1>1, RecordsInductive, PTL
-----------------------------------------------------------------------------
(***************************************************************************)
(* Refinement.  A step of a call changes its file for an allowed call, or  *)
(* seals how it ended, or leaves Governance as it is.  Beside RInv it      *)
(* needs that a call says Completed only when it touched its file: between *)
(* the write and the record, the receipt is what is left of the effect.    *)
(***************************************************************************)
Earned(c) == pc[c] \in {"settled", "done"} /\ Completed(c) => c \in touched

GInv == RInv /\ \A c \in Calls : Earned(c)

\* GInv holds before any call.
LEMMA InitGInv == Init => GInv
  BY InitRInv DEF Init, GInv, Earned

\* Every step keeps GInv: only a call that opened its file can be completed.
LEMMA StepGInv == GInv /\ [Next]_vars => GInv'
<1> SUFFICES ASSUME GInv, [Next]_vars PROVE GInv'
  OBVIOUS
<1>1. RInv'
  BY StepRInv DEF GInv
<1>2. ASSUME NEW c \in Calls, Step(c) \/ Die(c) PROVE \A d \in Calls : Earned(d)'
  <2>1. /\ request' = request /\ touched \subseteq touched'
        /\ \A d \in Calls \ {c} : pc'[d] = pc[d] /\ outcome'[d] = outcome[d]
    BY <1>2 DEF GInv, RInv, IInv, Shape, Step, Die, Refuse, Permit, OpenTarget, OpenFails,
                WriteTarget, WriteFails, Record, Goto, Settled
  <2>2. \A d \in Calls \ {c} : Earned(d)'
    BY <2>1 DEF GInv, Earned, Completed
  <2>3. CASE Refuse(c) \/ OpenFails(c) \/ WriteFails(c)
    <3>1. ~ Completed(c)'
      BY <2>1, <2>3, FailedIsNotCompleted
         DEF Refuse, OpenFails, WriteFails, FailedReceipt, Settled, Refusal, Receipt, Signed,
             Completed, GInv, RInv, IInv, Shape
    <3> QED
      BY <2>2, <3>1 DEF Earned
  <2>4. CASE Permit(c) \/ OpenTarget(c) \/ Die(c)
    <3>1. pc'[c] \notin {"settled", "done"}
      BY <2>4 DEF Permit, OpenTarget, Die, Goto, GInv, RInv, IInv, Shape
    <3> QED
      BY <2>2, <3>1 DEF Earned
  <2>5. CASE WriteTarget(c)
    BY <2>1, <2>2, <2>5 DEF WriteTarget, Goto, Earned, GInv, RInv, IInv
  <2>6. CASE Record(c)
    BY <2>1, <2>2, <2>6 DEF Record, Goto, Earned, Completed, GInv
  <2> QED
    BY <1>2, <2>3, <2>4, <2>5, <2>6 DEF Step
<1>3. CASE UNCHANGED vars
  BY <1>1, <1>3 DEF vars, GInv, Earned, Completed
<1> QED
  BY <1>1, <1>2, <1>3 DEF Next, GInv

\* GInv holds in every reachable state.
THEOREM CompletedIsEarned == Spec => []GInv
<1> QED
  BY InitGInv, StepGInv, PTL DEF Spec

\* Before any call, Governance is in an initial state: nobody has an answer.
LEMMA GovernanceInit == Init => Gov!Init
<1> SUFFICES ASSUME Init PROVE Gov!Init
  OBVIOUS
<1>1. \A c \in Calls : request[c] \in Requests[c]
  BY DEF Init
<1>2. [c \in Calls |-> Target(c)] \in [Calls -> Targets]
  BY <1>1, TargetsAssumption DEF Target
<1>3. \A c \in Calls : Answered(c) = "none"
  BY DEF Init, Answered, Done
<1>4. {c \in Calls : Allowed(request[c])} \in SUBSET Calls
  OBVIOUS
<1> QED
  BY <1>2, <1>3, <1>4 DEF Init, Gov!Init

(***************************************************************************)
(* What stays as it is when no record is sealed: who is allowed, which     *)
(* file a call is about, and every answer.                                 *)
(***************************************************************************)
LEMMA GovernanceFrame ==
    ASSUME request' = request, \A c \in Calls : Done(c)' = Done(c), record' = record
    PROVE  /\ {c \in Calls : Allowed(request[c])}' = {c \in Calls : Allowed(request[c])}
           /\ [c \in Calls |-> Target(c)]' = [c \in Calls |-> Target(c)]
           /\ [c \in Calls |-> Answered(c)]' = [c \in Calls |-> Answered(c)]
<1>1. \A c \in Calls : Allowed(request[c])' = Allowed(request[c])
  BY DEF Allowed, VerifyPolicyProof, IssueGrant
<1>2. \A c \in Calls : Target(c)' = Target(c)
  BY DEF Target
<1>3. \A c \in Calls : Answered(c)' = Answered(c)
  BY DEF Answered
<1> QED
  BY <1>1, <1>2, <1>3

\* A step of a call before its record is sealed is a change of its file, or none.
LEMMA GovernanceAffect ==
    ASSUME GInv, NEW c \in Calls, Done(c)' = Done(c), pc[c] # "done",
           \A d \in Calls \ {c} : pc'[d] = pc[d],
           UNCHANGED <<request, record>>,
           \/ UNCHANGED <<disk, touched>>
           \/ /\ Decision(request[c]) = "permit"
              /\ touched' = touched \cup {c}
              /\ \E v \in Contents \cup {Empty, Torn} :
                    disk' = [disk EXCEPT ![Target(c)] = v]
    PROVE  [Gov!Next]_(Gov!vars)
<1>1. \A d \in Calls : Done(d)' = Done(d)
  BY DEF Done
<1>2. /\ {d \in Calls : Allowed(request[d])}' = {d \in Calls : Allowed(request[d])}
      /\ [d \in Calls |-> Target(d)]' = [d \in Calls |-> Target(d)]
      /\ [d \in Calls |-> Answered(d)]' = [d \in Calls |-> Answered(d)]
  BY <1>1, GovernanceFrame
<1>3. CASE UNCHANGED <<disk, touched>>
  BY <1>2, <1>3 DEF Gov!vars
<1>4. ASSUME Decision(request[c]) = "permit", touched' = touched \cup {c},
             NEW v \in Contents \cup {Empty, Torn}, disk' = [disk EXCEPT ![Target(c)] = v]
      PROVE  Gov!Affect(c, v)
  <2>1. c \in {d \in Calls : Allowed(request[d])}
    BY <1>4, PermitIsAllowed
  <2>2. [d \in Calls |-> Answered(d)][c] = "none"
    BY DEF Answered, Done
  <2>3. [d \in Calls |-> Target(d)][c] = Target(c)
    OBVIOUS
  <2> QED
    BY <1>2, <1>4, <2>1, <2>2, <2>3 DEF Gov!Affect
<1> QED
  BY <1>3, <1>4 DEF Gov!Next

(***************************************************************************)
(* The seal of a call is its answer: a refusal of a call that was not      *)
(* allowed, a receipt of one that was, Completed only for what it did.     *)
(***************************************************************************)
LEMMA GovernanceAnswer ==
    ASSUME GInv, NEW c \in Calls, Record(c)
    PROVE  Gov!Answer(c)
<1> DEFINE o == outcome[c]
           a == IF Executed(o) THEN o.body.result ELSE "Refused"
<1>1. /\ pc[c] = "settled" /\ pc' = [pc EXCEPT ![c] = "done"]
      /\ record' = [record EXCEPT ![c] = Seal(c, request[c], outcome[c])]
      /\ UNCHANGED <<request, outcome, disk, touched>>
  BY DEF Record, Goto
<1>2. o \in Outcomes(request[c])
  BY <1>1 DEF GInv, RInv, OutcomeOf
<1>3. /\ Executed(o) <=> Decision(request[c]) = "permit"
      /\ Executed(o) => o.body.result \in {"Completed", "Failed"}
  BY <1>2 DEF Outcomes, Receipt, Refusal, Signed, Executed
<1>4. Executed(o) /\ o.body.result = "Completed" => c \in touched
  BY <1>1, <1>2, OutcomeFields DEF GInv, Earned, Completed
<1>5. \A d \in Calls : /\ Allowed(request[d])' = Allowed(request[d])
                       /\ Target(d)' = Target(d)
  BY <1>1 DEF Allowed, VerifyPolicyProof, IssueGrant, Target
<1>6. Answered(c) = "none"
  BY <1>1 DEF Answered, Done
<1>7. record'[c].outcome = o /\ pc'[c] = "done"
  BY <1>1, SealFields DEF GInv, RInv, IInv, Shape
<1>8. Answered(c)' = a
  BY <1>7 DEF Answered, Done, Executed
<1>9. \A d \in Calls \ {c} : Answered(d)' = Answered(d)
  <2>1. \A d \in Calls \ {c} : pc'[d] = pc[d] /\ record'[d] = record[d]
    BY <1>1 DEF GInv, RInv, IInv, Shape
  <2> QED
    BY <2>1 DEF Answered, Done, Executed
<1> HIDE DEF a, o
<1>10. [d \in Calls |-> Answered(d)]'
         = [[d \in Calls |-> Answered(d)] EXCEPT ![c] = a]
  BY <1>8, <1>9
<1>11. a \in Gov!Answers(c)
  BY <1>3, <1>4, PermitIsAllowed DEF Gov!Answers, a
<1>12. /\ {d \in Calls : Allowed(request[d])}' = {d \in Calls : Allowed(request[d])}
       /\ [d \in Calls |-> Target(d)]' = [d \in Calls |-> Target(d)]
  BY <1>5
<1> QED
  BY <1>1, <1>6, <1>10, <1>11, <1>12 DEF Gov!Answer

\* Every step of the calls is a step of Governance or leaves it as it is.
LEMMA GovernanceStep ==
    ASSUME GInv, [Next]_vars
    PROVE  [Gov!Next]_(Gov!vars)
<1>1. ASSUME NEW c \in Calls, Refuse(c) \/ Permit(c) \/ OpenFails(c)
      PROVE  [Gov!Next]_(Gov!vars)
  <2>1. /\ pc[c] # "done" /\ \A d \in Calls \ {c} : pc'[d] = pc[d]
        /\ pc'[c] # "done"
        /\ UNCHANGED <<request, record, disk, touched>>
    BY <1>1 DEF Refuse, Permit, OpenFails, Goto, GInv, RInv, IInv, Shape
  <2> QED
    BY <2>1, GovernanceAffect DEF Done
<1>2. ASSUME NEW c \in Calls, OpenTarget(c) \/ WriteTarget(c) \/ WriteFails(c)
      PROVE  [Gov!Next]_(Gov!vars)
  <2>1. /\ pc[c] \in {"open", "write"} /\ \A d \in Calls \ {c} : pc'[d] = pc[d]
        /\ pc'[c] # "done"
        /\ UNCHANGED <<request, record>>
    BY <1>2 DEF OpenTarget, WriteTarget, WriteFails, Goto, GInv, RInv, IInv, Shape
  <2>2. Decision(request[c]) = "permit" /\ (pc[c] = "write" => c \in touched)
    BY <2>1 DEF GInv, RInv, IInv
  <2>3. touched' = touched \cup {c}
    BY <1>2, <2>2 DEF OpenTarget, WriteTarget, WriteFails, Goto
  <2>4. request[c].content \in Contents
    BY DEF Contents, GInv, RInv
  <2>5. \/ UNCHANGED <<disk, touched>>
        \/ \E v \in Contents \cup {Empty, Torn} : disk' = [disk EXCEPT ![Target(c)] = v]
    <3>1. CASE OpenTarget(c)
      BY <3>1 DEF OpenTarget
    <3>2. CASE WriteTarget(c)
      BY <2>4, <3>2 DEF WriteTarget, AfterWrite
    <3>3. CASE WriteFails(c)
      BY <3>3 DEF WriteFails, GInv, RInv, DiskInv
    <3> QED
      BY <1>2, <3>1, <3>2, <3>3
  <2> QED
    BY <2>1, <2>2, <2>3, <2>5, GovernanceAffect DEF Done
<1>3. ASSUME NEW c \in Calls, Die(c)
      PROVE  [Gov!Next]_(Gov!vars)
  <2>1. /\ pc[c] # "done" /\ \A d \in Calls \ {c} : pc'[d] = pc[d]
        /\ pc'[c] # "done"
        /\ UNCHANGED <<request, record, touched>>
    BY <1>3 DEF Die, GInv, RInv, IInv, Shape
  <2>2. CASE UNCHANGED disk
    BY <2>1, <2>2, GovernanceAffect DEF Done
  <2>3. CASE ~ UNCHANGED disk
    <3>1. pc[c] = "write"
      BY <1>3, <2>3 DEF Die
    <3>2. Decision(request[c]) = "permit" /\ c \in touched
      BY <3>1 DEF GInv, RInv, IInv
    <3>3. request[c].content \in Contents
      BY DEF Contents, GInv, RInv
    <3>4. \E v \in Contents \cup {Empty, Torn} : disk' = [disk EXCEPT ![Target(c)] = v]
      BY <1>3, <2>3, <3>3 DEF Die, AfterWrite
    <3> QED
      BY <2>1, <3>2, <3>4, GovernanceAffect DEF Done
  <2> QED
    BY <2>2, <2>3
<1>4. ASSUME NEW c \in Calls, Record(c)
      PROVE  [Gov!Next]_(Gov!vars)
  BY <1>4, GovernanceAnswer DEF Gov!Next
<1>5. CASE UNCHANGED vars
  <2>1. UNCHANGED <<pc, request, record, disk, touched>>
    BY <1>5 DEF vars
  <2> QED
    BY <2>1, GovernanceFrame DEF Gov!vars, Done
<1> QED
  BY <1>1, <1>2, <1>3, <1>4, <1>5 DEF Next, Step

(***************************************************************************)
(* Whatever the calls do beside each other and wherever they fail or die,  *)
(* files change only for allowed calls without a record, and each record   *)
(* answers as Governance promises.                                         *)
(***************************************************************************)
THEOREM TransitionImplementsGovernance == Spec => ImplementsGovernance
<1>1. GInv /\ [Next]_vars => [Gov!Next]_(Gov!vars)
  BY GovernanceStep
<1> QED
  BY <1>1, GovernanceInit, CompletedIsEarned, PTL DEF Spec, ImplementsGovernance, Gov!Spec
=============================================================================
