-------------------------- MODULE InspectionProofs --------------------------
(***************************************************************************)
(* Theorems about verdicts, for every value of the constants: what the     *)
(* process that sealed an object, the receiver of its bundle and the       *)
(* reader of its report say of it, and that no other seal changes that.    *)
(***************************************************************************)
EXTENDS InspectionProps, RegistryProofs, FiniteSetTheorems

(***************************************************************************)
(* The inductive invariant, in named parts.                                *)
(***************************************************************************)
\* The objects whose seal this process has attested.
Here == DOMAIN sealed \cap DOMAIN events

\* What the verifier is given for an object, were its creator active.
Standing(obj) ==
    LET pred == obj.time_event.predecessor_event_id
    IN  [object      |-> obj,
         artifact    |-> TheArtifact,
         creator     |-> [id |-> obj.origin.creator, key |-> obj.origin.creator,
                          kind |-> KindOf(obj.origin.creator), status |-> "Active"],
         module      |-> [id |-> obj.origin.module, kind |-> obj.origin.module],
         authority   |-> [id |-> TimeKey, key |-> TimeKey],
         evaluator   |-> [id |-> PolicyKey, key |-> PolicyKey],
         predecessor |-> IF pred \in DOMAIN events THEN events[pred] ELSE None,
         parents     |-> {[object_id |-> q, timestamp |-> sealed[q].time_event.timestamp] :
                             q \in obj.parent_ids \cap objects},
         tsa_roots   |-> None]

\* Every object attested here passed its verification, and would again at
\* the time it passed.
Certified == \A o \in Here : \E t \in Clock : VerifyObject(Standing(sealed[o]), t) = {}

\* Events are of seals that were tried, and die with the process.
EventsKnown ==
    /\ \A o \in DOMAIN events : o \in DOMAIN sealed \/ reply[o] # "none"
    /\ pc = "down" => DOMAIN events = {}

\* The fields of a sealed object that a report or a bundle repeats.
SealedShape ==
    \A o \in DOMAIN sealed :
        /\ sealed[o].object_id = o
        /\ sealed[o].protocol = "V1"
        /\ sealed[o].time_event.time_source =
               IF sealed[o].time_event.rfc3161_token = None THEN "Local" ELSE "External"

\* The graph names only loaded objects while the node is up.
IndexLoaded == pc # "down" => nodes \subseteq objects

VInv ==
    /\ IInv
    /\ Certified
    /\ EventsKnown
    /\ SealedShape
    /\ IndexLoaded
    /\ IsFiniteSet(DOMAIN sealed)
-----------------------------------------------------------------------------
(***************************************************************************)
(* The verifier.  What the clock decides, and what a passed verification   *)
(* says of the state it was made in.                                       *)
(***************************************************************************)
\* What passed at one time passes at any time its token is valid.
LEMMA OnlyTokensExpire ==
    ASSUME NEW in, NEW t, NEW now, VerifyObject(in, t) = {},
           \/ in.object.time_event.rfc3161_token = None
           \/ CertValid(in.object.time_event.rfc3161_token, now)
           \/ in.object.time_event.time_source # "External"
    PROVE  VerifyObject(in, now) = {}
<1>1. in.object.protocol = SUPPORTED_PROTOCOL
  BY DEF VerifyObject
<1>2. TsaFailures(in, t) = {} /\ VerifyObject(in, now) = TsaFailures(in, now)
  BY <1>1 DEF VerifyObject
<1>3. TsaFailures(in, now) = {}
  BY <1>2 DEF TsaFailures, VerifyTokenFull
<1> QED
  BY <1>2, <1>3

\* An object that passes has its parents and its predecessor beside it.
LEMMA PassedCompanions ==
    ASSUME NEW obj, NEW t, VerifyObject(Standing(obj), t) = {}
    PROVE  /\ obj.parent_ids \subseteq objects
           /\ \/ obj.time_event.predecessor_event_id = None
              \/ obj.time_event.predecessor_event_id \in DOMAIN events
<1> DEFINE in == Standing(obj)
           pred == obj.time_event.predecessor_event_id
           given(q) == [object_id |-> q, timestamp |-> sealed[q].time_event.timestamp]
<1>1. /\ in.object = obj
      /\ in.parents = {given(q) : q \in obj.parent_ids \cap objects}
      /\ in.predecessor = IF pred \in DOMAIN events THEN events[pred] ELSE None
  BY DEF Standing
<1>2. LineageFailures(in) = {} /\ TimeChainFailures(in) = {}
  BY DEF VerifyObject
<1> HIDE DEF in
<1>3. ASSUME NEW q \in obj.parent_ids
      PROVE  q \in objects
  <2>1. PICK p \in in.parents : p.object_id = q
    BY <1>1, <1>2, <1>3 DEF LineageFailures, FailIf
  <2>2. PICK r \in obj.parent_ids \cap objects : p = given(r)
    BY <1>1, <2>1
  <2> QED
    BY <2>1, <2>2
<1>4. pred = None \/ pred \in DOMAIN events
  BY <1>1, <1>2 DEF TimeChainFailures, IsGenesis
<1> QED
  BY <1>3, <1>4

\* With an active creator, Standing is what the verifier is given.
LEMMA StandingIsInput ==
    ASSUME NEW obj, status[obj.origin.creator] = "Active"
    PROVE  Standing(obj) = Input(obj, TheArtifact)
  BY DEF Standing, Input
-----------------------------------------------------------------------------
(***************************************************************************)
(* While the process lives, what an object was verified beside only grows. *)
(***************************************************************************)
Grows ==
    /\ \A o \in DOMAIN sealed : o \in DOMAIN sealed' /\ sealed'[o] = sealed[o]
    /\ \A o \in DOMAIN events : o \in DOMAIN events' /\ events'[o] = events[o]
    /\ None \notin DOMAIN events'
    /\ objects \subseteq objects'
    /\ \A o \in objects : artifacts'[o] = artifacts[o] /\ o \in DOMAIN artifacts'

\* An object that is loaded is sealed, and so are its parents.
LEMMA LoadedIsSealed ==
    ASSUME IInv
    PROVE  objects \subseteq DOMAIN sealed /\ objects \subseteq Objects
  BY DEF IInv, Loaded, Persisted, Untouched, Whole

\* The event of a seal joins the others.
LEMMA AttestGrows ==
    ASSUME NEW o, o \notin DOMAIN events, Attest(o)
    PROVE  /\ DOMAIN events' = DOMAIN events \cup {o}
           /\ \A x \in DOMAIN events : events'[x] = events[x]
  BY DEF Attest, With

\* Every step of a living process is such a step.
LEMMA LiveStep ==
    ASSUME VInv, [Next]_vars, pc # "down", pc' # "down"
    PROVE  Grows
<1> USE DEF memory
<1>1. IInv /\ EventsKnown /\ TypeOK' /\ None \notin Objects
  BY TypeStep, ConstantsAssumption DEF VInv, IInv
<1>2. None \notin DOMAIN events'
  BY <1>1 DEF TypeOK
<1>3. \A o \in objects : o \in DOMAIN artifacts /\ artifacts[o] = TheArtifact
  BY <1>1 DEF IInv, Loaded
<1>4. ASSUME UNCHANGED <<sealed, events, objects, artifacts>>
      PROVE  Grows
  BY <1>2, <1>3, <1>4 DEF Grows
<1>5. ASSUME NEW o \in Objects, NEW p \in Proposals, Seal(o, p)
      PROVE  Grows
  <2>1. o \notin DOMAIN events /\ UNCHANGED <<objects, artifacts>> /\ Attest(o)
    BY <1>1, <1>5 DEF Seal, Fresh, EventsKnown
  <2>2. \A x \in DOMAIN sealed : x \in DOMAIN sealed' /\ sealed'[x] = sealed[x]
    BY <1>5, SealAssembles
  <2> QED
    BY <1>2, <1>3, <2>1, <2>2, AttestGrows DEF Grows
<1>6. ASSUME NEW o \in Objects, NEW p \in Proposals, SealRejected(o, p)
      PROVE  Grows
  <2>1. o \notin DOMAIN events /\ UNCHANGED <<sealed, objects, artifacts>> /\ Attest(o)
    BY <1>1, <1>6 DEF SealRejected, Fresh, EventsKnown
  <2> QED
    BY <1>2, <1>3, <2>1, AttestGrows DEF Grows
<1>7. CASE SyncObject
  <2>1. /\ UNCHANGED <<sealed, events>> /\ objects' = objects \cup {cur}
        /\ artifacts' = With(artifacts, cur, TheArtifact)
    BY <1>7 DEF SyncObject
  <2>2. \A o \in objects : artifacts'[o] = artifacts[o] /\ o \in DOMAIN artifacts'
    BY <1>3, <2>1 DEF With
  <2> QED
    BY <1>2, <2>1, <2>2 DEF Grows
<1>8. UNCHANGED vars \/ SetClock \/ (\E i \in Creators : Suspend(i) \/ Revoke(i))
          \/ WriteArtifact \/ SyncArtifact \/ WriteObject \/ InsertNode
          \/ (\E q \in Objects : InsertEdge(q)) \/ Answer \/ IoError
          => UNCHANGED <<sealed, events, objects, artifacts>>
  BY DEF vars, SetClock, Suspend, Revoke, SetStatus, WriteArtifact, SyncArtifact, WriteObject,
         InsertNode, InsertEdge, Answer, IoError
<1>9. ~ Kill /\ ~ PowerLoss /\ ~ Reopen
  BY DEF Kill, PowerLoss, Forget, Reopen
<1> QED
  BY <1>4, <1>5, <1>6, <1>7, <1>8, <1>9 DEF Next, SealStep

\* What is given for an object that has its companions stays as it is.
LEMMA StandingStays ==
    ASSUME IInv, Grows, NEW obj, obj.parent_ids \subseteq objects,
           \/ obj.time_event.predecessor_event_id = None
           \/ obj.time_event.predecessor_event_id \in DOMAIN events
    PROVE  Standing(obj)' = Standing(obj)
<1> DEFINE pred == obj.time_event.predecessor_event_id
           given(q) == [object_id |-> q, timestamp |-> sealed[q].time_event.timestamp]
           before == IF pred \in DOMAIN events THEN events[pred] ELSE None
           parents == {given(q) : q \in obj.parent_ids \cap objects}
<1>1. None \notin DOMAIN events
  BY ConstantsAssumption DEF IInv, TypeOK
<1>2. before' = before
  BY <1>1 DEF Grows
<1>3. parents' = parents
  <2>1. obj.parent_ids \cap objects' = obj.parent_ids \cap objects
    BY DEF Grows
  <2>2. \A q \in obj.parent_ids \cap objects : sealed'[q] = sealed[q]
    BY LoadedIsSealed DEF Grows
  <2> QED
    BY <2>1, <2>2
<1> QED
  BY <1>2, <1>3 DEF Standing
-----------------------------------------------------------------------------
(***************************************************************************)
(* Every step keeps VInv.                                                  *)
(***************************************************************************)
\* The parts of a proposed object that reports and bundles repeat.
LEMMA ProposedRepeats ==
    ASSUME NEW o, NEW p
    PROVE  /\ Proposed(o, p).origin.creator = p.creator
           /\ Proposed(o, p).time_event.rfc3161_token = p.tsa
           /\ Proposed(o, p).time_event.time_source =
                  IF p.tsa = None THEN "Local" ELSE "External"
<1> DEFINE draft == DraftEvent(o, p.tsa)
           event == Anchored(o, p.tsa)
<1>1. /\ {"rfc3161_token", "time_source"} \subseteq DOMAIN draft
      /\ draft.rfc3161_token = p.tsa
      /\ draft.time_source = IF p.tsa = None THEN "Local" ELSE "External"
  BY DEF DraftEvent
<1>2. event = With(draft, "signature", Sign(TimeKey, TimeSignPayload(draft)))
  BY DEF Anchored, SignEvent
<1> HIDE DEF draft
<1>3. event.rfc3161_token = draft.rfc3161_token /\ event.time_source = draft.time_source
  BY <1>1, <1>2, WithOld
<1> HIDE DEF event
<1>4. Proposed(o, p) = Assemble(o, p, event)
  BY DEF Proposed, event
<1>5. ASSUME NEW r, NEW key, NEW x \in DOMAIN r, x # "object_signature"
      PROVE  SignObject(r, key)[x] = r[x]
  BY <1>5, WithOld DEF SignObject
<1>6. /\ Assemble(o, p, event).time_event = event
      /\ Assemble(o, p, event).origin.creator = p.creator
  BY <1>5 DEF Assemble
<1> QED
  BY <1>1, <1>3, <1>4, <1>6

\* A seal certifies its object: what was given to the verifier is what will
\* be given to it afterwards.
LEMMA SealCertifies ==
    ASSUME VInv, Grows, NEW o \in Objects, NEW p \in Proposals, Seal(o, p)
    PROVE  \E t \in Clock : VerifyObject(Standing(sealed[o])', t) = {}
<1>1. PICK obj : obj = Proposed(o, p)
  OBVIOUS
<1>2. sealed'[o] = obj /\ clock \in Clock
  BY <1>1 DEF Seal, With, VInv, IInv, TypeOK
<1>3. status[obj.origin.creator] = "Active"
  BY <1>1, ProposedRepeats DEF Seal, Admissible, ValidCreator
<1>4. VerifyObject(Standing(obj), clock) = {}
  BY <1>1, <1>3, StandingIsInput DEF Seal, PassesVerification
<1>5. Standing(obj)' = Standing(obj)
  BY <1>4, PassedCompanions, StandingStays DEF VInv
<1> QED
  BY <1>2, <1>4, <1>5

\* The time authority's events are gone when the process is.
LEMMA EventsDie ==
    ASSUME VInv, [Next]_vars, pc = "down" \/ pc' = "down"
    PROVE  DOMAIN events' = {}
  BY DEF Next, SealStep, SetClock, Suspend, Revoke, SetStatus, Seal, SealRejected,
         WriteArtifact, SyncArtifact, WriteObject, SyncObject, InsertNode, InsertEdge,
         Answer, Return, At, IoError, Kill, PowerLoss, Forget, Reopen, vars, memory,
         control, VInv, EventsKnown

\* Certificates last as long as the process.
LEMMA CertifiedStep ==
    ASSUME VInv, [Next]_vars
    PROVE  Certified'
<1>1. CASE pc # "down" /\ pc' # "down"
  <2>1. Grows
    BY <1>1, LiveStep
  <2> SUFFICES ASSUME NEW o \in Here'
               PROVE  \E t \in Clock : VerifyObject(Standing(sealed[o])', t) = {}
    BY DEF Certified
  <2>2. CASE o \in Here
    <3>1. PICK t \in Clock : VerifyObject(Standing(sealed[o]), t) = {}
      BY <2>2 DEF VInv, Certified
    <3>2. sealed'[o] = sealed[o]
      BY <2>1, <2>2 DEF Grows, Here
    <3>3. PICK obj : obj = sealed[o]
      OBVIOUS
    <3>4. Standing(obj)' = Standing(obj)
      BY <2>1, <3>1, <3>3, PassedCompanions, StandingStays DEF VInv
    <3> QED
      BY <3>1, <3>2, <3>3, <3>4
  <2>3. CASE o \notin Here
    <3>1. PICK p \in Proposals : Seal(o, p) /\ o \in Objects
      <4>1. (DOMAIN sealed' = DOMAIN sealed /\ DOMAIN events' = DOMAIN events)
            \/ (\E x \in Objects, p \in Proposals : Seal(x, p) \/ SealRejected(x, p))
        BY <1>1 DEF Next, SealStep, SetClock, Suspend, Revoke, SetStatus, WriteArtifact,
                    SyncArtifact, WriteObject, SyncObject, InsertNode, InsertEdge, Answer,
                    IoError, Kill, PowerLoss, Forget, Reopen, vars, memory
      <4>2. PICK x \in Objects, p \in Proposals : Seal(x, p) \/ SealRejected(x, p)
        BY <2>3, <4>1 DEF Here
      <4>3. x \notin DOMAIN events /\ x \notin DOMAIN sealed /\ Attest(x)
        BY <4>2 DEF Seal, SealRejected, Fresh, VInv, EventsKnown
      <4>4. DOMAIN events' = DOMAIN events \cup {x}
        BY <4>3, AttestGrows
      <4>5. CASE SealRejected(x, p)
        <5>1. DOMAIN sealed' = DOMAIN sealed
          BY <4>5 DEF SealRejected
        <5> QED
          BY <2>3, <4>3, <4>4, <5>1 DEF Here
      <4>6. CASE Seal(x, p)
        <5>1. DOMAIN sealed' = DOMAIN sealed \cup {x}
          BY <4>6, SealAssembles
        <5>2. o \in {x} \cup Here
          BY <4>3, <4>4, <5>1 DEF Here
        <5> QED
          BY <2>3, <4>6, <5>2
      <4> QED
        BY <4>2, <4>5, <4>6
    <3> QED
      BY <2>1, <3>1, SealCertifies
  <2> QED
    BY <2>2, <2>3
<1>2. CASE pc = "down" \/ pc' = "down"
  BY <1>2, EventsDie DEF Certified, Here
<1> QED
  BY <1>1, <1>2

\* Only seals that were tried have events.
LEMMA EventsKnownStep ==
    ASSUME VInv, [Next]_vars
    PROVE  EventsKnown'
<1>1. CASE pc = "down" \/ pc' = "down"
  BY <1>1, EventsDie DEF EventsKnown
<1>2. CASE pc # "down" /\ pc' # "down"
  <2>1. \A o \in Objects : reply[o] # "none" => reply'[o] # "none"
    BY DEF Next, SealStep, SetClock, Suspend, Revoke, SetStatus, Seal, SealRejected,
           WriteArtifact, SyncArtifact, WriteObject, SyncObject, InsertNode, InsertEdge,
           Answer, Return, IoError, Kill, PowerLoss, Forget, Reopen, vars, VInv, IInv, TypeOK
  <2>2. \A o \in DOMAIN sealed : o \in DOMAIN sealed'
    BY <1>2, LiveStep DEF Grows
  <2>3. DOMAIN events \subseteq Objects
    BY DEF VInv, IInv, TypeOK
  <2>4. CASE events' = events
    BY <1>2, <2>1, <2>2, <2>3, <2>4 DEF VInv, EventsKnown
  <2>5. ASSUME NEW o \in Objects, NEW p \in Proposals, Seal(o, p) \/ SealRejected(o, p)
        PROVE  EventsKnown'
    <3>1. DOMAIN events' = DOMAIN events \cup {o}
      BY <2>5 DEF Seal, SealRejected, Attest, With
    <3>2. o \in DOMAIN sealed' \/ reply'[o] # "none"
      BY <2>5, SealAssembles DEF SealRejected, VInv, IInv, TypeOK
    <3> QED
      BY <1>2, <2>1, <2>2, <2>3, <3>1, <3>2 DEF VInv, EventsKnown
  <2>6. events' = events \/ \E o \in Objects, p \in Proposals : Seal(o, p) \/ SealRejected(o, p)
    BY <1>2 DEF Next, SealStep, SetClock, Suspend, Revoke, SetStatus, WriteArtifact, SyncArtifact,
                WriteObject, SyncObject, InsertNode, InsertEdge, Answer, IoError, Kill, PowerLoss,
                Forget, Reopen, vars, memory
  <2> QED
    BY <2>4, <2>5, <2>6
<1> QED
  BY <1>1, <1>2

\* A seal adds one object of the known shape; every other step adds none.
LEMMA SealedStep ==
    ASSUME VInv, [Next]_vars
    PROVE  SealedShape' /\ IsFiniteSet(DOMAIN sealed)'
<1>1. CASE sealed' = sealed
  BY <1>1 DEF VInv, SealedShape
<1>2. ASSUME NEW o \in Objects, NEW p \in Proposals, Seal(o, p)
      PROVE  SealedShape' /\ IsFiniteSet(DOMAIN sealed)'
  <2>1. /\ DOMAIN sealed' = DOMAIN sealed \cup {o}
        /\ \A x \in DOMAIN sealed : sealed'[x] = sealed[x]
    BY <1>2, SealAssembles
  <2>2. sealed'[o] = Proposed(o, p)
    BY <1>2 DEF Seal, With
  <2>3. SealedShape'
    BY <2>1, <2>2, ProposedShape, ProposedRepeats DEF VInv, SealedShape
  <2> QED
    BY <2>1, <2>3, FS_AddElement DEF VInv
<1>3. sealed' = sealed \/ \E o \in Objects, p \in Proposals : Seal(o, p)
  BY DEF Next, SealStep, SetClock, Suspend, Revoke, SetStatus, SealRejected, WriteArtifact,
         SyncArtifact, WriteObject, SyncObject, InsertNode, InsertEdge, Answer, IoError, Kill,
         PowerLoss, Forget, Reopen, vars
<1> QED
  BY <1>1, <1>2, <1>3

\* A node is inserted for a loaded object, and a reload finds all of them.
LEMMA IndexLoadedStep ==
    ASSUME VInv, [Next]_vars
    PROVE  IndexLoaded'
<1>1. CASE Reopen
  BY <1>1 DEF Reopen, disk, VInv, IInv, TypeOK, IndexSound, IndexLoaded, Whole
<1>2. CASE pc # "down" /\ pc' # "down"
  <2>1. objects \subseteq objects'
    BY <1>2, LiveStep DEF Grows
  <2>2. CASE InsertNode
    BY <1>2, <2>1, <2>2 DEF InsertNode, At, VInv, IndexLoaded, IInv, FilesInProgress
  <2>3. CASE nodes' = nodes
    BY <1>2, <2>1, <2>3 DEF VInv, IndexLoaded
  <2>4. nodes' = nodes \/ InsertNode
    BY DEF Next, SealStep, SetClock, Suspend, Revoke, SetStatus, Seal, SealRejected,
           WriteArtifact, SyncArtifact, WriteObject, SyncObject, InsertEdge, Answer, IoError,
           Kill, PowerLoss, Forget, Reopen, vars, disk
  <2> QED
    BY <2>2, <2>3, <2>4
<1>3. CASE pc' = "down"
  BY <1>3 DEF IndexLoaded
<1>4. pc = "down" => pc' = "down" \/ Reopen
  BY DEF Next, SealStep, SetClock, Suspend, Revoke, SetStatus, Seal, SealRejected, WriteArtifact,
         SyncArtifact, WriteObject, SyncObject, InsertNode, InsertEdge, Answer, At, IoError,
         Kill, PowerLoss, Forget, vars, control
<1> QED
  BY <1>1, <1>2, <1>3, <1>4

(***************************************************************************)
(* VInv holds in every reachable state: what this process attested stays   *)
(* verifiable while it lives.                                              *)
(***************************************************************************)
THEOREM VerdictsInductive == Spec => []VInv
<1>1. Init => VInv
  <2> SUFFICES ASSUME Init PROVE VInv
    OBVIOUS
  <2>1. IInv
    BY InitInv
  <2>2. DOMAIN sealed = {} /\ DOMAIN events = {} /\ nodes = {} /\ pc # "down"
    BY DEF Init
  <2> QED
    BY <2>1, <2>2, FS_EmptySet DEF VInv, Certified, Here, EventsKnown, SealedShape, IndexLoaded
<1>2. VInv /\ [Next]_vars => VInv'
  BY InvStep, CertifiedStep, EventsKnownStep, SealedStep, IndexLoadedStep DEF VInv
<1> QED
  BY <1>1, <1>2, PTL DEF Spec
-----------------------------------------------------------------------------
(***************************************************************************)
(* What follows from VInv.                                                 *)
(***************************************************************************)
\* A loaded object has its bytes, and its verdict is the verifier's.
LEMMA LoadedVerdict ==
    ASSUME VInv, NEW o \in objects
    PROVE  /\ o \in DOMAIN sealed
           /\ o \in DOMAIN artifacts /\ artifacts[o] = TheArtifact
           /\ Verdict(o) = FromFailures(VerifyObject(Input(sealed[o], TheArtifact), clock))
<1>1. o \in DOMAIN sealed /\ o \in DOMAIN artifacts /\ artifacts[o] = TheArtifact
  BY LoadedIsSealed DEF VInv, IInv, Loaded
<1> QED
  BY <1>1 DEF Verdict

\* Verified is to have no failures.
LEMMA VerifiedIsClean ==
    ASSUME NEW failures
    PROVE  FromFailures(failures) = "Verified" <=> failures = {}
  BY DEF FromFailures

(***************************************************************************)
(* What this process sealed and holds verifies while its credentials do.   *)
(***************************************************************************)
THEOREM SealedHereHolds == Spec => []SealedHereVerifies
<1>1. VInv => SealedHereVerifies
  <2> SUFFICES ASSUME VInv, NEW o \in objects \cap DOMAIN events, CredentialsValid(o)
               PROVE  Verdict(o) = "Verified"
    BY DEF SealedHereVerifies
  <2>1. PICK obj : obj = sealed[o]
    OBVIOUS
  <2>2. o \in Here
    BY LoadedVerdict DEF Here
  <2>3. PICK t \in Clock : VerifyObject(Standing(obj), t) = {}
    BY <2>1, <2>2 DEF VInv, Certified
  <2>4. PICK in : in = Input(obj, TheArtifact)
    OBVIOUS
  <2>5. Standing(obj) = in
    BY <2>1, <2>4, StandingIsInput DEF CredentialsValid
  <2>6. in.object = obj
    BY <2>4 DEF Input
  <2>7. VerifyObject(in, clock) = {}
    BY <2>1, <2>3, <2>5, <2>6, OnlyTokensExpire DEF CredentialsValid
  <2> QED
    BY <2>1, <2>4, <2>7, LoadedVerdict, VerifiedIsClean
<1> QED
  BY <1>1, VerdictsInductive, PTL

\* What was verified and is given as before verifies unless its token is
\* read at another time.
LEMMA VerdictStep ==
    ASSUME VInv, [Next]_vars, NEW o \in objects, Verdict(o) = "Verified",
           pc' # "down", status' = status,
           clock' = clock \/ sealed[o].time_event.time_source # "External"
    PROVE  Verdict(o)' = "Verified"
<1>1. pc # "down"
  BY DEF VInv, IInv, Loaded
<1>2. Grows /\ VInv'
  BY <1>1, LiveStep, InvStep, CertifiedStep, EventsKnownStep, SealedStep, IndexLoadedStep
     DEF VInv
<1>3. PICK obj : obj = sealed[o]
  OBVIOUS
<1>4. VerifyObject(Input(obj, TheArtifact), clock) = {}
  BY <1>3, LoadedVerdict, VerifiedIsClean
<1>5. status[obj.origin.creator] = "Active"
  <2>1. CreatorFailures(Input(obj, TheArtifact)) = {}
    BY <1>4 DEF VerifyObject
  <2> QED
    BY <2>1 DEF CreatorFailures, FailIf, Input
<1>6. VerifyObject(Standing(obj), clock) = {}
  BY <1>4, <1>5, StandingIsInput
<1>7. Standing(obj)' = Standing(obj)
  BY <1>2, <1>6, PassedCompanions, StandingStays DEF VInv
<1>8. Input(obj, TheArtifact)' = Standing(obj)
  BY <1>5, <1>7 DEF Input, Standing
<1>9. VerifyObject(Standing(obj), clock') = {}
  <2>1. Standing(obj).object = obj
    BY DEF Standing
  <2> QED
    BY <1>3, <1>6, <2>1, OnlyTokensExpire
<1>10. o \in objects' /\ sealed'[o] = obj /\ artifacts'[o] = TheArtifact /\ o \in DOMAIN artifacts'
  BY <1>2, <1>3, LoadedVerdict DEF Grows
<1>11. Verdict(o)' = FromFailures(VerifyObject(Standing(obj), clock'))
  BY <1>8, <1>10 DEF Verdict
<1> QED
  BY <1>9, <1>11, VerifiedIsClean

(***************************************************************************)
(* A verdict is lost only with the process, a status or a token's time.    *)
(***************************************************************************)
THEOREM VerdictsAreStable == Spec => VerdictStable
<1>1. VInv /\ [Next]_vars =>
        [\A o \in objects :
            Verdict(o) = "Verified" /\ Verdict(o)' # "Verified" =>
                \/ pc' = "down"
                \/ status' # status
                \/ clock' # clock /\ sealed[o].time_event.time_source = "External"]_vars
  BY VerdictStep
<1> QED
  BY <1>1, VerdictsInductive, PTL DEF Spec, VerdictStable
-----------------------------------------------------------------------------
(***************************************************************************)
(* What a bundle carries is what the node verifies.                        *)
(***************************************************************************)
\* The receiver's input is the node's but for the roots.
LEMMA BundleCarriesInput ==
    ASSUME VInv, NEW o \in objects, NEW roots
    PROVE  VerifyFromProofBundle(BuildProofBundle(o), TheArtifact, roots, clock) =
           FromFailures(VerifyObject(
               [Input(sealed[o], TheArtifact) EXCEPT !.tsa_roots = roots], clock))
<1> DEFINE bundle == BuildProofBundle(o)
           obj == sealed[o]
           stamped(p) == [object_id |-> p.object_id, timestamp |-> p.time_event.timestamp]
           given(q) == [object_id |-> q, timestamp |-> sealed[q].time_event.timestamp]
<1>1. bundle.parent_objects = {sealed[q] : q \in obj.parent_ids \cap objects}
  BY DEF BuildProofBundle
<1>2. \A q \in objects : stamped(sealed[q]) = given(q)
  BY LoadedIsSealed DEF VInv, SealedShape
<1> DEFINE parents == {stamped(p) : p \in bundle.parent_objects}
<1>3. parents = {given(q) : q \in obj.parent_ids \cap objects}
  <2> DEFINE ids == obj.parent_ids \cap objects
  <2>1. parents = {stamped(sealed[q]) : q \in ids}
    <3> HIDE DEF stamped, ids
    <3> QED
      BY <1>1 DEF ids
  <2>2. \A q \in ids : stamped(sealed[q]) = given(q)
    BY <1>2
  <2> HIDE DEF stamped, given, ids
  <2> QED
    BY <2>1, <2>2 DEF ids
<1>4. Input(obj, TheArtifact).parents = parents
  <2> HIDE DEF parents
  <2> QED
    BY <1>3 DEF Input
<1>5. bundle.object = obj
  BY DEF BuildProofBundle
<1> DEFINE received == [object      |-> bundle.object,
                        artifact    |-> TheArtifact,
                        creator     |-> bundle.creator_identity,
                        module      |-> bundle.module_registration,
                        authority   |-> bundle.time_authority_identity,
                        evaluator   |-> bundle.policy_evaluator_identity,
                        predecessor |-> bundle.predecessor_time_event,
                        parents     |-> parents,
                        tsa_roots   |-> roots]
<1>6. received = [Input(obj, TheArtifact) EXCEPT !.tsa_roots = roots]
  <2>1. PICK in : in = Input(obj, TheArtifact)
    OBVIOUS
  <2>2. /\ DOMAIN in = {"object", "artifact", "creator", "module", "authority", "evaluator",
                        "predecessor", "parents", "tsa_roots"}
        /\ in.object = bundle.object /\ in.artifact = TheArtifact
        /\ in.creator = bundle.creator_identity /\ in.module = bundle.module_registration
        /\ in.authority = bundle.time_authority_identity
        /\ in.evaluator = bundle.policy_evaluator_identity
        /\ in.predecessor = bundle.predecessor_time_event
        /\ in = [x \in DOMAIN in |-> in[x]]
    BY <2>1 DEF BuildProofBundle, Input
  <2> HIDE DEF parents, bundle
  <2> QED
    BY <1>4, <2>1, <2>2
<1> QED
  BY <1>6 DEF VerifyFromProofBundle

\* Pinning roots refuses the tokens of other roots, and nothing else.
LEMMA RootsOnlyRefuse ==
    ASSUME NEW in, in.tsa_roots = None, NEW now,
           NEW roots \in (SUBSET Roots) \ {{}}, NEW pinned, pinned = [in EXCEPT !.tsa_roots = roots],
           in.object.time_event.time_source =
               IF in.object.time_event.rfc3161_token = None THEN "Local" ELSE "External",
           DOMAIN in = {"object", "artifact", "creator", "module", "authority", "evaluator",
                        "predecessor", "parents", "tsa_roots"}
    PROVE  LET token == in.object.time_event.rfc3161_token
           IN  VerifyObject(pinned, now) = {} <=>
                   VerifyObject(in, now) = {} /\ (token = None \/ token.root \in roots)
<1> DEFINE token == in.object.time_event.rfc3161_token
           others(x) == PayloadFailures(x) \cup SignatureFailures(x) \cup CreatorFailures(x)
                        \cup ModuleFailures(x) \cup TimeSignatureFailures(x)
                        \cup TimeChainFailures(x)
                        \cup PolicyFailures(x) \cup OriginFailures(x) \cup AiFailures(x)
                        \cup ImportFailures(x) \cup LineageFailures(x) \cup ProofChainFailures(x)
<1>1. /\ pinned.object = in.object /\ pinned.artifact = in.artifact
      /\ pinned.creator = in.creator /\ pinned.module = in.module
      /\ pinned.authority = in.authority /\ pinned.evaluator = in.evaluator
      /\ pinned.predecessor = in.predecessor /\ pinned.parents = in.parents
      /\ pinned.tsa_roots = roots
  OBVIOUS
<1>2. others(pinned) = others(in)
  BY <1>1 DEF PayloadFailures, SignatureFailures, CreatorFailures, ModuleFailures,
              TimeSignatureFailures, TimeChainFailures, PolicyFailures, OriginFailures,
              AiFailures, ImportFailures, LineageFailures, ProofChainFailures
<1>3. \A x : VerifyObject(x, now) = {} <=>
                x.object.protocol = SUPPORTED_PROTOCOL /\ others(x) = {} /\ TsaFailures(x, now) = {}
  BY DEF VerifyObject
<1>4. roots # None /\ roots # {} /\ None \notin roots
  BY RootsAssumption
<1>5. TsaFailures(pinned, now) = {} <=>
          TsaFailures(in, now) = {} /\ (token = None \/ token.root \in roots)
  BY <1>1, <1>4 DEF TsaFailures, VerifyTokenFull, RootTrusted
<1> QED
  BY <1>1, <1>2, <1>3, <1>5

(***************************************************************************)
(* The verdict travels with the bundle.                                    *)
(***************************************************************************)
THEOREM VerdictTravels == Spec => []BundleAgrees
<1>1. VInv => BundleAgrees
  <2> SUFFICES ASSUME VInv, NEW o \in objects \cap DOMAIN artifacts
               PROVE  LET verdict(roots) == VerifyFromProofBundle(BuildProofBundle(o),
                                                artifacts[o], roots, clock)
                          token == sealed[o].time_event.rfc3161_token
                      IN  /\ verdict(None) = Verdict(o)
                          /\ \A roots \in (SUBSET Roots) \ {{}} :
                                 verdict(roots) = "Verified" <=>
                                     Verdict(o) = "Verified"
                                     /\ (token = None \/ token.root \in roots)
    BY DEF BundleAgrees
  <2> DEFINE verdict(roots) == VerifyFromProofBundle(BuildProofBundle(o), artifacts[o], roots,
                                                     clock)
             token == sealed[o].time_event.rfc3161_token
             with(x, roots) == [x EXCEPT !.tsa_roots = roots]
  <2>1. PICK in : in = Input(sealed[o], TheArtifact)
    OBVIOUS
  <2>2. /\ DOMAIN in = {"object", "artifact", "creator", "module", "authority", "evaluator",
                        "predecessor", "parents", "tsa_roots"}
        /\ in.tsa_roots = None /\ in.object = sealed[o]
        /\ in = [x \in DOMAIN in |-> in[x]]
    BY <2>1 DEF Input
  <2>3. \A roots : verdict(roots) = FromFailures(VerifyObject(with(in, roots), clock))
    BY <2>1, BundleCarriesInput, LoadedVerdict
  <2>4. with(in, None) = in
    BY <2>2
  <2>5. Verdict(o) = FromFailures(VerifyObject(in, clock))
    BY <2>1, LoadedVerdict
  <2>6. verdict(None) = Verdict(o)
    BY <2>3, <2>4, <2>5
  <2>7. ASSUME NEW roots \in (SUBSET Roots) \ {{}}
        PROVE  verdict(roots) = "Verified" <=>
                   Verdict(o) = "Verified" /\ (token = None \/ token.root \in roots)
    <3>1. PICK pinned : pinned = with(in, roots)
      OBVIOUS
    <3>2. in.object.time_event.time_source =
              IF in.object.time_event.rfc3161_token = None THEN "Local" ELSE "External"
      BY <2>2, LoadedVerdict DEF VInv, SealedShape
    <3>3. VerifyObject(pinned, clock) = {} <=>
              VerifyObject(in, clock) = {} /\ (token = None \/ token.root \in roots)
      BY <2>2, <3>1, <3>2, RootsOnlyRefuse
    <3> QED
      BY <2>3, <2>5, <3>1, <3>3, VerifiedIsClean
  <2> QED
    BY <2>6, <2>7
<1> QED
  BY <1>1, VerdictsInductive, PTL
-----------------------------------------------------------------------------
(***************************************************************************)
(* A row of the report is bad with the failure it stands for: the codes    *)
(* the rows stand for are pushed by one check each.                        *)
(***************************************************************************)
LEMMA OneCheckEach ==
    ASSUME NEW in, NEW now, in.object.protocol = SUPPORTED_PROTOCOL
    PROVE  LET failures == VerifyObject(in, now)
           IN  /\ "ObjectSignatureInvalid" \in failures <=>
                      ~ SignatureOK(in.creator.key, ObjSignPayload(in.object),
                                    in.object.object_signature)
               /\ "CreatorIdentityNotActive" \in failures <=> in.creator.status # "Active"
               /\ "TimeSignatureInvalid" \in failures <=>
                      ~ SignatureOK(in.authority.key, TimeSignPayload(in.object.time_event),
                                    in.object.time_event.signature)
<1> DEFINE Shown == {"ObjectSignatureInvalid", "CreatorIdentityNotActive", "TimeSignatureInvalid"}
           clean(failures) == failures \cap Shown = {}
<1>1. clean(PayloadFailures(in)) /\ clean(ModuleFailures(in)) /\ clean(TimeChainFailures(in))
  BY DEF PayloadFailures, ModuleFailures, TimeChainFailures, FailIf
<1>2. clean(TsaFailures(in, now))
  BY DEF TsaFailures, VerifyTokenFull
<1>3. clean(PolicyFailures(in)) /\ clean(OriginFailures(in)) /\ clean(AiFailures(in))
  BY DEF PolicyFailures, OriginFailures, AiFailures, FailIf
<1>4. clean(ImportFailures(in)) /\ clean(LineageFailures(in)) /\ clean(ProofChainFailures(in))
  BY DEF ImportFailures, LineageFailures, ProofChainFailures, FailIf
<1>5. \A code \in Shown : code \in VerifyObject(in, now) <=>
          code \in SignatureFailures(in) \/ code \in CreatorFailures(in)
              \/ code \in TimeSignatureFailures(in)
  <2> HIDE DEF Shown
  <2> QED
    BY <1>1, <1>2, <1>3, <1>4 DEF VerifyObject
<1>6. SignatureFailures(in) \cap Shown =
          FailIf(~ SignatureOK(in.creator.key, ObjSignPayload(in.object),
                               in.object.object_signature), "ObjectSignatureInvalid")
  BY DEF SignatureFailures, FailIf
<1>7. CreatorFailures(in) \cap Shown =
          FailIf(in.creator.status # "Active", "CreatorIdentityNotActive")
  BY DEF CreatorFailures, FailIf
<1>8. TimeSignatureFailures(in) \cap Shown =
          FailIf(~ SignatureOK(in.authority.key, TimeSignPayload(in.object.time_event),
                               in.object.time_event.signature), "TimeSignatureInvalid")
  BY DEF TimeSignatureFailures, FailIf
<1> QED
  BY <1>5, <1>6, <1>7, <1>8 DEF FailIf

\* The codes of the policy and of the lineage are pushed by their own checks.
LEMMA RowsFollowChecks ==
    ASSUME NEW in, NEW now, in.object.protocol = SUPPORTED_PROTOCOL
    PROVE  LET failures == VerifyObject(in, now)
           IN  /\ PolicyRow(failures) # "Verified" <=> PolicyFailures(in) # {}
               /\ LineageRow(failures) # "CLEAN" <=> LineageFailures(in) # {}
<1> DEFINE Shown == PolicyCodes \cup LineageCodes
           clean(failures) == failures \cap Shown = {}
<1>1. clean(PayloadFailures(in)) /\ clean(ModuleFailures(in)) /\ clean(TimeChainFailures(in))
  BY DEF PayloadFailures, ModuleFailures, TimeChainFailures, FailIf, PolicyCodes, LineageCodes
<1>2. clean(TsaFailures(in, now))
  BY DEF TsaFailures, VerifyTokenFull, PolicyCodes, LineageCodes
<1>3. clean(SignatureFailures(in)) /\ clean(CreatorFailures(in)) /\ clean(TimeSignatureFailures(in))
  BY DEF SignatureFailures, CreatorFailures, TimeSignatureFailures, FailIf, PolicyCodes,
         LineageCodes
<1>4. clean(OriginFailures(in)) /\ clean(AiFailures(in)) /\ clean(ImportFailures(in))
      /\ clean(ProofChainFailures(in))
  BY DEF OriginFailures, AiFailures, ImportFailures, ProofChainFailures, FailIf, PolicyCodes,
         LineageCodes
<1>5. /\ PolicyFailures(in) \subseteq PolicyCodes
      /\ LineageFailures(in) \subseteq LineageCodes
      /\ PolicyCodes \cap LineageCodes = {}
  BY DEF PolicyFailures, LineageFailures, FailIf, PolicyCodes, LineageCodes
<1>6. \A code \in Shown : code \in VerifyObject(in, now) <=>
          code \in PolicyFailures(in) \/ code \in LineageFailures(in)
  <2> HIDE DEF Shown
  <2> QED
    BY <1>1, <1>2, <1>3, <1>4 DEF VerifyObject
<1>7. /\ VerifyObject(in, now) \cap PolicyCodes = {} <=> PolicyFailures(in) = {}
      /\ VerifyObject(in, now) \cap LineageCodes = {} <=> LineageFailures(in) = {}
  <2>1. /\ \A code \in PolicyCodes : code \in VerifyObject(in, now) <=> code \in PolicyFailures(in)
        /\ \A code \in LineageCodes : code \in VerifyObject(in, now) <=> code \in LineageFailures(in)
    BY <1>5, <1>6
  <2> QED
    BY <2>1, <1>5
<1>8. \A failures : PolicyRow(failures) # "Verified" <=> failures \cap PolicyCodes # {}
  BY DEF PolicyRow
<1>9. \A failures : LineageRow(failures) # "CLEAN" <=> failures \cap LineageCodes # {}
  BY DEF LineageRow
<1> QED
  BY <1>7, <1>8, <1>9

\* The graph counts no child the store lacks, and misses none whose seal
\* succeeded.
LEMMA ChildrenCounted ==
    ASSUME VInv, pc # "down", NEW o \in objects
    PROVE  /\ Cardinality(Children(o)) <= Cardinality(ChildrenOf(o))
           /\ Cardinality(Children(o)) >= Cardinality(ChildrenOf(o) \cap Acked)
<1>1. IsFiniteSet(ChildrenOf(o))
  BY LoadedIsSealed, FS_Subset DEF VInv, ChildrenOf
<1>2. Children(o) \subseteq ChildrenOf(o)
  <2> SUFFICES ASSUME NEW c \in Objects, <<c, o>> \in edges
               PROVE  c \in objects /\ o \in Parents(c)
    BY DEF Children, ChildrenOf
  <2>1. <<c, o>>[1] \in nodes /\ <<c, o>>[2] \in Parents(<<c, o>>[1])
    BY DEF VInv, IInv, IndexSound
  <2> QED
    BY <2>1 DEF VInv, IndexLoaded
<1>3. ChildrenOf(o) \cap Acked \subseteq Children(o)
  BY DEF VInv, IInv, AckedComplete, Children, ChildrenOf, Acked
<1> QED
  BY <1>1, <1>2, <1>3, FS_Subset

(***************************************************************************)
(* The rows of hash, signatures, creator, policy and lineage agree exactly *)
(* with the verifier's checks, the row of the time chain as far as it      *)
(* goes, the count of children with the store.                             *)
(***************************************************************************)
THEOREM ReportsAreHonest == Spec => []InspectionHonest
<1>1. VInv => InspectionHonest
  <2> SUFFICES ASSUME VInv, pc # "down", NEW o \in objects
               PROVE  LET report == Inspect(o)
                          shows(bad, code) == bad <=> code \in report.failures
                      IN  /\ report.status = "Verified" <=> report.failures = {}
                          /\ shows(report.recomputed_hash_status # "MATCH", "PayloadHashMismatch")
                          /\ shows(report.signature_status # "VALID", "ObjectSignatureInvalid")
                          /\ shows(~ report.signature_verified, "TimeSignatureInvalid")
                          /\ shows(report.creator_status # "Active", "CreatorIdentityNotActive")
                          /\ report.proof_status # "Verified" <=> PolicyFault(o)
                          /\ report.lineage_status # "CLEAN" <=> LineageFault(o)
                          /\ report.chain_linkage_status = "GENESIS" => ~ ChainFault(o)
                          /\ report.chain_linkage_status # "PREDECESSOR_MISSING"
                          /\ report.child_count <= Cardinality(ChildrenOf(o))
                          /\ report.child_count >= Cardinality(ChildrenOf(o) \cap Acked)
    BY DEF InspectionHonest
  <2>1. PICK in : in = Input(sealed[o], TheArtifact)
    OBVIOUS
  <2>2. PICK failures : failures = VerifyObject(in, clock)
    OBVIOUS
  <2>3. /\ in.object = sealed[o] /\ in.artifact = TheArtifact
        /\ in.creator.key = sealed[o].origin.creator
        /\ in.creator.status = status[sealed[o].origin.creator]
        /\ in.authority.key = TimeKey
    BY <2>1 DEF Input
  <2>4. /\ sealed[o].protocol = "V1" /\ sealed[o].payload_hash = Payload
        /\ sealed[o].artifact_size_bytes = 1
        /\ o \in DOMAIN artifacts /\ artifacts[o] = TheArtifact
    BY LoadedVerdict DEF VInv, SealedShape, IInv, SealedSound
  <2>5. Failures(o) = failures
    BY <2>1, <2>2, <2>4 DEF Failures
  <2>6. ShownStatus(o) = "Verified" <=> failures = {}
    BY <2>1, <2>2, LoadedVerdict, VerifiedIsClean DEF ShownStatus
  <2>7. HashRow(o) = "MATCH" /\ "PayloadHashMismatch" \notin failures
    BY <2>2, <2>3, <2>4, OnlyPayloadTampers DEF HashRow, PayloadFailures, FailIf, TheArtifact
  <2>8. /\ SignatureRow(o) # "VALID" <=> "ObjectSignatureInvalid" \in failures
        /\ ~ SignatureOK(TimeKey, TimeSignPayload(sealed[o].time_event),
                         sealed[o].time_event.signature) <=> "TimeSignatureInvalid" \in failures
        /\ status[sealed[o].origin.creator] # "Active" <=> "CreatorIdentityNotActive" \in failures
    BY <2>2, <2>3, <2>4, OneCheckEach DEF SignatureRow, SUPPORTED_PROTOCOL
  <2>9. /\ PolicyRow(failures) # "Verified" <=> PolicyFault(o)
        /\ LineageRow(failures) # "CLEAN" <=> LineageFault(o)
    BY <2>1, <2>2, <2>3, <2>4, RowsFollowChecks
       DEF SUPPORTED_PROTOCOL, PolicyFault, LineageFault
  <2>10. /\ ChainLinkage(sealed[o].time_event) = "GENESIS" => ~ ChainFault(o)
         /\ ChainLinkage(sealed[o].time_event) # "PREDECESSOR_MISSING"
    BY <2>1, <2>3 DEF ChainLinkage, IsGenesis, ChainFault, TimeChainFailures
  <2> QED
    BY <2>5, <2>6, <2>7, <2>8, <2>9, <2>10, ChildrenCounted DEF Inspect
<1> QED
  BY <1>1, VerdictsInductive, PTL
=============================================================================
