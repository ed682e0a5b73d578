--------------------------- MODULE RegistryProofs ---------------------------
(***************************************************************************)
(* Theorems about the sealing registry, for every value of its constants:  *)
(* its type correctness, the inductive invariant IInv that relates the     *)
(* files, the memory, the graph and the call in progress, and what follows *)
(* from it.                                                                *)
(***************************************************************************)
EXTENDS RegistryProps, TLAPS

(***************************************************************************)
(* The inductive invariant, in named parts.                                *)
(***************************************************************************)
\* What the call in progress has done so far: its object is known, nobody
\* was told anything about it, and its parents are loaded.
InProgress ==
    Running => /\ cur \in DOMAIN sealed
               /\ reply[cur] = "none"
               /\ Parents(cur) \subseteq objects
               /\ todo \subseteq Parents(cur)
               /\ pc # "edges" => todo = Parents(cur)

FilesInProgress ==
    /\ pc = "artifact" => artFile[cur] = "absent"
    /\ pc \in {"artifact", "syncArtifact", "object"} => objFile[cur] = "absent"
    /\ pc \in {"object", "syncObject"} => artFile[cur] = "synced"
    /\ pc = "syncObject" => objFile[cur] = "written"
    /\ pc \in {"node", "edges"} => objFile[cur] = "synced" /\ cur \in objects

GraphInProgress ==
    pc = "edges" => /\ cur \in nodes
                    /\ \A q \in Parents(cur) : q \in todo \/ <<cur, q>> \in edges

\* Between calls the registry works on nothing.
AtRest == ~ Running => todo = {}

\* An id no object was assembled for has left no trace.
Untouched ==
    \A o \in Objects \ DOMAIN sealed :
        objFile[o] = "absent" /\ artFile[o] = "absent" /\ reply[o] # "ok"

\* No object file without its artifact on the medium.
ArtifactFirst == \A o \in Objects : objFile[o] # "absent" => artFile[o] = "synced"

\* What is in memory is in files, the bytes with it.
Loaded ==
    /\ pc = "down" => objects = {}
    /\ \A o \in objects : /\ o \in Persisted
                          /\ o \in DOMAIN artifacts
                          /\ artifacts[o] = TheArtifact

\* Every assembled object names its artifact and is younger than its
\* parents, all of them assembled before.
SealedSound ==
    \A o \in DOMAIN sealed :
        /\ sealed[o].payload_hash = Payload
        /\ sealed[o].artifact_size_bytes = 1
        /\ \A q \in Parents(o) : q \in DOMAIN sealed /\ Timestamp(q) < Timestamp(o)

\* The files are closed under parents, in the sense of LineageClosed.
StoreClosed ==
    \A o \in Persisted : \A q \in Parents(o) :
        q \in Persisted \/ ("power" \in Faults /\ reply[q] # "ok")

IInv ==
    /\ TypeOK
    /\ InProgress
    /\ FilesInProgress
    /\ GraphInProgress
    /\ AtRest
    /\ Untouched
    /\ ArtifactFirst
    /\ Loaded
    /\ SealedSound
    /\ StoreClosed
    /\ LineageClosed
    /\ AckedComplete
    /\ IndexSound
-----------------------------------------------------------------------------
(***************************************************************************)
(* The parts of a proposed object that the invariant speaks of.            *)
(***************************************************************************)
\* With sets one value of a function, and changes no other.
LEMMA WithDomain ==
    ASSUME NEW f, NEW o, NEW v
    PROVE  DOMAIN With(f, o, v) = DOMAIN f \cup {o}
BY DEF With

\* With gives the new value at its point.
LEMMA WithNew ==
    ASSUME NEW f, NEW o, NEW v
    PROVE  With(f, o, v)[o] = v
BY DEF With

\* With keeps every other value.
LEMMA WithOld ==
    ASSUME NEW f, NEW o, NEW v, NEW x \in DOMAIN f, x # o
    PROVE  With(f, o, v)[x] = f[x]
BY DEF With

\* The event of a seal carries the clock of the attestation, token or not.
LEMMA AnchoredTime ==
    ASSUME NEW o, NEW token
    PROVE  Anchored(o, token).timestamp = clock
<1>1. /\ "timestamp" \in DOMAIN DraftEvent(o, token)
      /\ DraftEvent(o, token).timestamp = clock
  BY DEF DraftEvent
<1>2. "timestamp" # "signature"
  OBVIOUS
<1> DEFINE draft == DraftEvent(o, token)
           signature == Sign(TimeKey, TimeSignPayload(draft))
<1> HIDE DEF draft, signature
<1>3. With(draft, "signature", signature)["timestamp"] = draft["timestamp"]
  BY <1>1, <1>2, WithOld DEF draft
<1>4. QED  BY <1>1, <1>3 DEF Anchored, SignEvent, draft, signature

\* The fields of the object a seal assembles that the invariant speaks of.
LEMMA ProposedShape ==
    ASSUME NEW o, NEW p
    PROVE  /\ Proposed(o, p).object_id = o
           /\ Proposed(o, p).parent_ids = p.parents
           /\ Proposed(o, p).payload_hash = Payload
           /\ Proposed(o, p).artifact_size_bytes = 1
           /\ Proposed(o, p).protocol = "V1"
           /\ Proposed(o, p).time_event.timestamp = clock
<1> DEFINE event == Anchored(o, p.tsa)
<1>1. event.timestamp = clock
  BY AnchoredTime
<1>2. Proposed(o, p) = Assemble(o, p, event)
  BY DEF Proposed
<1> HIDE DEF event
<1>3. ASSUME NEW r, NEW key, NEW x \in DOMAIN r, x # "object_signature"
      PROVE  SignObject(r, key)[x] = r[x]
  BY <1>3, WithOld DEF SignObject
<1>4. /\ Assemble(o, p, event).object_id = o
      /\ Assemble(o, p, event).parent_ids = p.parents
      /\ Assemble(o, p, event).payload_hash = Payload
      /\ Assemble(o, p, event).artifact_size_bytes = 1
      /\ Assemble(o, p, event).protocol = "V1"
      /\ Assemble(o, p, event).time_event = event
  BY <1>3 DEF Assemble
<1>5. QED  BY <1>1, <1>2, <1>4

(***************************************************************************)
(* The verification before the write lets an object pass only if it is     *)
(* younger than its parents.                                               *)
(***************************************************************************)
LEMMA PassedLineage ==
    ASSUME NEW o, NEW p, Admissible(p), PassesVerification(o, p)
    PROVE  \A q \in p.parents : q \in objects /\ Timestamp(q) < clock
<1> DEFINE in == Input(Proposed(o, p), TheArtifact)
<1>1. /\ in.object = Proposed(o, p)
      /\ in.parents = {[object_id |-> q, timestamp |-> sealed[q].time_event.timestamp] :
                          q \in Proposed(o, p).parent_ids \cap objects}
  BY DEF Input
<1>2. VerifyObject(in, clock) = {}
  BY DEF PassesVerification
<1> HIDE DEF in
<1>3. in.object.protocol = SUPPORTED_PROTOCOL
  BY <1>1, ProposedShape DEF SUPPORTED_PROTOCOL
<1>4. LineageFailures(in) = {}
  BY <1>2, <1>3 DEF VerifyObject
<1>5. ASSUME NEW q \in p.parents
      PROVE  q \in objects /\ Timestamp(q) < clock
  <2>1. q \in objects
    BY <1>5 DEF Admissible, ParentsStored
  <2>2. q \in in.object.parent_ids
    BY <1>1, ProposedShape
  <2> DEFINE given == [object_id |-> q, timestamp |-> sealed[q].time_event.timestamp]
  <2>3. given \in in.parents /\ given.object_id = q
    BY <1>1, <2>1, <2>2
  <2> HIDE DEF given
  <2>4. given.timestamp < in.object.time_event.timestamp
    BY <1>4, <2>2, <2>3 DEF LineageFailures, FailIf
  <2>5. in.object.time_event.timestamp = clock
    BY <1>1, ProposedShape
  <2>6. QED  BY <2>1, <2>4, <2>5 DEF given, Timestamp
<1>6. QED  BY <1>5
(***************************************************************************)
(* A seal assembles one object, younger than its parents, and leaves the   *)
(* objects assembled before as they are.                                   *)
(***************************************************************************)
LEMMA SealAssembles ==
    ASSUME NEW o, NEW p, Seal(o, p)
    PROVE  /\ o \notin DOMAIN sealed
           /\ DOMAIN sealed' = DOMAIN sealed \cup {o}
           /\ \A x \in DOMAIN sealed : sealed'[x] = sealed[x]
           /\ sealed'[o].parent_ids = p.parents
           /\ sealed'[o].payload_hash = Payload
           /\ sealed'[o].artifact_size_bytes = 1
           /\ sealed'[o].time_event.timestamp = clock
<1>1. o \notin DOMAIN sealed
  BY DEF Seal, Fresh
<1>2. /\ DOMAIN sealed' = DOMAIN sealed \cup {o}
      /\ \A x \in DOMAIN sealed : sealed'[x] = sealed[x]
      /\ sealed'[o] = Proposed(o, p)
  BY <1>1 DEF Seal, With
<1>3. QED  BY <1>1, <1>2, ProposedShape

-----------------------------------------------------------------------------
\* Whatever a failed write or a power cut leaves, each file is in a file state.
LEMMA TornFileStates ==
    ASSUME NEW file \in [Objects -> FileStates], NEW step
    PROVE  /\ LeftBy(file, step) \subseteq [Objects -> FileStates]
           /\ Left(file, step) \subseteq [Objects -> FileStates]
<1>1. ASSUME NEW s \in {"absent", "torn"}
      PROVE  [file EXCEPT ![cur] = s] \in [Objects -> FileStates]
  BY <1>1 DEF FileStates
<1>2. QED  BY <1>1 DEF LeftBy, Left

\* What the death of a process does to the state's types.
LEMMA ForgetTypes ==
    ASSUME TypeOK, Forget,
           artFile' \in [Objects -> FileStates], objFile' \in [Objects -> FileStates]
    PROVE  TypeOK'
<1>1. status' \in [Creators -> IdentityStatus]
  BY DEF Forget, IdentityStatus
<1>2. chain' \in Seq(Objects) /\ DOMAIN events' \subseteq Objects
      /\ DOMAIN artifacts' \subseteq Objects
  BY DEF Forget
<1>3. (\A o \in DOMAIN sealed : Parents(o) \subseteq Objects /\ Timestamp(o) \in Clock)'
  BY DEF TypeOK, Forget, Parents, Timestamp
<1>4. QED  BY <1>1, <1>2, <1>3 DEF TypeOK, Forget, PCs, Running

\* Every step keeps the types.
LEMMA TypeStep ==
    ASSUME TypeOK, [Next]_vars
    PROVE  TypeOK'
<1> USE DEF memory, disk, control, Running
<1>1. CASE SetClock
  BY <1>1 DEF SetClock, TypeOK, Parents, Timestamp
<1>2. ASSUME NEW i \in Creators, NEW s \in IdentityStatus, SetStatus(i, s)
      PROVE  TypeOK'
  BY <1>2 DEF SetStatus, TypeOK, Parents, Timestamp
<1>3. ASSUME NEW o \in Objects, NEW p \in Proposals, Seal(o, p)
      PROVE  TypeOK'
  <2>1. chain' \in Seq(Objects)
    BY <1>3 DEF Seal, Attest, TypeOK
  <2>2. DOMAIN events' \subseteq Objects
    BY <1>3 DEF Seal, Attest, With, TypeOK
  <2>3. p.parents \subseteq Objects
    BY DEF Proposals, TypeOK
  <2>4. DOMAIN sealed' \subseteq Objects
    <3>1. DOMAIN sealed' = DOMAIN sealed \cup {o}
      BY <1>3, SealAssembles
    <3>2. QED  BY <3>1 DEF TypeOK
  <2>5. ASSUME NEW x \in DOMAIN sealed'
        PROVE  (Parents(x) \subseteq Objects /\ Timestamp(x) \in Clock)'
    <3>1. CASE x = o
      BY <1>3, <2>3, <3>1, SealAssembles DEF TypeOK, Parents, Timestamp
    <3>2. CASE x # o
      BY <1>3, <3>2, SealAssembles DEF TypeOK, Parents, Timestamp
    <3>3. QED  BY <3>1, <3>2
  <2>6. todo' \subseteq Objects /\ pc' \in PCs /\ cur' \in Objects
    BY <1>3, <2>3 DEF Seal, PCs
  <2>7. QED  BY <1>3, <2>1, <2>2, <2>4, <2>5, <2>6 DEF Seal, TypeOK
<1>4. ASSUME NEW o \in Objects, NEW p \in Proposals, SealRejected(o, p)
      PROVE  TypeOK'
  <2>1. chain' \in Seq(Objects)
    BY <1>4 DEF SealRejected, Attest, TypeOK
  <2>2. DOMAIN events' \subseteq Objects
    BY <1>4 DEF SealRejected, Attest, With, TypeOK
  <2>3. reply' \in [Objects -> {"none", "ok", "err"}]
    BY <1>4 DEF SealRejected, TypeOK
  <2>4. UNCHANGED <<clock, status, sealed, objects, artifacts, objFile, artFile, nodes,
                    edges, pc, cur, todo>>
    BY <1>4 DEF SealRejected
  <2>5. QED  BY <2>1, <2>2, <2>3, <2>4 DEF TypeOK, Parents, Timestamp
<1>5. CASE WriteArtifact
  BY <1>5 DEF WriteArtifact, At, TypeOK, Parents, Timestamp, PCs, FileStates
<1>6. CASE SyncArtifact
  BY <1>6 DEF SyncArtifact, At, TypeOK, Parents, Timestamp, PCs, FileStates
<1>7. CASE WriteObject
  BY <1>7 DEF WriteObject, At, TypeOK, Parents, Timestamp, PCs, FileStates
<1>8. CASE SyncObject
  <2>1. cur \in Objects
    BY <1>8 DEF SyncObject, At, TypeOK
  <2>2. DOMAIN artifacts' \subseteq Objects
    BY <1>8, <2>1 DEF SyncObject, With, TypeOK
  <2>3. objFile' \in [Objects -> FileStates]
    BY <1>8 DEF SyncObject, TypeOK, FileStates
  <2>4. QED  BY <1>8, <2>1, <2>2, <2>3 DEF SyncObject, At, TypeOK, Parents, Timestamp, PCs
<1>9. CASE InsertNode
  BY <1>9 DEF InsertNode, At, TypeOK, Parents, Timestamp, PCs
<1>10. ASSUME NEW q \in Objects, InsertEdge(q)
       PROVE  TypeOK'
  BY <1>10 DEF InsertEdge, At, TypeOK, Parents, Timestamp, PCs
<1>11. CASE Answer
  BY <1>11 DEF Answer, Return, TypeOK, Parents, Timestamp, PCs
<1>12. CASE IoError
  <2>1. artFile' \in [Objects -> FileStates] /\ objFile' \in [Objects -> FileStates]
    BY <1>12, TornFileStates DEF IoError, TypeOK
  <2>2. QED  BY <1>12, <2>1 DEF IoError, Return, TypeOK, Parents, Timestamp, PCs
<1>13. CASE Kill
  BY <1>13, TornFileStates, ForgetTypes DEF Kill, TypeOK
<1>14. CASE PowerLoss
  BY <1>14, TornFileStates, ForgetTypes DEF PowerLoss, TypeOK
<1>15. CASE Reopen
  BY <1>15 DEF Reopen, TypeOK, Parents, Timestamp, PCs
<1>16. CASE UNCHANGED vars
  BY <1>16 DEF vars, TypeOK, Parents, Timestamp
<1>17. QED
  BY <1>1, <1>2, <1>3, <1>4, <1>5, <1>6, <1>7, <1>8, <1>9, <1>10, <1>11, <1>12,
     <1>13, <1>14, <1>15, <1>16
     DEF Next, SealStep, Suspend, Revoke, IdentityStatus

(***************************************************************************)
(* The state of the registry is type-correct.                              *)
(***************************************************************************)
THEOREM TypeCorrect == Spec => []TypeOK
<1>1. Init => TypeOK
  BY DEF Init, TypeOK, PCs, Running, FileStates, IdentityStatus
<1>2. TypeOK /\ [Next]_vars => TypeOK'
  BY TypeStep
<1>3. QED  BY <1>1, <1>2, PTL DEF Spec
-----------------------------------------------------------------------------
(***************************************************************************)
(* Every step keeps IInv.  One lemma per action, in the order of Next; the *)
(* type invariant is TypeStep's.                                           *)
(***************************************************************************)
LEMMA InitInv ==
    ASSUME Init
    PROVE  IInv
<1>1. TypeOK
  BY DEF Init, TypeOK, PCs, Running, FileStates, IdentityStatus
<1>2. InProgress /\ FilesInProgress /\ GraphInProgress /\ AtRest
  BY DEF Init, InProgress, FilesInProgress, GraphInProgress, AtRest, Running
<1>3. Untouched /\ ArtifactFirst
  BY DEF Init, Untouched, ArtifactFirst
<1>4. Loaded /\ SealedSound /\ StoreClosed /\ LineageClosed
  BY DEF Init, Loaded, SealedSound, StoreClosed, LineageClosed, Persisted, Whole
<1>5. AckedComplete /\ IndexSound
  BY DEF Init, AckedComplete, IndexSound, Acked
<1>6. QED  BY <1>1, <1>2, <1>3, <1>4, <1>5 DEF IInv

\* A step of the clock or of an identity, or a stutter, keeps IInv.
LEMMA QuietStep ==
    ASSUME IInv, TypeOK', UNCHANGED <<sealed, reply, objects, artifacts, disk, control>>
    PROVE  IInv'
<1> USE DEF disk, control
<1>1. (InProgress /\ FilesInProgress /\ GraphInProgress /\ AtRest)'
  BY DEF IInv, InProgress, FilesInProgress, GraphInProgress, AtRest, Running, Parents
<1>2. (Untouched /\ ArtifactFirst /\ SealedSound)'
  BY DEF IInv, Untouched, ArtifactFirst, SealedSound, Parents, Timestamp
<1>3. (Loaded /\ StoreClosed /\ LineageClosed)'
  BY DEF IInv, Loaded, StoreClosed, LineageClosed, Persisted, Parents
<1>4. (AckedComplete /\ IndexSound)'
  BY DEF IInv, AckedComplete, IndexSound, Acked, Parents
<1>5. QED  BY <1>1, <1>2, <1>3, <1>4 DEF IInv

\* Seal (steps 1-8) keeps IInv: what the verifier let pass is SealedSound.
LEMMA SealInv ==
    ASSUME IInv, TypeOK', NEW o \in Objects, NEW p \in Proposals, Seal(o, p)
    PROVE  IInv'
<1> USE DEF disk
<1>1. \A x \in DOMAIN sealed : Parents(x)' = Parents(x) /\ Timestamp(x)' = Timestamp(x)
  BY SealAssembles DEF Parents, Timestamp
<1>2. Parents(o)' = p.parents /\ Timestamp(o)' = clock
  BY SealAssembles DEF Parents, Timestamp
<1>3. \A q \in p.parents : q \in objects /\ Timestamp(q) < clock
  BY PassedLineage DEF Seal
<1>4. objects \subseteq DOMAIN sealed
  BY DEF IInv, Loaded, Untouched, Persisted, Whole
<1>5. objFile[o] = "absent" /\ artFile[o] = "absent" /\ reply[o] = "none"
  BY SealAssembles DEF Seal, Fresh, IInv, Untouched
<1>6. (InProgress /\ FilesInProgress /\ GraphInProgress /\ AtRest)'
  BY <1>2, <1>3, <1>5, SealAssembles
     DEF Seal, InProgress, FilesInProgress, GraphInProgress, AtRest, Running
<1>7. (Untouched /\ ArtifactFirst)'
  BY SealAssembles DEF Seal, IInv, Untouched, ArtifactFirst
<1>8. SealedSound'
  <2> SUFFICES ASSUME NEW x \in DOMAIN sealed'
               PROVE  (/\ sealed[x].payload_hash = Payload
                       /\ sealed[x].artifact_size_bytes = 1
                       /\ \A q \in Parents(x) : /\ q \in DOMAIN sealed
                                                /\ Timestamp(q) < Timestamp(x))'
    BY DEF SealedSound
  <2>1. CASE x = o
    BY <1>1, <1>2, <1>3, <1>4, <2>1, SealAssembles
  <2>2. CASE x # o
    <3>1. x \in DOMAIN sealed /\ sealed'[x] = sealed[x]
      <4>1. DOMAIN sealed' = DOMAIN sealed \cup {o}
        BY SealAssembles
      <4>2. x \in DOMAIN sealed
        BY <2>2, <4>1
      <4>3. QED  BY <4>2, SealAssembles
    <3>2. DOMAIN sealed \subseteq DOMAIN sealed'
      BY SealAssembles
    <3>3. Parents(x)' = Parents(x) /\ Timestamp(x)' = Timestamp(x)
      BY <1>1, <3>1
    <3>4. \A q \in Parents(x) : q \in DOMAIN sealed /\ Timestamp(q)' = Timestamp(q)
                                /\ Timestamp(q) < Timestamp(x)
      BY <1>1, <3>1 DEF IInv, SealedSound
    <3>5. QED  BY <3>1, <3>2, <3>3, <3>4 DEF IInv, SealedSound
  <2>3. QED  BY <2>1, <2>2
<1>9. (Loaded /\ StoreClosed /\ LineageClosed)'
  <2>1. Persisted' = Persisted /\ Persisted \subseteq DOMAIN sealed
    BY DEF Seal, Persisted, IInv, Untouched, Whole
  <2>2. Loaded'
    BY <2>1 DEF Seal, IInv, Loaded
  <2>3. StoreClosed'
    BY <1>1, <2>1 DEF Seal, IInv, StoreClosed
  <2>4. LineageClosed'
    BY <1>1, <1>4 DEF Seal, IInv, LineageClosed
  <2>5. QED  BY <2>2, <2>3, <2>4
<1>10. (AckedComplete /\ IndexSound)'
  <2>1. Acked' = Acked /\ Acked \subseteq DOMAIN sealed
    BY DEF Seal, Acked, IInv, Untouched
  <2>2. nodes \subseteq DOMAIN sealed
    BY DEF IInv, TypeOK, IndexSound, Untouched
  <2>3. AckedComplete'
    BY <1>1, <2>1 DEF Seal, IInv, AckedComplete
  <2>4. IndexSound'
    BY <1>1, <2>2 DEF Seal, IInv, IndexSound
  <2>5. QED  BY <2>3, <2>4
<1>11. QED  BY <1>6, <1>7, <1>8, <1>9, <1>10 DEF IInv

\* A seal refused by step 8 keeps IInv.
LEMMA SealRejectedInv ==
    ASSUME IInv, TypeOK', NEW o \in Objects, NEW p \in Proposals, SealRejected(o, p)
    PROVE  IInv'
<1> USE DEF disk, control
<1>1. o \notin DOMAIN sealed /\ reply' = [reply EXCEPT ![o] = "err"] /\ pc = "idle"
  BY DEF SealRejected, Fresh
<1>2. (InProgress /\ FilesInProgress /\ GraphInProgress /\ AtRest)'
  BY <1>1 DEF SealRejected, IInv, InProgress, FilesInProgress, GraphInProgress, AtRest,
     Running
<1>3. (Untouched /\ ArtifactFirst /\ SealedSound)'
  BY <1>1 DEF SealRejected, IInv, TypeOK, Untouched, ArtifactFirst, SealedSound, Parents,
     Timestamp
<1>4. Acked' = Acked
  BY <1>1 DEF Fresh, SealRejected, Acked, IInv, TypeOK
<1>5. (Loaded /\ StoreClosed /\ LineageClosed)'
  BY <1>4 DEF SealRejected, IInv, TypeOK, Loaded, StoreClosed, LineageClosed, Persisted, Parents,
     Acked, SealedSound, Untouched, Whole
<1>6. (AckedComplete /\ IndexSound)'
  BY <1>4 DEF SealRejected, IInv, AckedComplete, IndexSound, Parents
<1>7. QED  BY <1>2, <1>3, <1>5, <1>6 DEF IInv

(***************************************************************************)
(* The writes of the store touch only the files of the object in progress, *)
(* of which nobody was told.                                               *)
(***************************************************************************)
LEMMA WriteArtifactInv ==
    ASSUME IInv, TypeOK', WriteArtifact
    PROVE  IInv'
<1> USE DEF memory
<1>1. /\ pc = "artifact" /\ pc' = "syncArtifact" /\ cur' = cur /\ Running
      /\ artFile' = [artFile EXCEPT ![cur] = "written"]
      /\ UNCHANGED <<sealed, reply, objects, artifacts, objFile, nodes, edges, todo>>
  BY DEF WriteArtifact, At, Running
<1>2. cur \in Objects /\ cur \in DOMAIN sealed /\ objFile[cur] = "absent" /\ reply[cur] = "none"
  BY <1>1 DEF IInv, TypeOK, InProgress, FilesInProgress
<1>3. (InProgress /\ FilesInProgress /\ GraphInProgress /\ AtRest)'
  BY <1>1, <1>2 DEF IInv, InProgress, FilesInProgress, GraphInProgress, AtRest, Running, Parents
<1>4. (Untouched /\ ArtifactFirst /\ SealedSound)'
  BY <1>1, <1>2 DEF IInv, TypeOK, Untouched, ArtifactFirst, SealedSound, Parents, Timestamp
<1>5. (Loaded /\ StoreClosed /\ LineageClosed)'
  BY <1>1 DEF IInv, Loaded, StoreClosed, LineageClosed, Persisted, Parents
<1>6. (AckedComplete /\ IndexSound)'
  BY <1>1, <1>2 DEF IInv, TypeOK, AckedComplete, IndexSound, Acked, Parents
<1>7. QED  BY <1>3, <1>4, <1>5, <1>6 DEF IInv

\* SyncArtifact keeps IInv.
LEMMA SyncArtifactInv ==
    ASSUME IInv, TypeOK', SyncArtifact
    PROVE  IInv'
<1> USE DEF memory
<1>1. /\ pc = "syncArtifact" /\ pc' = "object" /\ cur' = cur /\ Running
      /\ artFile' = [artFile EXCEPT ![cur] = "synced"]
      /\ UNCHANGED <<sealed, reply, objects, artifacts, objFile, nodes, edges, todo>>
  BY DEF SyncArtifact, At, Running
<1>2. cur \in Objects /\ cur \in DOMAIN sealed /\ objFile[cur] = "absent" /\ reply[cur] = "none"
  BY <1>1 DEF IInv, TypeOK, InProgress, FilesInProgress
<1>3. (InProgress /\ FilesInProgress /\ GraphInProgress /\ AtRest)'
  BY <1>1, <1>2
     DEF IInv, TypeOK, InProgress, FilesInProgress, GraphInProgress, AtRest, Running, Parents
<1>4. (Untouched /\ ArtifactFirst /\ SealedSound)'
  BY <1>1, <1>2 DEF IInv, TypeOK, Untouched, ArtifactFirst, SealedSound, Parents, Timestamp
<1>5. (Loaded /\ StoreClosed /\ LineageClosed)'
  BY <1>1 DEF IInv, Loaded, StoreClosed, LineageClosed, Persisted, Parents
<1>6. (AckedComplete /\ IndexSound)'
  BY <1>1, <1>2 DEF IInv, TypeOK, AckedComplete, IndexSound, Acked, Parents
<1>7. QED  BY <1>3, <1>4, <1>5, <1>6 DEF IInv

\* WriteObject keeps IInv: the artifact is synced before.
LEMMA WriteObjectInv ==
    ASSUME IInv, TypeOK', WriteObject
    PROVE  IInv'
<1> USE DEF memory
<1>1. /\ pc = "object" /\ pc' = "syncObject" /\ cur' = cur /\ Running
      /\ objFile' = [objFile EXCEPT ![cur] = "written"]
      /\ UNCHANGED <<sealed, reply, objects, artifacts, artFile, nodes, edges, todo>>
  BY DEF WriteObject, At, Running
<1>2. /\ cur \in Objects /\ cur \in DOMAIN sealed /\ reply[cur] = "none"
      /\ objFile[cur] = "absent" /\ artFile[cur] = "synced"
      /\ Parents(cur) \subseteq objects
  BY <1>1 DEF IInv, TypeOK, InProgress, FilesInProgress
<1>3. Persisted' = Persisted \cup {cur}
  BY <1>1, <1>2 DEF IInv, TypeOK, Persisted, Whole
<1>4. (InProgress /\ FilesInProgress /\ GraphInProgress /\ AtRest)'
  BY <1>1, <1>2
     DEF IInv, TypeOK, InProgress, FilesInProgress, GraphInProgress, AtRest, Running, Parents
<1>5. (Untouched /\ ArtifactFirst /\ SealedSound)'
  BY <1>1, <1>2 DEF IInv, TypeOK, Untouched, ArtifactFirst, SealedSound, Parents, Timestamp
<1>6. (Loaded /\ StoreClosed /\ LineageClosed)'
  BY <1>1, <1>2, <1>3 DEF IInv, Loaded, StoreClosed, LineageClosed, Parents
<1>7. (AckedComplete /\ IndexSound)'
  BY <1>1, <1>2 DEF IInv, TypeOK, AckedComplete, IndexSound, Acked, Parents
<1>8. QED  BY <1>4, <1>5, <1>6, <1>7 DEF IInv

\* SyncObject keeps IInv: what it loads is whole, and so are its parents.
LEMMA SyncObjectInv ==
    ASSUME IInv, TypeOK', SyncObject
    PROVE  IInv'
<1>1. /\ pc = "syncObject" /\ pc' = "node" /\ cur' = cur /\ Running
      /\ objFile' = [objFile EXCEPT ![cur] = "synced"]
      /\ objects' = objects \cup {cur}
      /\ artifacts' = With(artifacts, cur, TheArtifact)
      /\ UNCHANGED <<sealed, reply, artFile, nodes, edges, todo>>
  BY DEF SyncObject, At, Running
<1>2. /\ cur \in Objects /\ cur \in DOMAIN sealed /\ reply[cur] = "none"
      /\ objFile[cur] = "written" /\ artFile[cur] = "synced"
      /\ Parents(cur) \subseteq objects
  BY <1>1 DEF IInv, TypeOK, InProgress, FilesInProgress
<1>3. Persisted' = Persisted /\ cur \in Persisted
  BY <1>1, <1>2 DEF IInv, TypeOK, Persisted, Whole
<1>4. (InProgress /\ FilesInProgress /\ GraphInProgress /\ AtRest)'
  BY <1>1, <1>2
     DEF IInv, TypeOK, InProgress, FilesInProgress, GraphInProgress, AtRest, Running, Parents
<1>5. (Untouched /\ ArtifactFirst /\ SealedSound)'
  BY <1>1, <1>2 DEF IInv, TypeOK, Untouched, ArtifactFirst, SealedSound, Parents, Timestamp
<1>6. Loaded'
  BY <1>1, <1>3 DEF IInv, Loaded, With
<1>7. (StoreClosed /\ LineageClosed)'
  BY <1>1, <1>2, <1>3 DEF IInv, StoreClosed, LineageClosed, Parents
<1>8. (AckedComplete /\ IndexSound)'
  BY <1>1, <1>2 DEF IInv, TypeOK, AckedComplete, IndexSound, Acked, Parents
<1>9. QED  BY <1>4, <1>5, <1>6, <1>7, <1>8 DEF IInv

(***************************************************************************)
(* The graph: one node, then one edge per parent.                          *)
(***************************************************************************)
LEMMA InsertNodeInv ==
    ASSUME IInv, TypeOK', InsertNode
    PROVE  IInv'
<1> USE DEF memory
<1>1. /\ pc = "node" /\ pc' = "edges" /\ cur' = cur /\ Running
      /\ nodes' = nodes \cup {cur}
      /\ UNCHANGED <<sealed, reply, objects, artifacts, objFile, artFile, edges, todo>>
  BY DEF InsertNode, At, Running
<1>2. cur \in Objects /\ objFile[cur] = "synced" /\ todo = Parents(cur)
  BY <1>1 DEF IInv, TypeOK, InProgress, FilesInProgress
<1>3. (InProgress /\ FilesInProgress /\ GraphInProgress /\ AtRest)'
  BY <1>1, <1>2 DEF IInv, InProgress, FilesInProgress, GraphInProgress, AtRest, Running, Parents
<1>4. (Untouched /\ ArtifactFirst /\ SealedSound)'
  BY <1>1 DEF IInv, Untouched, ArtifactFirst, SealedSound, Parents, Timestamp
<1>5. (Loaded /\ StoreClosed /\ LineageClosed)'
  BY <1>1 DEF IInv, Loaded, StoreClosed, LineageClosed, Persisted, Parents
<1>6. (AckedComplete /\ IndexSound)'
  BY <1>1, <1>2 DEF IInv, AckedComplete, IndexSound, Acked, Parents
<1>7. QED  BY <1>3, <1>4, <1>5, <1>6 DEF IInv

\* InsertEdge keeps IInv.
LEMMA InsertEdgeInv ==
    ASSUME IInv, TypeOK', NEW q \in Objects, InsertEdge(q)
    PROVE  IInv'
<1> USE DEF memory
<1>1. /\ pc = "edges" /\ pc' = "edges" /\ cur' = cur /\ Running
      /\ q \in todo
      /\ edges' = edges \cup {<<cur, q>>}
      /\ todo' = todo \ {q}
      /\ UNCHANGED <<sealed, reply, objects, artifacts, objFile, artFile, nodes>>
  BY DEF InsertEdge, At, Running
<1>2. cur \in Objects /\ cur \in nodes /\ todo \subseteq Parents(cur)
  BY <1>1 DEF IInv, TypeOK, GraphInProgress, InProgress
<1>3. (InProgress /\ FilesInProgress /\ GraphInProgress /\ AtRest)'
  BY <1>1, <1>2 DEF IInv, InProgress, FilesInProgress, GraphInProgress, AtRest, Running, Parents
<1>4. (Untouched /\ ArtifactFirst /\ SealedSound)'
  BY <1>1 DEF IInv, Untouched, ArtifactFirst, SealedSound, Parents, Timestamp
<1>5. (Loaded /\ StoreClosed /\ LineageClosed)'
  BY <1>1 DEF IInv, Loaded, StoreClosed, LineageClosed, Persisted, Parents
<1>6. (AckedComplete /\ IndexSound)'
  BY <1>1, <1>2 DEF IInv, AckedComplete, IndexSound, Acked, Parents
<1>7. QED  BY <1>3, <1>4, <1>5, <1>6 DEF IInv

\* With its node and all its edges in the graph, the object is complete.
LEMMA AnswerInv ==
    ASSUME IInv, TypeOK', Answer
    PROVE  IInv'
<1> USE DEF memory, disk
<1>1. /\ pc = "edges" /\ todo = {} /\ Running /\ ~ Running'
      /\ reply' = [reply EXCEPT ![cur] = "ok"] /\ todo' = {} /\ pc' = "idle"
      /\ UNCHANGED <<sealed, objects, artifacts, objFile, artFile, nodes, edges>>
  BY DEF Answer, Return, Running
<1>2. /\ cur \in Objects /\ cur \in DOMAIN sealed
      /\ objFile[cur] = "synced" /\ artFile[cur] = "synced"
      /\ cur \in nodes
      /\ \A q \in Parents(cur) : <<cur, q>> \in edges
  BY <1>1 DEF IInv, TypeOK, InProgress, FilesInProgress, GraphInProgress, ArtifactFirst
<1>3. Acked' = Acked \cup {cur}
  BY <1>1, <1>2 DEF IInv, TypeOK, Acked
<1>4. (InProgress /\ FilesInProgress /\ GraphInProgress /\ AtRest)'
  BY <1>1 DEF InProgress, FilesInProgress, GraphInProgress, AtRest
<1>5. (Untouched /\ ArtifactFirst /\ SealedSound)'
  BY <1>1, <1>2 DEF IInv, TypeOK, Untouched, ArtifactFirst, SealedSound, Parents, Timestamp
<1>6. cur \in Persisted
  BY <1>2 DEF Persisted, Whole
<1>7. (Loaded /\ StoreClosed)'
  BY <1>1, <1>2, <1>6 DEF IInv, TypeOK, Loaded, StoreClosed, Persisted, Parents, SealedSound
<1>8. LineageClosed'
  <2> SUFFICES ASSUME NEW o \in objects, NEW q \in Parents(o),
                      ~ (q \in objects), ~ ("power" \in Faults /\ reply'[q] # "ok")
               PROVE  FALSE
    BY <1>1 DEF LineageClosed, Parents
  <2>1. "power" \in Faults /\ reply[q] # "ok"
    BY DEF IInv, LineageClosed
  <2>2. q = cur
    BY <1>1, <2>1 DEF IInv, TypeOK
  <2>3. cur \in objects
    BY <1>1 DEF IInv, FilesInProgress
  <2>4. QED  BY <2>2, <2>3
<1>9. (AckedComplete /\ IndexSound)'
  BY <1>1, <1>2, <1>3 DEF IInv, AckedComplete, IndexSound, Parents
<1>10. QED  BY <1>4, <1>5, <1>7, <1>8, <1>9 DEF IInv

(***************************************************************************)
(* What every fault, a failed write, a killed process or a power cut,      *)
(* leaves of the files: what is synced stays, no object file is left       *)
(* without its artifact, and no file appears from nowhere.                 *)
(***************************************************************************)
FilesSurvive ==
    \A o \in Objects :
        /\ objFile[o] = "synced" => objFile'[o] = "synced"
        /\ artFile[o] = "synced" => artFile'[o] = "synced"
        /\ objFile'[o] # "absent" => artFile'[o] = "synced"
        /\ o \notin DOMAIN sealed => objFile'[o] = "absent" /\ artFile'[o] = "absent"

\* A write under way leaves nothing or a torn file, of its own object only.
LEMMA WriteTorn ==
    ASSUME IInv, artFile' \in LeftBy(artFile, "artifact"), objFile' \in LeftBy(objFile, "object")
    PROVE  FilesSurvive /\ Persisted' = Persisted
<1>1. CASE pc = "artifact"
  <2>1. PICK s \in {"absent", "torn"} : artFile' = [artFile EXCEPT ![cur] = s]
    BY <1>1 DEF LeftBy
  <2>2. objFile' = objFile /\ cur \in Objects /\ cur \in DOMAIN sealed
        /\ artFile[cur] = "absent" /\ objFile[cur] = "absent"
    BY <1>1 DEF LeftBy, IInv, TypeOK, InProgress, FilesInProgress, Running
  <2>3. QED
    BY <2>1, <2>2 DEF FilesSurvive, IInv, TypeOK, ArtifactFirst, Untouched, Persisted
<1>2. CASE pc = "object"
  <2>1. PICK s \in {"absent", "torn"} : objFile' = [objFile EXCEPT ![cur] = s]
    BY <1>2 DEF LeftBy
  <2>2. artFile' = artFile /\ cur \in Objects /\ cur \in DOMAIN sealed
        /\ artFile[cur] = "synced" /\ objFile[cur] = "absent"
    BY <1>2 DEF LeftBy, IInv, TypeOK, InProgress, FilesInProgress, Running
  <2>3. QED
    BY <2>1, <2>2 DEF FilesSurvive, IInv, TypeOK, ArtifactFirst, Untouched, Persisted, Whole
<1>3. CASE pc \notin {"artifact", "object"}
  BY <1>3 DEF LeftBy, FilesSurvive, IInv, TypeOK, ArtifactFirst, Untouched, Persisted
<1>4. QED  BY <1>1, <1>2, <1>3

\* A power cut leaves every synced file and no object file without its artifact.
LEMMA PowerTorn ==
    ASSUME IInv, artFile' \in Left(artFile, "artifact"), objFile' \in Left(objFile, "object")
    PROVE  FilesSurvive
<1> SUFFICES ASSUME NEW o \in Objects
             PROVE  /\ objFile[o] = "synced" => objFile'[o] = "synced"
                    /\ artFile[o] = "synced" => artFile'[o] = "synced"
                    /\ objFile'[o] # "absent" => artFile'[o] = "synced"
                    /\ o \notin DOMAIN sealed => objFile'[o] = "absent" /\ artFile'[o] = "absent"
  BY DEF FilesSurvive
<1> DEFINE artUnderWay == pc = "artifact" /\ cur = o
           objUnderWay == pc = "object" /\ cur = o
<1>1. /\ artFile'[o] \in AfterPowerLoss(artFile[o], artUnderWay)
      /\ objFile'[o] \in AfterPowerLoss(objFile[o], objUnderWay)
  BY DEF Left
<1> HIDE DEF artUnderWay, objUnderWay
<1>2. /\ objFile[o] = "synced" => objFile'[o] = "synced"
      /\ artFile[o] = "synced" => artFile'[o] = "synced"
      /\ artFile[o] = "absent" /\ ~ artUnderWay => artFile'[o] = "absent"
      /\ objFile[o] = "absent" /\ ~ objUnderWay => objFile'[o] = "absent"
  BY <1>1 DEF AfterPowerLoss, Whole
<1>3. objFile'[o] # "absent" => artFile[o] = "synced"
  <2>1. CASE objFile[o] # "absent"
    BY <2>1 DEF IInv, ArtifactFirst
  <2>2. CASE objUnderWay
    BY <2>2 DEF objUnderWay, IInv, FilesInProgress
  <2>3. QED  BY <1>2, <2>1, <2>2
<1>4. o \notin DOMAIN sealed => objFile'[o] = "absent" /\ artFile'[o] = "absent"
  <2> SUFFICES ASSUME o \notin DOMAIN sealed
               PROVE  objFile'[o] = "absent" /\ artFile'[o] = "absent"
    OBVIOUS
  <2>1. objFile[o] = "absent" /\ artFile[o] = "absent"
    BY DEF IInv, Untouched
  <2>2. ~ artUnderWay /\ ~ objUnderWay
    BY DEF artUnderWay, objUnderWay, IInv, InProgress, Running
  <2>3. QED  BY <1>2, <2>1, <2>2
<1>5. QED  BY <1>2, <1>3, <1>4

\* A failed write keeps IInv.
LEMMA IoErrorInv ==
    ASSUME IInv, TypeOK', IoError
    PROVE  IInv'
<1> USE DEF memory
<1>1. /\ Running /\ ~ Running' /\ pc' = "idle" /\ todo' = {}
      /\ reply' = [reply EXCEPT ![cur] = "err"]
      /\ UNCHANGED <<sealed, objects, artifacts, nodes, edges>>
  BY DEF IoError, Return, Running
<1>2. FilesSurvive /\ Persisted' = Persisted
  BY WriteTorn DEF IoError
<1>3. /\ cur \in Objects /\ cur \in DOMAIN sealed /\ reply[cur] = "none"
      /\ \A o \in Objects : reply'[o] = "ok" <=> reply[o] = "ok"
  BY <1>1 DEF IInv, TypeOK, InProgress
<1>4. (InProgress /\ FilesInProgress /\ GraphInProgress /\ AtRest)'
  BY <1>1 DEF InProgress, FilesInProgress, GraphInProgress, AtRest
<1>5. (Untouched /\ ArtifactFirst)'
  BY <1>1, <1>2, <1>3 DEF FilesSurvive, IInv, Untouched, ArtifactFirst
<1>6. SealedSound'
  BY <1>1 DEF IInv, SealedSound, Parents, Timestamp
<1>7. Loaded'
  BY <1>1, <1>2 DEF IInv, Loaded
<1>8. (StoreClosed /\ LineageClosed)'
  <2>1. \A o \in DOMAIN sealed : \A q \in Parents(o) : q \in Objects
    BY DEF IInv, TypeOK
  <2>2. Persisted \subseteq DOMAIN sealed /\ objects \subseteq Persisted
    BY DEF IInv, Persisted, Untouched, Whole, Loaded
  <2>3. QED
    BY <1>1, <1>2, <1>3, <2>1, <2>2 DEF IInv, StoreClosed, LineageClosed, Parents
<1>9. AckedComplete'
  BY <1>1, <1>2, <1>3 DEF FilesSurvive, IInv, AckedComplete, Acked, Parents
<1>10. IndexSound'
  BY <1>1, <1>2 DEF FilesSurvive, IInv, TypeOK, IndexSound, Parents
<1>11. QED  BY <1>4, <1>5, <1>6, <1>7, <1>8, <1>9, <1>10 DEF IInv

\* The memory is gone; what the files and the graph say is what survived.
LEMMA ForgetInv ==
    ASSUME IInv, TypeOK', Forget, FilesSurvive, StoreClosed'
    PROVE  IInv'
<1>1. /\ ~ Running' /\ pc' = "down" /\ todo' = {} /\ objects' = {}
      /\ UNCHANGED <<sealed, reply, nodes, edges>>
  BY DEF Forget, Running
<1>2. (InProgress /\ FilesInProgress /\ GraphInProgress /\ AtRest)'
  BY <1>1 DEF InProgress, FilesInProgress, GraphInProgress, AtRest
<1>3. (Untouched /\ ArtifactFirst)'
  BY <1>1 DEF FilesSurvive, IInv, Untouched, ArtifactFirst
<1>4. SealedSound'
  BY <1>1 DEF IInv, SealedSound, Parents, Timestamp
<1>5. (Loaded /\ LineageClosed)'
  BY <1>1 DEF Loaded, LineageClosed
<1>6. AckedComplete'
  BY <1>1 DEF FilesSurvive, IInv, AckedComplete, Acked, Parents
<1>7. IndexSound'
  BY <1>1 DEF FilesSurvive, IInv, TypeOK, IndexSound, Parents
<1>8. QED  BY <1>2, <1>3, <1>4, <1>5, <1>6, <1>7 DEF IInv

\* The death of the process keeps IInv.
LEMMA KillInv ==
    ASSUME IInv, TypeOK', Kill
    PROVE  IInv'
<1>1. FilesSurvive /\ Persisted' = Persisted
  BY WriteTorn DEF Kill
<1>2. StoreClosed'
  BY <1>1 DEF Kill, Forget, IInv, StoreClosed, Parents
<1>3. QED  BY <1>1, <1>2, ForgetInv DEF Kill

\* A power cut keeps IInv.
LEMMA PowerLossInv ==
    ASSUME IInv, TypeOK', PowerLoss
    PROVE  IInv'
<1>1. FilesSurvive
  BY PowerTorn DEF PowerLoss
<1>2. StoreClosed'
  <2> SUFFICES ASSUME NEW o \in Persisted', NEW q \in Parents(o), reply[q] = "ok"
               PROVE  q \in Persisted'
    BY DEF PowerLoss, Forget, StoreClosed, Parents
  <2>1. o \in DOMAIN sealed
    BY <1>1 DEF FilesSurvive, Persisted, Whole
  <2>2. q \in Objects
    BY <2>1 DEF IInv, TypeOK
  <2>3. objFile[q] = "synced"
    BY <2>2 DEF IInv, AckedComplete, Acked
  <2>4. QED  BY <1>1, <2>2, <2>3 DEF FilesSurvive, Persisted, Whole
<1>3. QED  BY <1>1, <1>2, ForgetInv DEF PowerLoss

\* A reload reads the files: every object it finds comes with its artifact.
LEMMA ReopenInv ==
    ASSUME IInv, TypeOK', Reopen
    PROVE  IInv'
<1> USE DEF disk
<1>1. /\ ~ Running /\ ~ Running' /\ pc' = "idle"
      /\ objects' = Persisted
      /\ UNCHANGED <<sealed, reply, todo, objFile, artFile, nodes, edges>>
  BY DEF Reopen, Running, Persisted
<1>2. (InProgress /\ FilesInProgress /\ GraphInProgress /\ AtRest)'
  BY <1>1 DEF IInv, InProgress, FilesInProgress, GraphInProgress, AtRest
<1>3. (Untouched /\ ArtifactFirst /\ SealedSound)'
  BY <1>1 DEF IInv, Untouched, ArtifactFirst, SealedSound, Parents, Timestamp
<1>4. Loaded'
  <2>1. \A o \in Persisted : o \in Objects /\ artFile[o] = "synced"
    BY DEF IInv, ArtifactFirst, Persisted, Whole
  <2>2. Persisted' = Persisted
    BY <1>1 DEF Persisted
  <2>3. QED  BY <1>1, <2>1, <2>2 DEF Reopen, Loaded, Whole
<1>5. (StoreClosed /\ LineageClosed)'
  BY <1>1 DEF IInv, StoreClosed, LineageClosed, Persisted, Parents
<1>6. (AckedComplete /\ IndexSound)'
  BY <1>1 DEF IInv, AckedComplete, IndexSound, Acked, Parents
<1>7. QED  BY <1>2, <1>3, <1>4, <1>5, <1>6 DEF IInv
-----------------------------------------------------------------------------
\* Every step keeps IInv.
LEMMA InvStep ==
    ASSUME IInv, [Next]_vars
    PROVE  IInv'
<1>1. TypeOK'
  BY TypeStep DEF IInv
<1>2. CASE SetClock
  BY <1>1, <1>2, QuietStep DEF SetClock, memory
<1>3. ASSUME NEW i \in Creators, NEW s, SetStatus(i, s)
      PROVE  IInv'
  BY <1>1, <1>3, QuietStep DEF SetStatus
<1>4. ASSUME NEW o \in Objects, NEW p \in Proposals, Seal(o, p) \/ SealRejected(o, p)
      PROVE  IInv'
  BY <1>1, <1>4, SealInv, SealRejectedInv
<1>5. CASE SealStep
  BY <1>1, <1>5, WriteArtifactInv, SyncArtifactInv, WriteObjectInv, SyncObjectInv,
     InsertNodeInv, InsertEdgeInv, AnswerInv DEF SealStep
<1>6. CASE IoError
  BY <1>1, <1>6, IoErrorInv
<1>7. CASE Kill \/ PowerLoss
  BY <1>1, <1>7, KillInv, PowerLossInv
<1>8. CASE Reopen
  BY <1>1, <1>8, ReopenInv
<1>9. CASE UNCHANGED vars
  BY <1>1, <1>9, QuietStep DEF vars, memory
<1>10. QED
  BY <1>2, <1>3, <1>4, <1>5, <1>6, <1>7, <1>8, <1>9 DEF Next, Suspend, Revoke

(***************************************************************************)
(* IInv holds in every reachable state, whatever fails and whenever: the   *)
(* relation between files, memory, graph and the call in progress.         *)
(***************************************************************************)
THEOREM Inductive == Spec => []IInv
BY InitInv, InvStep, PTL DEF Spec

(***************************************************************************)
(* A successful seal is complete and durable, whatever dies afterwards.    *)
(***************************************************************************)
THEOREM SealsAreDurable == Spec => []AckedComplete
<1>1. IInv => AckedComplete
  BY DEF IInv
<1>2. QED  BY <1>1, Inductive, PTL

(***************************************************************************)
(* Parents are loaded with their children.                                 *)
(***************************************************************************)
THEOREM LineageStaysClosed == Spec => []LineageClosed
<1>1. IInv => LineageClosed
  BY DEF IInv
<1>2. QED  BY <1>1, Inductive, PTL

(***************************************************************************)
(* The graph never knows more than the store.                              *)
(***************************************************************************)
THEOREM IndexNeverLeads == Spec => []IndexSound
<1>1. IInv => IndexSound
  BY DEF IInv
<1>2. QED  BY <1>1, Inductive, PTL

(***************************************************************************)
(* A child is younger than its parents, whatever the clock does.           *)
(***************************************************************************)
THEOREM LineageIsOrdered == Spec => []LineageOrdered
<1>1. IInv => LineageOrdered
  BY DEF IInv, SealedSound, LineageOrdered, Persisted, Untouched, Whole
<1>2. QED  BY <1>1, Inductive, PTL

(***************************************************************************)
(* Only the payload check reports a payload that does not match.           *)
(***************************************************************************)
LEMMA OnlyPayloadTampers ==
    ASSUME NEW in, NEW now, PayloadFailures(in) = {}
    PROVE  "PayloadHashMismatch" \notin VerifyObject(in, now)
<1> DEFINE clean(failures) == "PayloadHashMismatch" \notin failures
<1>1. clean(SignatureFailures(in)) /\ clean(CreatorFailures(in)) /\ clean(ModuleFailures(in))
  BY DEF SignatureFailures, CreatorFailures, ModuleFailures, FailIf
<1>2. clean(TimeSignatureFailures(in)) /\ clean(TimeChainFailures(in))
  BY DEF TimeSignatureFailures, TimeChainFailures, FailIf
<1>3. clean(TsaFailures(in, now))
  BY DEF TsaFailures, VerifyTokenFull
<1>4. clean(PolicyFailures(in)) /\ clean(OriginFailures(in)) /\ clean(AiFailures(in))
  BY DEF PolicyFailures, OriginFailures, AiFailures, FailIf
<1>5. clean(ImportFailures(in)) /\ clean(LineageFailures(in)) /\ clean(ProofChainFailures(in))
  BY DEF ImportFailures, LineageFailures, ProofChainFailures, FailIf
<1>6. QED  BY <1>1, <1>2, <1>3, <1>4, <1>5 DEF VerifyObject

(***************************************************************************)
(* No fault makes a loaded object read as Tampered or lose its artifact.   *)
(***************************************************************************)
THEOREM NothingReadsTampered == Spec => []NeverTampered
<1>1. IInv => NeverTampered
  <2> SUFFICES ASSUME IInv, NEW o \in objects
               PROVE  Verdict(o) \in {"Verified", "Invalid"}
    BY DEF NeverTampered
  <2> DEFINE in == Input(sealed[o], artifacts[o])
             failures == VerifyObject(in, clock)
  <2>1. /\ o \in DOMAIN artifacts /\ artifacts[o] = TheArtifact
        /\ o \in DOMAIN sealed
    BY DEF IInv, Loaded, Persisted, Untouched, Whole
  <2>2. in.object = sealed[o] /\ in.artifact = TheArtifact
    BY <2>1 DEF Input
  <2>3. /\ sealed[o].payload_hash = Payload
        /\ sealed[o].artifact_size_bytes = 1
    BY <2>1 DEF IInv, SealedSound
  <2> HIDE DEF in
  <2>4. PayloadFailures(in) = {}
    BY <2>2, <2>3 DEF PayloadFailures, FailIf, TheArtifact
  <2>5. "PayloadHashMismatch" \notin failures
    BY <2>4, OnlyPayloadTampers
  <2> HIDE DEF failures
  <2>6. FromFailures(failures) \in {"Verified", "Invalid"}
    BY <2>5 DEF FromFailures
  <2>7. Verdict(o) = FromFailures(failures)
    BY <2>1 DEF Verdict, failures, in
  <2>8. QED  BY <2>6, <2>7
<1>2. QED  BY <1>1, Inductive, PTL
-----------------------------------------------------------------------------
(***************************************************************************)
(* Refinement.  The steps that matter to the ledger are the write of the   *)
(* object file and the answer; every other step leaves it as it is.        *)
(***************************************************************************)
LEMMA LedgerUnchanged ==
    ASSUME Persisted' = Persisted, Acked' = Acked,
           \A o \in Persisted : Parents(o)' = Parents(o)
    PROVE  UNCHANGED Ledger!vars
BY DEF Ledger!vars

\* Every step of the registry is a step of the ledger or leaves it as it is.
LEMMA LedgerStep ==
    ASSUME IInv, [Next]_vars, "power" \notin Faults
    PROVE  [Ledger!Next]_(Ledger!vars)
<1>1. Persisted \subseteq DOMAIN sealed /\ Acked \subseteq DOMAIN sealed
  BY DEF IInv, Persisted, Acked, Untouched, Whole
<1>2. ASSUME UNCHANGED <<sealed, reply, objFile>>
      PROVE  UNCHANGED Ledger!vars
  BY <1>2, LedgerUnchanged DEF Persisted, Acked, Parents
<1>3. ASSUME NEW o \in Objects, NEW p \in Proposals, Seal(o, p)
      PROVE  UNCHANGED Ledger!vars
  <2>1. \A x \in Persisted : Parents(x)' = Parents(x)
    BY <1>1, <1>3, SealAssembles DEF Parents
  <2>2. Persisted' = Persisted /\ Acked' = Acked
    BY <1>3 DEF Seal, disk, Persisted, Acked
  <2>3. QED  BY <2>1, <2>2, LedgerUnchanged
<1>4. ASSUME NEW o \in Objects, NEW p \in Proposals, SealRejected(o, p)
      PROVE  UNCHANGED Ledger!vars
  <2>1. Persisted' = Persisted /\ \A x \in Persisted : Parents(x)' = Parents(x)
    BY <1>4 DEF SealRejected, disk, Persisted, Parents
  <2>2. Acked' = Acked
    BY <1>4 DEF SealRejected, Fresh, Acked, IInv, TypeOK
  <2>3. QED  BY <2>1, <2>2, LedgerUnchanged
<1>5. CASE WriteObject
  <2>1. /\ cur \in Objects /\ objFile[cur] = "absent" /\ Parents(cur) \subseteq Persisted
        /\ objFile' = [objFile EXCEPT ![cur] = "written"]
        /\ UNCHANGED <<sealed, reply>>
    BY <1>5 DEF WriteObject, At, IInv, TypeOK, InProgress, FilesInProgress, Running, Loaded
  <2>2. cur \notin Persisted /\ Persisted' = Persisted \cup {cur}
    BY <2>1 DEF IInv, TypeOK, Persisted, Whole
  <2>3. Parents(cur) \in SUBSET Objects
    BY <2>1 DEF Persisted
  <2>4. [o \in Persisted |-> Parents(o)]'
           = [x \in Persisted' |-> IF x = cur THEN Parents(cur)
                                   ELSE [o \in Persisted |-> Parents(o)][x]]
    BY <2>1, <2>2 DEF Parents
  <2>5. Acked' = Acked
    BY <2>1 DEF Acked
  <2>6. Ledger!Record(cur, Parents(cur))
    BY <2>1, <2>2, <2>4, <2>5 DEF Ledger!Record
  <2>7. QED  BY <2>1, <2>3, <2>6 DEF Ledger!Next
<1>6. CASE SyncObject
  <2>1. /\ cur \in Objects /\ objFile[cur] = "written"
        /\ objFile' = [objFile EXCEPT ![cur] = "synced"]
        /\ UNCHANGED <<sealed, reply>>
    BY <1>6 DEF SyncObject, At, IInv, TypeOK, FilesInProgress, Running
  <2>2. Persisted' = Persisted
    BY <2>1 DEF IInv, TypeOK, Persisted, Whole
  <2>3. QED  BY <2>1, <2>2, LedgerUnchanged DEF Acked, Parents
<1>7. CASE Answer
  <2>1. /\ cur \in Objects /\ objFile[cur] = "synced" /\ reply[cur] = "none"
        /\ reply' = [reply EXCEPT ![cur] = "ok"]
        /\ UNCHANGED <<sealed, objFile>>
    BY <1>7 DEF Answer, Return, disk, IInv, TypeOK, InProgress, FilesInProgress, Running
  <2>2. cur \in Persisted \ Acked /\ Acked' = Acked \cup {cur}
    BY <2>1 DEF IInv, TypeOK, Persisted, Acked, Whole
  <2>3. UNCHANGED <<Persisted, [o \in Persisted |-> Parents(o)]>>
    BY <2>1 DEF Persisted, Parents
  <2>4. Ledger!Acknowledge(cur)
    BY <2>2, <2>3 DEF Ledger!Acknowledge
  <2>5. QED  BY <2>1, <2>4 DEF Ledger!Next
<1>8. CASE IoError
  <2>1. Persisted' = Persisted
    BY <1>8, WriteTorn DEF IoError
  <2>2. cur \in Objects /\ reply[cur] = "none" /\ reply' = [reply EXCEPT ![cur] = "err"]
    BY <1>8 DEF IoError, Return, IInv, TypeOK, InProgress, Running
  <2>3. Acked' = Acked
    BY <2>2 DEF Acked, IInv, TypeOK
  <2>4. QED  BY <1>8, <2>1, <2>3, LedgerUnchanged DEF IoError, Parents
<1>9. CASE Kill
  <2>1. Persisted' = Persisted
    BY <1>9, WriteTorn DEF Kill
  <2>2. QED  BY <1>9, <2>1, LedgerUnchanged DEF Kill, Forget, Acked, Parents
<1>10. CASE PowerLoss
  BY <1>10 DEF PowerLoss
<1>11. CASE UNCHANGED vars
  BY <1>2, <1>11 DEF vars, disk
<1>12. ASSUME NEW i \in Creators, NEW s, SetStatus(i, s)
       PROVE  UNCHANGED Ledger!vars
  BY <1>2, <1>12 DEF SetStatus, disk
<1>13. CASE SetClock \/ Reopen \/ WriteArtifact \/ SyncArtifact \/ InsertNode
            \/ \E q \in Objects : InsertEdge(q)
  BY <1>2, <1>13 DEF SetClock, Reopen, WriteArtifact, SyncArtifact, InsertNode, InsertEdge, disk
<1>14. QED
  BY <1>3, <1>4, <1>5, <1>6, <1>7, <1>8, <1>9, <1>10, <1>11, <1>12, <1>13
     DEF Next, SealStep, Suspend, Revoke

(***************************************************************************)
(* Unless the machine loses power, the registry is a ledger that only      *)
(* grows, parents first, and never takes back an acknowledgement.          *)
(***************************************************************************)
THEOREM RegistryImplementsLedger ==
    ASSUME "power" \notin Faults
    PROVE  Spec => ImplementsLedger
<1>1. Init => Ledger!Init
  BY DEF Init, Ledger!Init, Persisted, Acked, Whole
<1>2. IInv /\ [Next]_vars => [Ledger!Next]_(Ledger!vars)
  BY LedgerStep
<1>3. QED  BY <1>1, <1>2, Inductive, PTL DEF Spec, ImplementsLedger, Ledger!Spec
=============================================================================
