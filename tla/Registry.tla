------------------------------ MODULE Registry ------------------------------
(***************************************************************************)
(* The sealing registry of one node: seal_native, seal_ai and seal_import  *)
(* of `registry-core` over its identity store, module registry, time       *)
(* authority, policy evaluator, object store and lineage graph, together   *)
(* with what survives the process: the files of `object-store`, the SQLite *)
(* tables of `graph-index`, and the reload of a node (load_registry).      *)
(*                                                                         *)
(* One seal call holds the registry for its whole length (&mut self, under *)
(* the mutex of `window-api`), so calls do not interleave; the clock, an   *)
(* I/O error, the death of the process and a power cut may come between    *)
(* any two of its writes.                                                  *)
(***************************************************************************)
EXTENDS Verifier, Sequences

CONSTANTS
    Objects,       \* the ids Uuid::new_v4 draws; one per seal call
    Persons,       \* creator identities of kind Personal
    Sessions,      \* creator identities of kind Session
    Modules,       \* kinds of the registered modules, one module per kind
    Classes,       \* object classes the callers ask for
    Payload,       \* digest of the artifact the callers seal
    Tokens,        \* RFC 3161 tokens a caller may attach
    MaxParents,    \* bound on the parents of one proposal
    MaxClock,      \* bound on the wall clock
    Faults         \* which of "io", "kill", "power" may happen

Creators == Persons \cup Sessions

ASSUME ConstantsAssumption ==
    /\ None \notin Objects /\ None \notin Creators /\ None \notin Tokens
    /\ Persons \cap Sessions = {}
    /\ Modules \subseteq ModuleKinds
    /\ Classes \subseteq ObjectClasses
    /\ MaxClock \in Nat
    /\ Faults \subseteq {"io", "kill", "power"}

(***************************************************************************)
(* What load_registry restores is one personal creator and one Document    *)
(* module, so that is all a node that may be restarted has.                *)
(***************************************************************************)
ASSUME RestartAssumption ==
    Faults \cap {"kill", "power"} # {} =>
        Cardinality(Persons) = 1 /\ Sessions = {} /\ Modules = {"Document"}

VARIABLES
    clock,       \* chrono::Utc::now()
    status,      \* IdentityStore: status of each creator
    chain,       \* TimeAuthority.chain
    events,      \* TimeAuthority.events
    sealed,      \* every object assembled so far, by id (the bytes insert is given)
    objects,     \* ObjectStore.objects, in memory
    artifacts,   \* ObjectStore.artifacts, in memory
    objFile,     \* store/<id>.json
    artFile,     \* artifacts/<id>
    nodes,       \* graph.db, table nodes
    edges,       \* graph.db, table edges: <<child, parent>>
    pc,          \* where the seal call in progress is; "down": no process
    cur,         \* the object that call is sealing
    todo,        \* parents whose edge it has still to insert
    reply        \* what the caller of the seal of each id was told

memory  == <<status, chain, events, objects, artifacts>>
disk    == <<objFile, artFile, nodes, edges>>
control == <<pc, cur, todo>>
vars    == <<clock, sealed, reply, memory, disk, control>>

(***************************************************************************)
(* A file is absent, torn (created, not all of it written), written (whole *)
(* in the page cache) or synced (whole on the medium).                     *)
(***************************************************************************)
FileStates == {"absent", "torn", "written", "synced"}
Whole      == {"written", "synced"}

PCs == {"idle", "artifact", "syncArtifact", "object", "syncObject", "node",
        "edges", "down"}

Clock == 0 .. MaxClock

KindOf(creator) == IF creator \in Sessions THEN "Session" ELSE "Personal"
-----------------------------------------------------------------------------
(***************************************************************************)
(* Steps 1-4 of a seal: the creator must be active and, unless it imports, *)
(* not a session identity; the module must fit the class; every parent     *)
(* must be in the store.  A proposal that fails them is refused before     *)
(* anything changed.  object_id is fresh, so it never is its own parent.   *)
(***************************************************************************)
ValidCreator(creator, class) ==
    /\ status[creator] = "Active"
    /\ ~ (KindOf(creator) = "Session" /\ class \in {"Native", "AiGenerated"})

ParentsStored(parents) == parents \subseteq objects

Admissible(p) ==
    /\ ValidCreator(p.creator, p.class)
    /\ p.module \in ExpectedKinds(p.class)
    /\ ParentsStored(p.parents)

Proposals ==
    [class : Classes, creator : Creators, module : Modules,
     parents : {ps \in SUBSET Objects : Cardinality(ps) <= MaxParents},
     tsa : Tokens \cup {None}]

\* The function f with the value v at o.
With(f, o, v) == [x \in DOMAIN f \cup {o} |-> IF x = o THEN v ELSE f[x]]

(***************************************************************************)
(* Step 6: attest_time appends an event that names the last one and        *)
(* carries its digest.  One attempt draws one event id and one object id,  *)
(* so the object id stands for both.  A token the caller attached goes     *)
(* into a copy of the event, which is signed again; the authority keeps    *)
(* the event as it was, without the token.                                 *)
(***************************************************************************)
TimeKey == "time authority"

DraftEvent(o, token) ==
    LET last == chain[Len(chain)]
    IN  [time_event_id        |-> o,
         timestamp            |-> clock,
         authority            |-> TimeKey,
         predecessor_event_id |-> IF chain = <<>> THEN None ELSE last,
         predecessor_hash     |-> IF chain = <<>> THEN None ELSE Digest(events[last]),
         payload_hash         |-> Payload,
         time_source          |-> IF token = None THEN "Local" ELSE "External",
         rfc3161_token        |-> token,
         anchored_time        |-> IF token = None THEN None ELSE token.gen_time]

SignEvent(event) == With(event, "signature", Sign(TimeKey, TimeSignPayload(event)))

AttestTime(o)      == SignEvent(DraftEvent(o, None))
Anchored(o, token) == SignEvent(DraftEvent(o, token))

(***************************************************************************)
(* Steps 5 and 7: the policy evaluator permits, the object is assembled    *)
(* and signed with the creator's key.                                      *)
(***************************************************************************)
PolicyKey == "policy evaluator"

Permit(context) ==
    LET proof == [decision |-> "Permit", policy_version |-> CURRENT_POLICY_VERSION,
                  context_hash |-> context, evaluator |-> PolicyKey]
    IN  [decision |-> "Permit", policy_version |-> CURRENT_POLICY_VERSION,
         context_hash |-> context, evaluator |-> PolicyKey,
         signature |-> Sign(PolicyKey, proof)]

SignObject(obj, key) ==
    With(obj, "object_signature", Sign(key, ObjSignPayload(obj)))

Assemble(o, p, event) ==
    SignObject(
        [object_id           |-> o,
         object_class        |-> p.class,
         payload_hash        |-> Payload,
         artifact_size_bytes |-> 1,
         parent_ids          |-> p.parents,
         origin              |-> [object_id |-> o, creator |-> p.creator,
                                  module |-> p.module, authority |-> TimeKey],
         time_event          |-> event,
         policy_proof        |-> Permit(<<o, Payload, p.creator>>),
         ai_generation       |-> IF p.class # "AiGenerated" THEN None
                                 ELSE [object_id |-> o, output_hash |-> Payload],
         import_declaration  |-> IF p.class # "SealedImport" THEN None
                                 ELSE [object_id |-> o, module |-> p.module],
         protocol            |-> "V1",
         proof_chain         |-> None],
        p.creator)

(***************************************************************************)
(* What the verifier is given for an object, in step 8 and in              *)
(* verify_object: identities and modules as they are registered now, the   *)
(* predecessor event if the authority still has it, and the parents the    *)
(* store has.                                                              *)
(***************************************************************************)
Input(obj, bytes) ==
    LET pred == obj.time_event.predecessor_event_id
    IN  [object      |-> obj,
         artifact    |-> bytes,
         creator     |-> [id |-> obj.origin.creator, key |-> obj.origin.creator,
                          kind |-> KindOf(obj.origin.creator),
                          status |-> status[obj.origin.creator]],
         module      |-> [id |-> obj.origin.module, kind |-> obj.origin.module],
         authority   |-> [id |-> TimeKey, key |-> TimeKey],
         evaluator   |-> [id |-> PolicyKey, key |-> PolicyKey],
         predecessor |-> IF pred \in DOMAIN events THEN events[pred] ELSE None,
         parents     |-> {[object_id |-> q, timestamp |-> sealed[q].time_event.timestamp] :
                             q \in obj.parent_ids \cap objects},
         tsa_roots   |-> None]

TheArtifact == [hash |-> Payload, size |-> 1]
TornArtifact == [hash |-> None, size |-> 0]

(***************************************************************************)
(* Registry::verify_object: nothing for an object that is not loaded or    *)
(* has no artifact, else the verdict of the verifier at this moment.       *)
(***************************************************************************)
Verdict(o) ==
    IF o \notin objects \/ o \notin DOMAIN artifacts THEN "None"
    ELSE FromFailures(VerifyObject(Input(sealed[o], artifacts[o]), clock))
-----------------------------------------------------------------------------
Init ==
    /\ clock \in Clock
    /\ status = [i \in Creators |-> "Active"]
    /\ chain = <<>>
    /\ events = <<>>
    /\ sealed = <<>>
    /\ objects = {}
    /\ artifacts = <<>>
    /\ objFile = [o \in Objects |-> "absent"]
    /\ artFile = [o \in Objects |-> "absent"]
    /\ nodes = {}
    /\ edges = {}
    /\ pc = "idle"
    /\ cur = None
    /\ todo = {}
    /\ reply = [o \in Objects |-> "none"]

\* The wall clock is not monotonic: it can be set to anything.
SetClock ==
    /\ clock' \in Clock \ {clock}
    /\ UNCHANGED <<sealed, reply, memory, disk, control>>

\* IdentityStore::suspend and ::revoke set the status whatever it was.
SetStatus(i, s) ==
    /\ pc = "idle"
    /\ status[i] # s
    /\ status' = [status EXCEPT ![i] = s]
    /\ UNCHANGED <<clock, sealed, reply, chain, events, objects, artifacts, disk, control>>

Suspend(i) == SetStatus(i, "Suspended")
Revoke(i)  == SetStatus(i, "Revoked")

Fresh(o) == reply[o] = "none" /\ o \notin DOMAIN sealed

\* Variant: the authority keeps only its last event.
Attest_LastOnly(o) ==
    /\ chain' = Append(chain, o)
    /\ events' = With(<<>>, o, AttestTime(o))

(***************************************************************************)
(* Steps 1-8 of a seal, which touch memory only.  The time event joins the *)
(* authority's chain before the object is verified, and stays there when   *)
(* the verification refuses the object.                                    *)
(***************************************************************************)
Attest(o) ==
    /\ chain' = Append(chain, o)
    /\ events' = With(events, o, AttestTime(o))

\* The object seal would assemble now, and whether step 8 lets it pass.  The
\* predecessor of its time event is the last one attested before it.
Proposed(o, p) == Assemble(o, p, Anchored(o, p.tsa))

PassesVerification(o, p) ==
    VerifyObject(Input(Proposed(o, p), TheArtifact), clock) = {}

Seal(o, p) ==
    /\ pc = "idle"
    /\ Fresh(o)
    /\ Admissible(p)
    /\ PassesVerification(o, p)
    /\ Attest(o)
    /\ sealed' = With(sealed, o, Proposed(o, p))
    /\ pc' = "artifact"
    /\ cur' = o
    /\ todo' = p.parents
    /\ UNCHANGED <<clock, reply, status, objects, artifacts, disk>>

SealRejected(o, p) ==
    /\ pc = "idle"
    /\ Fresh(o)
    /\ Admissible(p)
    /\ ~ PassesVerification(o, p)
    /\ Attest(o)
    /\ reply' = [reply EXCEPT ![o] = "err"]
    /\ UNCHANGED <<clock, sealed, status, objects, artifacts, disk, control>>

(***************************************************************************)
(* Step 9, ObjectStore::insert: write and sync the artifact, write and     *)
(* sync the object, then take both into memory.                            *)
(***************************************************************************)
At(step, next) == pc = step /\ pc' = next /\ cur' = cur

\* Variants: no fsync of the artifact, no fsync of the object, and a cache
\* that holds one artifact.
SyncArtifact_NoSync ==
    /\ At("syncArtifact", "object")
    /\ UNCHANGED <<clock, sealed, reply, memory, disk, todo>>

SyncObject_NoSync ==
    /\ At("syncObject", "node")
    /\ objects' = objects \cup {cur}
    /\ artifacts' = With(artifacts, cur, TheArtifact)
    /\ UNCHANGED <<clock, sealed, reply, status, chain, events, disk, todo>>

SyncObject_OneArtifact ==
    /\ At("syncObject", "node")
    /\ objFile' = [objFile EXCEPT ![cur] = "synced"]
    /\ objects' = objects \cup {cur}
    /\ artifacts' = With(<<>>, cur, TheArtifact)
    /\ UNCHANGED <<clock, sealed, reply, status, chain, events, artFile, nodes, edges, todo>>

WriteArtifact ==
    /\ At("artifact", "syncArtifact")
    /\ artFile' = [artFile EXCEPT ![cur] = "written"]
    /\ UNCHANGED <<clock, sealed, reply, memory, objFile, nodes, edges, todo>>

SyncArtifact ==
    /\ At("syncArtifact", "object")
    /\ artFile' = [artFile EXCEPT ![cur] = "synced"]
    /\ UNCHANGED <<clock, sealed, reply, memory, objFile, nodes, edges, todo>>

WriteObject ==
    /\ At("object", "syncObject")
    /\ objFile' = [objFile EXCEPT ![cur] = "written"]
    /\ UNCHANGED <<clock, sealed, reply, memory, artFile, nodes, edges, todo>>

SyncObject ==
    /\ At("syncObject", "node")
    /\ objFile' = [objFile EXCEPT ![cur] = "synced"]
    /\ objects' = objects \cup {cur}
    /\ artifacts' = With(artifacts, cur, TheArtifact)
    /\ UNCHANGED <<clock, sealed, reply, status, chain, events, artFile, nodes, edges, todo>>

(***************************************************************************)
(* Step 10, GraphIndex::insert_object: refuse a cycle, then insert the     *)
(* node and one edge at a time, each statement committed on its own.       *)
(* is_ancestor walks up from n: a is in every set that holds n and is      *)
(* closed under parents.                                                   *)
(***************************************************************************)
IsAncestor(a, n) ==
    \A S \in SUBSET Objects :
        (n \in S /\ \A e \in edges : e[1] \in S => e[2] \in S) => a \in S

InsertNode ==
    /\ At("node", "edges")
    /\ cur \notin todo
    /\ \A q \in todo : ~ IsAncestor(cur, q)
    /\ nodes' = nodes \cup {cur}
    /\ UNCHANGED <<clock, sealed, reply, memory, objFile, artFile, edges, todo>>

\* Variants: the edge loop does not advance; the call returns before it ends;
\* it does not let go of the object.
InsertEdge_Repeats(q) ==
    /\ At("edges", "edges")
    /\ q \in todo
    /\ edges' = edges \cup {<<cur, q>>}
    /\ UNCHANGED <<clock, sealed, reply, memory, objFile, artFile, nodes, todo>>

Return_KeepsObject(answer) ==
    /\ reply' = [reply EXCEPT ![cur] = answer]
    /\ pc' = "idle"
    /\ UNCHANGED <<cur, todo>>

InsertEdge(q) ==
    /\ At("edges", "edges")
    /\ q \in todo
    /\ edges' = edges \cup {<<cur, q>>}
    /\ todo' = todo \ {q}
    /\ UNCHANGED <<clock, sealed, reply, memory, objFile, artFile, nodes>>

Return(answer) ==
    /\ reply' = [reply EXCEPT ![cur] = answer]
    /\ pc' = "idle"
    /\ cur' = None
    /\ todo' = {}

Answer_Early ==
    /\ pc = "edges"
    /\ Return("ok")
    /\ UNCHANGED <<clock, sealed, memory, disk>>

Answer ==
    /\ pc = "edges"
    /\ todo = {}
    /\ Return("ok")
    /\ UNCHANGED <<clock, sealed, memory, disk>>
-----------------------------------------------------------------------------
(***************************************************************************)
(* An I/O error: the `?` returns Err and leaves behind what was done.  A   *)
(* failed write leaves no file or a torn one; a failed sync leaves the     *)
(* file written; a failed SQL statement changes nothing.                   *)
(***************************************************************************)
LeftBy(file, step) ==
    IF pc = step THEN {[file EXCEPT ![cur] = s] : s \in {"absent", "torn"}} ELSE {file}

\* Variant: a failed seal deletes its object file.
IoError_Deletes ==
    /\ "io" \in Faults
    /\ pc \notin {"idle", "down"}
    /\ ~ (pc = "edges" /\ todo = {})
    /\ objFile' = [objFile EXCEPT ![cur] = "absent"]
    /\ Return("err")
    /\ UNCHANGED <<clock, sealed, memory, artFile, nodes, edges>>

IoError ==
    /\ "io" \in Faults
    /\ pc \notin {"idle", "down"}
    /\ ~ (pc = "edges" /\ todo = {})
    /\ artFile' \in LeftBy(artFile, "artifact")
    /\ objFile' \in LeftBy(objFile, "object")
    /\ Return("err")
    /\ UNCHANGED <<clock, sealed, memory, nodes, edges>>

\* What dies with the process.
Forget ==
    /\ status' = [i \in Creators |-> "Active"]
    /\ chain' = <<>>
    /\ events' = <<>>
    /\ objects' = {}
    /\ artifacts' = <<>>
    /\ pc' = "down"
    /\ cur' = None
    /\ todo' = {}
    /\ UNCHANGED <<clock, sealed, reply, nodes, edges>>

\* The process dies; the files are as its writes left them.
Kill ==
    /\ "kill" \in Faults
    /\ pc # "down"
    /\ artFile' \in LeftBy(artFile, "artifact")
    /\ objFile' \in LeftBy(objFile, "object")
    /\ Forget

\* The power goes: of a file that is not synced anything may be left.  A
\* file whose write was under way counts as written.
AfterPowerLoss(state, underWay) ==
    {s \in {"absent", "torn", "synced"} :
        /\ state = "synced" => s = "synced"
        /\ s = "torn" => state # "absent" \/ underWay
        /\ s = "synced" => state \in Whole \/ underWay}

Left(file, step) ==
    {f \in [Objects -> FileStates] :
        \A o \in Objects : f[o] \in AfterPowerLoss(file[o], pc = step /\ cur = o)}

PowerLoss ==
    /\ "power" \in Faults
    /\ artFile' \in Left(artFile, "artifact")
    /\ objFile' \in Left(objFile, "object")
    /\ Forget

(***************************************************************************)
(* load_registry: with_path reads every object file, and gives up on one   *)
(* that does not parse; identities are active again, the time authority    *)
(* starts a new chain.  The graph is the database as it was left.          *)
(***************************************************************************)
TornObjectFile == \E o \in Objects : objFile[o] = "torn"

Reopen ==
    /\ pc = "down"
    /\ ~ TornObjectFile
    /\ pc' = "idle"
    /\ objects' = {o \in Objects : objFile[o] \in Whole}
    /\ artifacts' = [o \in {q \in objects' : artFile[q] # "absent"} |->
                        IF artFile[o] \in Whole THEN TheArtifact ELSE TornArtifact]
    /\ UNCHANGED <<clock, sealed, reply, status, chain, events, cur, todo, disk>>
-----------------------------------------------------------------------------
SealStep ==
    \/ WriteArtifact
    \/ SyncArtifact
    \/ WriteObject
    \/ SyncObject
    \/ InsertNode
    \/ \E q \in Objects : InsertEdge(q)
    \/ Answer

Next ==
    \/ SetClock
    \/ \E i \in Creators : Suspend(i) \/ Revoke(i)
    \/ \E o \in Objects, p \in Proposals : Seal(o, p) \/ SealRejected(o, p)
    \/ SealStep
    \/ IoError
    \/ Kill
    \/ PowerLoss
    \/ Reopen

Spec == Init /\ [][Next]_vars

\* A seal call holds the registry's mutex and waits for no one.
FairSpec == Spec /\ WF_vars(SealStep)
=============================================================================
