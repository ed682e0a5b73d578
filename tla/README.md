# Verification of the winstack sealing network

TLA+ models of the sealing, verification and governed-transition code of this
repository, their TLC instances, and TLAPS proofs of what matters most. Paths below
are relative to the repository's root, which the models call `src/`.

## 1. The system

A *node* seals artifacts: it turns a file into an *object* whose signatures bind the
file's digest to a creator, a module, a time event, a policy decision and the objects
it descends from. A receiver checks an object with nothing but the bundle it came in.
Beside that, *governed transitions* let a program act on files only under a grant of a
third party, and record what was done or refused.

| part | state it keeps | operations that change state |
|---|---|---|
| `crates/verifier`, one object | none | `verify_object` (pure, but reads the clock for TSA certificates) |
| `crates/verifier`, histories | local to the walk | `verify_chain` |
| `crates/registry-core` | the six stores below, in one struct under one mutex | `seal_native`, `seal_ai`, `seal_import` (10 steps each) |
| `crates/object-store` | maps of objects and artifacts; `store/<id>.json`, `artifacts/<id>` | `insert`, `with_path` (reload) |
| `crates/graph-index` | SQLite tables `nodes`, `edges` | `insert_object` |
| `crates/identity-core` | identities and their status; registered modules | `create_identity`, `suspend`, `revoke`, `register` |
| `crates/time-core` | the chain of time events, in memory only | `attest_time`, `re_sign_event` |
| `crates/policy-core` | none (an evaluator key) | `permit` |
| `crates/win-transition` | none; the host's files | `govern`, the filesystem executor, the recorder; `resolve_identity` (the identity ladder) |
| `crates/cli`, `crates/window-api`, `desktop` | `node.json`, `win-identity.json`, `trusted_keys.json` in a node directory | first runs, `set_identity`, `add_trust`, `remove_trust`, `win trust`, and every use of these files |
| the same, for sealed files | `<name>.win` beside a file or in Downloads; `v/<hash>.json` of a publish directory | `win seal`, `publish`, `verify`, `inspect`, `open`; `/seal`, `/check`, `/verify`; the desktop's double click |
| `crates/win-format` | none | `pack`, `unpack` |
| `crates/verifier-wasm` | none | `seal_file`, `recognize_win`, `recognize_bundle` in the browser |
| `crates/win-conformance` | none | test vectors |

**Interaction.** A seal calls the identity and module stores, the time authority and the
policy evaluator, assembles and signs the object, verifies it with the *same* verifier a
receiver uses, then writes it to the object store (step 9) and to the graph (step 10).
`window-api` and the desktop shell keep one registry in a process for long, under a
mutex that a handler holds for a whole seal; `win seal` loads a registry, seals and
exits, so its time chain always has one event. A node that starts again rebuilds the
object store from the files, opens the graph database as it is, makes the identities
active, and starts an **empty** time chain. Transitions share nothing with the registry but
the policy evaluator's proofs; two of them may meet on one file. The handlers of the desktop process
run concurrently, each `win` command is a process; all of them work on the files of one node
directory and none takes a lock. A sealed file travels as a container, which the browser, the server,
the command line and the desktop each read with code of their own.

**What is hard about it.**
- A seal is six durable writes (artifact, its sync, object, its sync, a node row, one row for
  each edge) without a common transaction; an error, a death or a power cut may come between any two.
- Step 6 extends the time chain before step 8 may refuse the object; the chain keeps an
  event no object carries, and one that differs from the object's when a token was attached.
- The chain is lost on restart while the objects that point into it are not.
- The wall clock is not monotonic and the lineage check compares its readings.
- A receiver's chain walk works on bundles someone else chose and ordered.
- Two governed calls may write one file, and a write that fails half way has an effect.
- The identity, trust and node files are read, changed and rewritten without a lock, and `std::fs::write` truncates first:
  what is read in between parses as nothing, which means "no identity" and "nobody trusted".
- A container may be cut, altered, swapped or given another proof on its way, and the readers must tell damage from forgery.
- Names of containers are checked and used in two steps, by concurrent processes.

**What makes each part correct.** *Registry and stores*: what was acknowledged is never lost
and is complete; what is loaded has its parents and its artifact; a verdict is lost only for a
reason; a seal ends. *Verifier*: a child is younger than its
parents; a failure is classified as tampering only when bytes changed. *Chain walk*: sound, complete
and finite whatever is supplied; a key changes only by a delegation. *Transitions*: no effect without a grant,
no refusal with an effect, the record tells what is on disk, its parts cannot be exchanged. *Node files*: nobody is
trusted whom the user did not choose, no rung is shown that is not earned, only calls that overlap and writes that fail lose an identity,
a name or a trust decision, and only first runs that overlap make two nodes. *Containers*: what was packed can be unpacked, what was not sealed never passes, what was cut
is never taken for forged or whole, the readers differ only in the label for damage, no seal destroys another's container.

`PROJECT.json` lists every hazard at its line with the properties that watch it.

## 2. The modules

```
Verifier ──┬── Registry ──┬── RegistryProps ──┬── RegistryProofs ──┐
           │              │      │ INSTANCE   │                    ├── InspectionProofs
           │              │   SealLedger      │                    │
           │              └── Inspection ─────┴── InspectionProps ─┴── MCRegistry
           ├── ChainWalk ──┬── MCChainWalk
           │               └── ChainWalkProofs
           ├── Transition ── TransitionProps ──┬── MCTransition
           │                      │ INSTANCE   └── TransitionProofs
           │                   Governance
           ├── IdentityLadder ── NodeFiles ── NodeFilesProps ──┬── MCNodeFiles
           │                                                   └── NodeFilesProofs ── NodeKeptProofs
           └── Delivery ── DeliveryProps ──┬── MCDelivery
WinFormat ─────┘                           └── DeliveryProofs ── DeliveryKeptProofs
```

**Verifier** (`verifier`, the checks of `time-core` and `policy-core`, canonical payloads of
`canon-types`, `crypto`): operators only. `VerifyObject(input, now)` is the set of failure codes
`verify_object` collects, one operator for each numbered check, and `FromFailures` the verdict;
`VerifyFromProofBundle` is what a receiver calls, with the root certificates it pins or none. A digest is
its argument and a signature a record of key and message, so hashes do not collide and signatures are
not forged; every payload operator names the fields that are hashed or signed, which is where a
forgotten field would show. An RFC 3161 token is a record of what `verify_token_full` looks at: the digest it
is over, the dates of its certificates, its root, and one `defect` for everything its DER, CMS
and RSA checks find.

**Registry** (`registry-core`, `object-store`, `graph-index`, `identity-core`, `time-core`'s chain, `cli/node.rs`):

| action | code |
|---|---|
| `Seal`, `SealRejected` | steps 1-8: memory only, so one step; the second is step 8 refusing, after the time chain grew |
| `WriteArtifact`, `SyncArtifact`, `WriteObject`, `SyncObject` | `ObjectStore::insert` |
| `InsertNode`, `InsertEdge`, `Answer` | `GraphIndex::insert_object`, then `Ok` |
| `IoError` | the `?` of whichever write is next |
| `Kill`, `PowerLoss` | the process or the machine stops, between or inside writes |
| `Reopen` | `load_registry_from_config`, `ObjectStore::with_path` |
| `Suspend`, `Revoke`, `SetClock` | `IdentityStore`; `chrono::Utc::now()` |

A file is absent, torn, written or synced. `Kill` keeps what was written; `PowerLoss` leaves of a
file that was not synced anything: nothing, a part or all. A seal is one caller's because `&mut self` and the mutex make it
so; a proposal refused in steps 1-4 changes nothing and is not a step. The object's id stands also for its
time event's id: one attempt draws one of each.

**SealLedger** is the promise without the machinery: a ledger that only grows, in which an object is recorded
once and after its parents, and acknowledgements that are never taken back. `RegistryProps` holds the properties of
the registry and maps it to the ledger: an object is on record from the moment its file is whole.

**Inspection** (`build_proof_bundle`, `export_object`, `inspect_object`): operators over the state of Registry, as both
handlers read it under the mutex. `BuildProofBundle(o)` is composed with the receiver's `VerifyFromProofBundle`, and `Inspect(o)`
works out the report's rows beside the verdict, as the handler does.

**ChainWalk** (`verify_chain`, `verify_delegation`, `create_delegation`, the fields `--from` writes): one
action for each outcome of a loop iteration. `FullHistory` says what a full history is without a walk,
as a closed acyclic set of bound versions; soundness and completeness compare the two. `intact` stands for
`verify_from_proof_bundle` on one version.

**Transition** (`win-transition` `lib.rs` and `artifact.rs`): any number of concurrent calls of `govern`. `Refuse`/`Permit`
are its checks and the executor's gates in their order, `OpenTarget`, `WriteTarget` and their failures are `fs::write`,
`Record` the recorder, `Die` the end of the process anywhere. `VerifyTransition`, `ContentIntegrity` and
`AllChecksPass` are the receiver's.

**Governance** is what these calls promise, without signatures, gates and file systems: who is allowed is settled before any call
starts, a file changes only for an allowed call that has no answer yet, and a call is answered at most once, `Refused` exactly when it
was not allowed and `Completed` only when it had its effect. `TransitionProps` maps the calls to it: allowed is what the rules say of
the request (`Allowed`, stated apart from the gates), the answer is what the sealed record says.

**IdentityLadder** (`assert_identity`, `verify_identity_assertion`, `resolve_identity` of `win-transition`): operators. An
assertion is a key, a name or none, a persistence and a signature; the first one that counts decides.

**NodeFiles** (`window-api/src/identity.rs`, `cli/src/trust.rs`, `ensure_node` and `load_registry` of `win.rs` and of the
desktop). `file[f]` is missing, empty (truncated and not yet written), garbled, or a whole document. Each call is one handler or command:

| action | code |
|---|---|
| `LoadIdentity` | `load_or_create_identity`, `Roles::persistent`: read, and make a key if there is none |
| `RereadIdentity` | the second read of `set_identity`, which puts the name in |
| `ChangeTrust` | `TrustStore::load` with `add` or `remove`, in the handlers and in `win trust` |
| `VerifyArtifact` | `resolve_identity` of a shown artifact over the list as it is read at that moment |
| `EnsureNode`, `LoadRegistry`, `WinFile`, `DesktopSeal` | the test for `node.json`, its first and second read, the keys a seal uses |
| `Truncate`, `Write`, `WriteFails` | `std::fs::write` in its two halves, and what the caller does with its result |
| `Kill` | the end of a command, or of the desktop with every handler in it |

Two variables are history and no code reads them: `promise`, what was acknowledged last, and `disturbed`, the files on which
calls overlapped or a write failed. They let `IdentityKept` and `TrustKept` say *when* the code may lose an update. `NodeKept` uses neither: it is an
action property over the places of the calls, as "a first run that was broken off" is a place a call is in.

**WinFormat** (`win-format`): `Pack`, `UnpackError` (the checks of `unpack` in their order), `BracketsBalanced`, and the parts
`unpack` returns. A container is its header fields, a sequence of one-byte tokens and the number of bytes that
are there, so a cut at any byte is `Cut(c, n)`. A token for an escape, a quote or a bracket is what the scan of the brackets tells apart.

**Delivery** (`win.rs`, `window-api`, `verifier-wasm`, `desktop/src/main.rs`; uses WinFormat and Verifier):

| action | code |
|---|---|
| `WinSeal`, `Pick`, `Create`, `Write` | `win seal`: the registry's seal, the choice of the container's name, `fs::write` in two halves |
| `Announce`, `Put` | the publication of the proof that `win seal` may add, truncated and written |
| `IoError`, `Kill` | a write that fails, a process that dies, with nothing or a part written |
| `SealFile`, `SealUpload` | `seal_file` in the browser; `/seal`, which also writes to Downloads |
| `Alter`, `EditProof` | the transport: not code, every change of one part of a container or of the text of its proof |
| `WinOpen`, `DesktopOpen` | extraction after the verdict, with and without `--force` |
| `Publish` | `win publish` of a container |

`CheckBundle` (`/check`), `VerifyUpload` (`/verify`), `RecognizeWin` and `RecognizeBundle` (browser), `WinVerify`, `WinInspect` and
`OpenStatus` (command line, desktop) are the readers, each translated from its own code. The object inside a container is
a native one with a genesis event and no parents, as `seal_file` makes it; what `win seal` and `/seal` add to it, predecessors, tokens and
lineage, is the subject of Registry and ChainWalk.

A definition `X_Variant` (for example `SyncArtifact_NoSync`) is `X` with a plausible bug. No
specification uses it; putting it in place of `X` must break the property `PROJECT.json` names with it,
which shows that the property can fail.

## 3. The runs

| run | instance | what it shows |
|---|---|---|
| `registry` | 2 objects, 1 creator, clock 0..1, I/O errors and deaths | types, lineage, verdicts; refinement of the ledger; seals end |
| `registry_power` | the same and power cuts | durability, lineage and index when unsynced data may vanish; the inspection report, of objects that lost their parent too |
| `registry_creators` | 3 classes, a personal and a session creator, 2 modules, 2 tokens, clock 0..2, no faults | verdicts in one process while seals fail, tokens expire, identities change; the receiver's verdict from the bundle, 2 roots |
| `chain_walk` | 3 ids, 2 keys, 2 lineages, good, forged and foreign delegations, up to 2 links | sound, complete, finite; keys handed over |
| `transition` | 2 calls on one file: any of the combinations of request, grant and policy, and an honest one | effects, refusals, records, binding; refinement of Governance |
| `node_files` | any 3 calls on one node directory, 1 friend, 1 name, 3 artifacts, I/O errors and deaths | trust, the ladder, what only overlapping calls may lose; one node |
| `delivery` | 2 `win seal` processes, 2 proofs, one longer, 2 contents, a name with a directory and one over the cap, one change on the way | readers, damage, names, extraction, publication |
| `registry_err`, `registry_restart`, `chain_walk_lineage`, `transition_effect`, `transition_refusal` | as above | each finds a statement of the repository violated, see section 6 |

**Bounds.** Two objects are a parent and a child, or a refused object and its successor in the time
chain; with a third nothing meets that two do not already make meet, as `Untouched`, the part of the inductive
invariant on objects other than the one in progress, treats them independently, and the theorems hold for any number. Two clock values give
equal, increasing and decreasing readings; a token that expires needs a third in `registry_creators`. One parent
is the bound of TLC's runs only; edges of several parents are in the proofs. A walk of three
versions has a first, a middle and a last one, room for a duplicate id, a cycle through or beside the head, a
key that changes and changes back. Two calls on one file make all interleavings of two writers. Three calls on the
node's files make two writers and a reader, or a call that finds what two others left; the two friends one could add are independent
entries of the list, and the trust theorems hold for any number. Calls are interchangeable until they are asked something, so
`node_files` and `delivery` use symmetry in them; neither has a liveness property. In `delivery` the cap of names is 2 instead of 4096:
a base at the cap, one above it and a directory on top of it are the cases there are. `MaxChanges` bounds what the transport
does to one container; a change replaces a whole part, so a second one repeats or undoes the first, except that it may edit a proof and then
swap the file, which `EditProof` does in one change.

**Fairness.** `WF(SealStep)`: a seal runs in its caller's thread, under the mutex, and waits for nobody. Nothing makes a node that is down
start again. `WF(Next)` for the walk: it is one loop in the receiver's thread. Transitions, node files and delivery have no liveness property and no fairness: each
call is a bounded sequence of steps that waits for nothing.
`CHECK_DEADLOCK FALSE` is set where the model really stops: a walk that ended, calls that are done.

**What the runs mean.**
- `AckedComplete`: `Ok` is not returned before the artifact, the object, the node and all edges are durable.
- `NeverTampered`: `with_path` never pairs an object with no artifact or a torn one. This rests on the artifact being synced before the object file exists.
- `LineageClosed`, `LineageOrdered`, `IndexSound`: the lineage of the store is closed and strictly ordered, and the graph, which is not in a transaction with it, only ever lags behind it.
- `SealedHereVerifies`, `VerdictStable`: in the process that sealed it, an object verifies as long as its credentials do, whatever is sealed, refused or fails after it. In particular an event of a refused object in the chain, and a token that is in the object's copy of an event but not in the chain's, harm no one.
- `BundleAgrees`: the receiver's verdict, from the bundle alone, is the node's; pinned roots only ever take away, and only from objects whose time was stamped elsewhere.
- `InspectionHonest`: the rows of hash, signatures, creator, policy and lineage are bad exactly when the verifier's check of the same thing fails, although they are computed a second time. The row of the time chain is weaker: `GENESIS` excludes a failure of the chain, `LINKED` does not, and the third label, `PREDECESSOR_MISSING`, is never shown. The number of children comes from the graph: it misses no child that was acknowledged and counts none the store lacks. Artifacts, signatures and permits of a node's own objects are always good; what the runs vary is the creator's status, the time chain after a restart and parents lost in a power cut.
- `ImplementsLedger`: errors, deaths and reloads never take an object or an acknowledgement back. The property excludes power loss: an unsynced object that was never acknowledged may then vanish, and `LineageClosed` says what may go with it.
- `SealEnds`: no seal hangs. Whether a node opens again is not a property: a torn object file keeps the whole node from opening (section 6), which is the guard of `Reopen`.
- `FullIsSound`, `BrokenIsReal`, `KeysHandedOver`, `ExtendsAccepted`, `WalkEnds`: the walk accepts exactly full histories, for every supply. A history counts as full when a changed key was handed over by the record `create_delegation` makes for the two keys and the lineage.
- `EffectsAreAllowed`, `RefusalsAreClean`, `ResultIsOnDisk`: what a call does and what its record says agree, up to the finding on failed writes. Where several calls wrote one target and all completed, a record may be stale, but the target holds what one of them says, or a mixture of two.
- `ImplementsGovernance`: the same step by step. Two writers may mix their bytes and a process may die with the file half written, but the file changes only on behalf of an allowed call that has not been recorded, and a record of `Completed` is of a call that touched its file.
- `RecordVerifies`, `ContentIsBound`, `NoTransplant`: the receiver's check accepts a record exactly when its grant is authentic and its request has the subject of its action (whom the grant is about plays no part), accepts only the sealed content beside a Completed record and any content beside a Failed or Refused one, and accepts no field of another record.
- `TrustIsChosen`, `RungIsEarned`: the races lose trust, they never make any. A half-written list trusts nobody, and an assertion of another key never speaks for this one.
- `IdentityKept`, `TrustKept`: outside of overlaps and failed writes the files keep what was acknowledged. The model reaches the states in which each is lost otherwise; the code has no lock against them, and no document promises one, so these properties say nothing of a race itself.
- `NodeKept`: a run makes keys of its own only while every other that did so has not opened `node.json` yet or was broken off, and never where an object was sealed. Unless two runs made keys, every seal is under the stored keys, and a run is refused only by its own write, while the first run writes, or after that one was broken off: the file it leaves then no later run can load, and the code neither repairs nor replaces it.
- `OnlySealedVerifies`: whatever a transport edits, a race writes over or a failure cuts short, what is called Verified or extracted without `--force`, and what verifies beside a proof on the public site, was sealed.
- `SurfacesAgree`: `/check`, the browser and `win verify` give one verdict of four for every container; `win inspect` and `win open` give one of three, `Invalid` where the others say `Damaged` and otherwise the same; `/verify` gives it for file and proof apart. Section 6 has what the documents say of these labels.
- `TruncatedIsDamaged`, `DeliveredVerifies`, `ContainersKept`, `PublishedResolves`: what is cut, and what fails or dies, is Damaged to `/check`, the browser and `win verify` and Invalid to `win inspect` and `win open`, never Tampered; what was answered with success arrives, if the name fits the cap and no other `win seal` chose the same path meanwhile; of the containers it found, `win seal` replaces only one under its content's short hash; an announced share URL verifies unless a publication of that content failed, met another or was of an edited proof.

## 4. What is proved

The theorems hold for all values of the constants that satisfy the named assumptions: any number of
objects, creators, parents, bundles, links, calls, friends, names, contents; any clock; any set of faults.

| module | theorem | states |
|---|---|---|
| `RegistryProofs` | `TypeCorrect` | `[]TypeOK` |
| | `Inductive` | `[]IInv`, on which the rest stands |
| | `SealsAreDurable` | `[]AckedComplete` |
| | `LineageStaysClosed` | `[]LineageClosed` |
| | `IndexNeverLeads` | `[]IndexSound` |
| | `LineageIsOrdered` | `[]LineageOrdered` |
| | `NothingReadsTampered` | `[]NeverTampered` |
| | `RegistryImplementsLedger` | the registry without power loss implements `SealLedger` |
| `InspectionProofs` | `VerdictsInductive` | `[]VInv`, on which the rest stands |
| | `SealedHereHolds`, `VerdictsAreStable` | `[]SealedHereVerifies`, `VerdictStable` (an action property) |
| | `VerdictTravels`, `ReportsAreHonest` | `[]BundleAgrees`, `[]InspectionHonest` |
| `ChainWalkProofs` | `WalkInductive`, `WalkTypes` | `[]IInv`, `[]TypeOK` |
| | `HistoryIsSound`, `KeysAreHandedOver` | `[]FullIsSound`, `[]KeysHandedOver` |
| | `WalkComplete` | `[]CInv`, on which the next two stand |
| | `BrokenHistoriesAreReal`, `ExtensionsAreAccepted` | `[]BrokenIsReal`, `[]ExtendsAccepted` |
| `TransitionProofs` | `TransitionInductive`, `OnlyAllowedEffects`, `RefusalsProveNoEffect` | `[]IInv`, `[]EffectsAreAllowed`, `[]RefusalsAreClean` |
| | `RecordsInductive`, `TransitionTypes` | `[]RInv`, `[]TypeOK` |
| | `ResultsAreOnDisk`, `RecordsVerify`, `ContentsAreBound`, `PartsAreNotExchanged` | `[]ResultIsOnDisk`, `[]RecordVerifies`, `[]ContentIsBound`, `[]NoTransplant` |
| | `CompletedIsEarned`, `TransitionImplementsGovernance` | `[]GInv`; the calls implement `Governance` |
| `NodeFilesProofs` | `NodeFilesTypes` | `[]TypeOK` |
| | `TrustInductive`, `TrustChosen`, `RungsEarned` | `[]TInv`, `[]TrustIsChosen`, `[]RungIsEarned` |
| `NodeKeptProofs` | `NodesAreKept` | `NodeKept` (an action property) |
| | `TrustIsKept`, `IdentityIsKept` | `[]TrustKept`, `[]IdentityKept` |
| `DeliveryProofs` | `AllSurfacesAgree`, `OnlySealedPasses` | `[]SurfacesAgree`, `[]OnlySealedVerifies` |
| | `PackUnpack`, `CutIsDamaged` | of every name, file and proof text: unpacking returns what was packed; a container cut anywhere reads as Damaged, to `win inspect` and `win open` as Invalid |
| `DeliveryKeptProofs` | `DeliveryTypes`, `ContainersAreKept` | `[]TypeOK`, `ContainersKept` (an action property) |
| | `DamageIsSeen`, `SealedIsReceived`, `SharesResolve` | `[]TruncatedIsDamaged`, `[]DeliveredVerifies`, `[]PublishedResolves` |

**Assumptions on constants.** `ConstantsAssumption`, `RestartAssumption` (Registry): the sets are disjoint where the code's
types differ, and a node that may be restarted has what the loader restores, one personal creator and one Document module. `BundlesAssumption` (ChainWalk): ids and links are what the parser yields.
`TargetsAssumption`, `NoneAssumption`, `PolicyKeyAssumption` (Transition): requests name targets of the host; `None` stands for the absent
value only; a policy proof that verifies does so under a key. `NodeFilesAssumption`, `TasksAssumption` (NodeFiles): the same of `None`, which is no node document either; what an artifact carries is a
sequence. `RootsAssumption` (InspectionProps): no root and no set of roots is `None`. `DeliveryAssumption`, `NameCapAssumption`, `DataAssumption`, `PathsAssumption`
(Delivery): names have lengths, files are sequences, the token of an id is no quote, escape or bracket, and `None` is no container and no path. TLC evaluates every one of them in the runs.

**Registry.** `AckedComplete` is not inductive: the step that acknowledges has to know what the
steps before it made durable. `IInv` adds a description of the call in progress (`InProgress`: by its
place in the pipeline, which files are written or synced and which edges are left), that an id not yet sealed has no
trace anywhere (`Untouched`), that no object file exists before its artifact is synced
(`ArtifactFirst`), what a reload or an insert puts in memory (`Loaded`), that every sealed object has admissible parents with
earlier timestamps and the right payload digest (`SealedSound`), and that parents of
persisted objects are persisted (`StoreClosed`). `SealedSound` is the link to the verifier: an object is
assembled only if `VerifyObject` returned no failure, and from the empty failure set the lemma
`PassedLineage` draws that its parents were given and older. One lemma per action
preserves `IInv`. `NothingReadsTampered` adds that only the payload check can yield a
tampering code on an object of the node. `RegistryImplementsLedger` maps every step: `WriteObject` to `Record`, `Answer`
to `Acknowledge`, and the rest, faults and reloads among them, to a stutter.

**Inspection.** That an object verifies is a statement about the state it is verified in: the event it is chained to and its parents must
be there and be what they were. `VInv` adds to `IInv` that everything this process attested passed its verification at some reading of the clock, with
the events and parents the registry has *now* (`Certified`), so each step has to show that it takes neither away: a seal only adds an event and
only puts one in place that nothing is chained to yet, a refused seal leaves an event whose digest the next object carries, and a process that ends forgets all events at
once, which is why the statement is of the objects it attested itself. `OnlyTokensExpire` says that of all the checks only the
dates of a token read the clock. The other parts are what a bundle and a report repeat: the fields of a sealed object (`SealedShape`), and that the
graph names only loaded objects while the node is up (`IndexLoaded`). `VerdictTravels` then compares what the bundle hands the verifier with what the registry hands
it, and `ReportsAreHonest` the rows of the report with the checks they stand for, one by one (`OneCheckEach`, `RowsFollowChecks`: each code is pushed by one check); the number of children is compared as a cardinality, which
needs that only finitely many objects were sealed.

**ChainWalk.** The invariant `Walk` says that the versions passed are bound link by link and do not
point back, that `depth` counts them and that each of their keys was handed over. Acyclicity of a
set that grows by one is a statement about all its parts, which `FollowUnderway` proves by a case
split on whether a part holds the new version. Completeness goes the other way: `CInv` adds `Met`, that every full history of the
head holds all versions met so far. `BoundHasNoFault` and `NoFaultBinds` tie the walk's checks of a link to `Bound`, so a step that finds a
fault finds one no history can be without, and a step that follows a link keeps `Met`.

**Transition.** `PermitIsAllowed` says that the checks and gates in their order imply `Allowed`, and back;
the invariant carries that along `pc` (`Shape`) to the effect and to the record. `RInv` adds that an outcome is one of those `settle` can
return for the request (`Outcomes`), that a record is what the recorder makes of it, and (`OnDisk`) that the target of a call nobody else
touched holds what the call did last. What a record says is then a fact about `Seal`, `Receipt` and `Refusal`: the recorder signs every field, so a
record with one field exchanged verifies only if the field was equal. The refinement maps `OpenTarget`, `WriteTarget`, `WriteFails` and a
death in the middle of a write to `Affect`, `Record` to `Answer`, and the rest to a stutter; it needs `GInv`, that a receipt that says Completed is of a
call that touched its file, because when the record is sealed the receipt is what is left of the write. `MInv` adds for the targets several calls wrote (`Explained`) that once all
of them have written what they had to, one's content is there, or a mixture if there were two: the step that writes last decides.

**NodeFiles.** `Types` is inductive and says of each call, by its place, what it holds. `TrustIsChosen` is about the list that is stored and every
list about to be stored, as a writer that read before another's change stores its own later; that makes `TInv` inductive. A race
can replace one good list by another or by nothing, and the empty list is good. `RungIsEarned` is a fact about `resolve_identity`
(lemma `LadderEarned`) at the step that verifies; afterwards `Chosen` only grows.

That identity and trust are kept is a statement about undisturbed files, so `TrustInv` and `IdentityInv` begin with
`Calm(f) =>` and say of every call on the file what it has read and is about to write: of a call that has the file open, that it is the
only one (`OneSaver`, `Alone`); of one that has read it, that what it read is still there. A step that would falsify this
(a read while another has the file open, a truncation while another has read it, a write that fails, a death in the middle) puts the file into
`disturbed`, and a death anywhere else takes nothing from the others. `NodeInv` has no such condition: it says of each run by its place what it holds
(`NodeCall`), that a whole node.json is that of a run that drew keys, and, if one run at most drew some, that node.json is missing or empty as that run's place
says and torn only while it writes or after it was broken off (`OneNode`). The proofs have one lemma for steps on other files, one for deaths, one for reads and one
for writes.

**Delivery.** `SurfacesAgree` is about any container; the proof is a case split on the error of
`unpack`, the parse and the digests. `OnlySealedPasses`: from an empty failure set the lemmas draw that the claimed digest is the file's and that the
object's signature is over the payload that was sealed, so the claimed and the sealed file are the same, in a container as on the site; `ReceivedInv` keeps that for
what has been extracted. `PackUnpack` and `CutIsDamaged` hold for files and proofs of any length over texts whose brackets
balance and of which no beginning does. That the texts of the code's proofs are such (`TextBalances`) is a statement about the scan, a recursive function: `ScanExists`
shows by the least position at which it would fail that the function is defined, and its value is then computed token by token. `DInv` says of each `win seal`, by its place, that the containers it found are still
there, since nothing in the code removes one, and that the path it picked was free when it began or is its content's own; `ContainersKept` is then a fact about the
step that truncates. The types need that two writers of one file leave a container (`OverGood`) and that every change of the transport does (`AlteredComplete`).

`KInv` adds to that what the delivery theorems need: every proof a call carries was sealed over the file it carries (`SealedCalls`); every container beside a file is at the
path of some call, and while a call is alone at its path, what it finds there is, by its place, nothing, its own empty file or its own container (`OwnPaths`, `Owned`,
`OwnContainers`); a container nobody changed on its way is one that was packed of a sealed file and its proof (`HandedOver`); and of every content whose
publication is not spoiled (`spoiled`, a history of the failures and meetings), the site shows an empty file while its one writer writes, and the text of a proof of
that content once it was announced (`SiteInv`). `GenuineVerifies` is the bridge to the verifier: the object that is made for a file has no failures beside that file.
`WholeOverBlank` and `PartIsDamaged` say what a write over an empty file leaves when it ends and when it stops short.

**Only model-checked.** `SealEnds` and `WalkEnds`: liveness under fairness, for which the prover has no rules (`ENABLED`). Every invariant, action
property and refinement the passing runs check is also a theorem. No module uses `RECURSIVE`, for which the prover has no backend: ancestry in the graph is said with closed
sets, and the one recursive computation that matters, the scan of the brackets, is a recursive function. The induction theorems of
the library take an operator as a parameter, which the provers cannot instantiate; where an induction over data was needed it is done by the least element of a set
of counterexamples (`LeastOne`).

## 5. Assumptions

- `fsync` of a file makes its content and its directory entry durable. (The code never syncs the directory.)
- SQLite commits are atomic and durable; the connection runs each statement in its own transaction.
- Hashes do not collide, the eight hex digits in a container's name among them; signatures are not forged, `Uuid::new_v4` never repeats.
- A torn object file does not parse; a file that is torn stays so until the same id would be written again, which never happens.
- In Registry, the object files of a node are changed by one process at a time, and by nothing but the node. (NodeFiles has several processes, on the files of keys and trust.)
- A small file is read in one piece: a reader sees it before the truncation, between truncation and write, or after.
- A transport changes containers; it has no private keys.

## 6. Where code and documents disagree

Each has a run with a counterexample; `PROJECT.json` quotes the lines.

1. `registry_err`: step 10 may fail after step 9 succeeded. The caller is told `Err`, but the object stays stored and comes back on every reload. The comments call step 9 atomic and step 10 the commit signal.
2. `registry_restart`: the time chain starts empty on a reload, so an object with a predecessor event becomes `Invalid` (`TimePredecessorMissing`) on its own node, and so do bundles made from then on. The architecture document says that what is persisted verifies. `win seal` does not meet it, as it loads a registry per file; `window-api` and the desktop shell do.
3. `chain_walk_lineage`: a history over two lineages is `FullHistoryVerified`; the proof specification says there is no cross-chain linking.
4. `transition_effect`: a write that fails after it truncated the file is recorded with `side_effect_occurred = false`.
5. `transition_refusal`: the refusal for a grant that is not authentic does not verify, since the verifier demands an authentic grant of every record.

Seen while modelling, without a run:

- The verdict on one input changes when the certificates of its token expire; `docs/architecture.md:55-57` says the verifier has no clock side effects.
- After a restart `inspect_object` still shows such an object's time chain as `LINKED`, beside the failure `TimePredecessorMissing`.
- `spec/grammar.md:43` and `:87-92` fix three states and "No fourth. Ever.", in which a malformed container is Invalid, and `docs/adr/0002-three-state-grammar.md:25` locks them; `docs/THREAT_MODEL.md:25` and `docs/VERIFICATION_RESULTS.md:44` have a Damaged class kept apart. The code does both: `/check`, the browser and `win verify` say Damaged, `win inspect`, `open` and `publish` say Invalid (`win.rs:895`, `:984`, `:1057`). `SurfacesAgree` and `TruncatedIsDamaged` state it as the code has it. A transition artifact is judged by its own verifier in `win verify` and is `Invalid` for `/check`, although the comment at `window-api/src/lib.rs:1125-1126` says that all surfaces agree.
- `CHANGELOG.md:44-46` says a container is suffixed with its short hash "to avoid silent overwrites". The name is tested and used in two steps, so two `win seal`s at a time still overwrite each other silently, and so does sealing a content again whose suffixed container is there.
- A torn object file keeps `with_path`, and so the whole node, from opening; nothing skips or repairs it.
- The name in a container is covered by no signature. `win open` and the desktop write the file under that name over one that is there; `/seal` overwrites `Downloads/<name>.win`.
- `pack` accepts an empty name and one of more than 4096 bytes; `unpack` refuses both.
- `win publish` publishes a proof without verifying it, and two publications of one content at a time may leave bytes of the longer behind the shorter.
- `win summarize --as` is documented (`win.rs:79-81`) as persisted after first use; id and secret are stored, the name is not. `window-api/src/identity.rs:12` says the app and a co-located command line share one identity; their default directories differ on macOS and Windows.
- `parent_proofs` of a bundle (`registry-core/src/lib.rs:714`) is read by no receiver.
- `docs/VERIFICATION_RESULTS.md:30` says the policy row passes if a permit was checked, while `artifact.rs:311` sets it whenever a policy proof is attached.
- A wrong `artifact_size_bytes` is reported with the code of a wrong hash (`verifier/src/lib.rs:46-56`), so it reads as `Tampered`, where `spec/PROOF-SPEC.md:152` has a code of its own.

## 7. Not modelled

Bytes and encodings (canonical JSON, hex, DER, CMS, RSA, multipart, invalid UTF-8 and a corrupted length of a container's name), HTTP routing and the
session token, printing and wording, the clipboard, the TSA request, the audit log (nothing reads it), file modes and their repair.
`create_identity` and module registration while a node runs: the sets are fixed for a run. Of `window-api` the sidecar file of `prove_upload`,
`save_and_open`, and the lists and counts of objects; of the command line the companion files of `summarize`. Of `win-transition` the perception helpers, and the
rendered matrix of an artifact. Two processes that seal into one object store: their object files have distinct names, so only a reload beside a seal is open. `win-conformance`
generates and runs test vectors.

## 8. Plan

Done: all modules of section 2, their runs and the theorems of section 4. What is left, by what it would add:

1. A second process on the object store in Registry: a reload beside a seal of another process.
2. `prove_upload` and `save_and_open`, as further writers in Delivery.
