------------------------------ MODULE Delivery ------------------------------
(***************************************************************************)
(* A sealed file on its way: `win seal` and `win publish` of the command   *)
(* line, the server's /seal and the browser's seal_file make containers;   *)
(* the transport may alter them; the command line, the server's /check and *)
(* /verify, the browser verifier and the desktop read them, and `win open` *)
(* and the desktop extract the file.                                       *)
(*                                                                         *)
(* A `win seal` is a process of its own: two of them run at the same time, *)
(* each of their file writes truncates first and writes afterwards, and    *)
(* either may fail or die between.  The other operations are one step.     *)
(*                                                                         *)
(* Data.  A file's content is a sequence of tokens and its own digest.  A  *)
(* proof is a JSON text that carries the id of an entry of `proofs`: which *)
(* content was sealed and which one the text claims now (they differ only  *)
(* if someone edited the text).  Time tokens, lineage and version history  *)
(* are left to modules Registry and ChainWalk.                             *)
(***************************************************************************)
EXTENDS Verifier, WinFormat

CONSTANTS
    Ids,         \* the seals and the edited proofs, each once
    Longer,      \* those whose proof text is longer: fields vary in width
    Calls,       \* the `win seal` processes
    Contents,    \* contents of the files
    Names,       \* names of the files, as the callers give them
    FileNames,   \* those `win seal` finds in its directory
    MaxChanges,  \* bound on what the transport does to one container
    Faults       \* which of "io", "kill" may happen

ASSUME DeliveryAssumption ==
    /\ None \notin Ids /\ None \notin Contents /\ None \notin Names
    /\ Ids \cap ({Quote, Escape} \cup Opening \cup Closing) = {}
    /\ Longer \subseteq Ids
    /\ FileNames \subseteq Names
    /\ MaxChanges \in Nat
    /\ Faults \subseteq {"io", "kill"}

\* The tokens of files and of proof texts.
Bytes ==
    {"{", "}", Quote, Escape, "0"} \cup Ids
    \cup UNION {{f[i] : i \in DOMAIN f} : f \in Contents}

ASSUME DataAssumption ==
    /\ \A n \in Names : n \in [dir_len : Nat, len : Nat, nul : BOOLEAN, base : {n.base}]
    /\ \A f \in Contents : f \in Seq({f[i] : i \in DOMAIN f})
    /\ None \notin [magic : BOOLEAN, name : {Sanitize(n) : n \in Names}, file_len : Nat,
                   tail : Seq(Bytes), have : Nat]

VARIABLES
    proofs,      \* the proofs there are: [sealed, claims] by id
    wins,        \* the containers on the sender's disk, by path
    calls,       \* the `win seal` processes
    site,        \* v/<hash>.json of the publish directory
    spoiled,     \* hashes whose published proof a fault, a second writer at
                 \* the same time or an edited proof touched
    parcel,      \* the container a receiver is given, and what was done to it
    received     \* the file the receiver has extracted from it

vars == <<proofs, wins, calls, site, spoiled, parcel, received>>

(***************************************************************************)
(* <name>.win or <name>-<short hash>.win beside the file, and <name>.win   *)
(* in Downloads.  No two contents share a short hash.                      *)
(***************************************************************************)
Plain     == <<"plain">>
Downloads == <<"Downloads">>
Short(f)  == <<"short", f>>

Suffixes == {Plain, Downloads} \cup {Short(f) : f \in Contents}

Paths == Names \X Suffixes

ASSUME PathsAssumption == None \notin Paths

PCs == {"idle", "pick", "create", "write", "publish", "put", "done", "failed"}
-----------------------------------------------------------------------------
(***************************************************************************)
(* What seal_file_inner assembles, and the registry behind `win seal` and  *)
(* /seal likewise: a native object without parents, a local genesis event, *)
(* a policy proof, and the identities and module they name.                *)
(***************************************************************************)
Creator   == "creator"
Authority == "time authority"
Evaluator == "policy evaluator"

\* The record r with the value v in the field f.
With(r, f, v) == [x \in DOMAIN r \cup {f} |-> IF x = f THEN v ELSE r[x]]

Genesis(id, file) ==
    LET event == [time_event_id |-> id, timestamp |-> 0, authority |-> Authority,
                  predecessor_event_id |-> None, predecessor_hash |-> None,
                  payload_hash |-> file, time_source |-> "Local",
                  rfc3161_token |-> None, anchored_time |-> None]
    IN  With(event, "signature", Sign(Authority, TimeSignPayload(event)))

Permission(id, file) ==
    LET proof == [decision |-> "Permit", policy_version |-> CURRENT_POLICY_VERSION,
                  context_hash |-> <<id, file>>, evaluator |-> Evaluator]
    IN  With(proof, "signature", Sign(Evaluator, PolicySignPayload(proof)))

SealedObject(id, file) ==
    LET obj == [object_id |-> id, object_class |-> "Native", payload_hash |-> file,
                artifact_size_bytes |-> Len(file), parent_ids |-> {},
                origin |-> [object_id |-> id, creator |-> Creator, module |-> "Document",
                            authority |-> Authority],
                time_event |-> Genesis(id, file), policy_proof |-> Permission(id, file),
                ai_generation |-> None, import_declaration |-> None,
                protocol |-> "V1", proof_chain |-> None]
    IN  With(obj, "object_signature", Sign(Creator, ObjSignPayload(obj)))

SealedBundle(id, file) ==
    [object                    |-> SealedObject(id, file),
     creator_identity          |-> [id |-> Creator, key |-> Creator, kind |-> "Personal",
                                    status |-> "Active"],
     module_registration       |-> [id |-> "Document", kind |-> "Document"],
     time_authority_identity   |-> [id |-> Authority, key |-> Authority],
     policy_evaluator_identity |-> [id |-> Evaluator, key |-> Evaluator],
     predecessor_time_event    |-> None,
     parent_objects            |-> {}]

\* The bundle the text of a proof spells: an edited one claims another file.
Bundle(id) ==
    [SealedBundle(id, proofs[id].sealed) EXCEPT
        !.object.payload_hash        = proofs[id].claims,
        !.object.artifact_size_bytes = Len(proofs[id].claims)]

\* The JSON text: an object with a string that holds an escaped quote and a
\* bracket, and the id.
Text(id) ==
    <<"{", Quote, Escape, Quote, "}", Quote, id>>
    \o (IF id \in Longer THEN <<"0">> ELSE <<>>) \o <<"}">>

\* serde_json: the proof a text spells, if it spells one.
Parse(text) ==
    IF \E id \in DOMAIN proofs : text = Text(id)
    THEN CHOOSE id \in DOMAIN proofs : text = Text(id) ELSE None
-----------------------------------------------------------------------------
(***************************************************************************)
(* The readers.  All of them unpack, parse the proof and run the verifier  *)
(* on its bundle; all but `win open` and the desktop compare the file's    *)
(* digest with the proof's first.                                          *)
(***************************************************************************)
Verification(id, file) ==
    VerifyFromProofBundle(Bundle(id), [hash |-> file, size |-> Len(file)], None, 0)

\* build_reading, and the command line's verify_bundle.
BuildReading(id, file) ==
    IF file # proofs[id].claims THEN "Tampered" ELSE Verification(id, file)

\* recognize_bundle: the proof came beside the file.
RecognizeBundle(text, file) ==
    IF Parse(text) = None THEN "Invalid" ELSE BuildReading(Parse(text), file)

\* Variant: every container that does not unpack is invalid.
RecognizeWin_Invalid(c) ==
    IF UnpackError(c) # "ok" THEN "Invalid" ELSE RecognizeBundle(ProofText(c), FileBytes(c))

RecognizeWin(c) ==
    LET error == UnpackError(c)
    IN  IF error # "ok" THEN IF IsContainerDamage(error) THEN "Damaged" ELSE "Invalid"
        ELSE RecognizeBundle(ProofText(c), FileBytes(c))

\* verify_upload: like recognize_bundle, but a proof that does not parse is
\* refused with an error.
VerifyUpload(text, file) ==
    IF Parse(text) = None THEN "BAD_REQUEST"
    ELSE IF file # proofs[Parse(text)].claims THEN "Tampered"
    ELSE Verification(Parse(text), file)

\* check_bundle
CheckBundle(c) ==
    LET error == UnpackError(c)
        id    == Parse(ProofText(c))
    IN  IF error # "ok" THEN IF IsContainerDamage(error) THEN "Damaged" ELSE "Invalid"
        ELSE IF id = None THEN "Invalid"
        ELSE IF FileBytes(c) # proofs[id].claims THEN "Tampered"
        ELSE Verification(id, FileBytes(c))

\* win verify: a file that neither is called .win nor starts like one is not
\* looked at.  (A transition artifact is routed to module Transition's verifier.)
WinVerify(c, calledWin) ==
    IF ~ (calledWin \/ IsWinFile(c)) THEN "NotWin"
    ELSE LET error == UnpackError(c)
             id    == Parse(ProofText(c))
         IN  IF error # "ok" THEN IF IsContainerDamage(error) THEN "Damaged" ELSE "Invalid"
             ELSE IF id = None THEN "Invalid"
             ELSE BuildReading(id, FileBytes(c))

\* The container unpacks and its proof parses: win inspect, open and publish
\* say Invalid of every other one, and stop.
Readable(c) == UnpackError(c) = "ok" /\ Parse(ProofText(c)) # None

\* win inspect
WinInspect(c) ==
    IF Readable(c) THEN BuildReading(Parse(ProofText(c)), FileBytes(c)) ELSE "Invalid"

\* win open, and what the desktop decides by: no digest is compared first.
OpenStatus(c) ==
    IF Readable(c) THEN Verification(Parse(ProofText(c)), FileBytes(c)) ELSE "Invalid"
-----------------------------------------------------------------------------
Idle == [pc |-> "idle", id |-> None, name |-> None, file |-> None, public |-> FALSE,
         path |-> None, before |-> {}]

Init ==
    /\ proofs = <<>>
    /\ wins = [p \in Paths |-> None]
    /\ calls = [c \in Calls |-> Idle]
    /\ site = [f \in Contents |-> None]
    /\ spoiled = {}
    /\ parcel = None
    /\ received = None

Fresh(id) == id \notin DOMAIN proofs

AddProof(id, sealed, claims) ==
    proofs' = With(proofs, id, [sealed |-> sealed, claims |-> claims])

(***************************************************************************)
(* win seal.  The file is read and sealed by the registry first (win_file).*)
(* `before` remembers which containers there were when the call began.     *)
(***************************************************************************)
WinSeal(c, id, n, f, public) ==
    /\ calls[c].pc = "idle"
    /\ Fresh(id)
    /\ AddProof(id, f, f)
    /\ calls' = [calls EXCEPT ![c] =
                    [Idle EXCEPT !.pc = "pick", !.id = id, !.name = n, !.file = f,
                                 !.public = public,
                                 !.before = {p \in Paths : wins[p] # None}]]
    /\ UNCHANGED <<wins, site, spoiled, parcel, received>>

At(c, step) == calls[c].pc = step

\* Variant: the container is always called <name>.win.
Pick_Always(c) ==
    /\ At(c, "pick")
    /\ calls' = [calls EXCEPT ![c].pc = "create", ![c].path = <<calls[c].name, Plain>>]
    /\ UNCHANGED <<proofs, wins, site, spoiled, parcel, received>>

\* The name is taken if a file has it now.
Pick(c) ==
    LET call  == calls[c]
        taken == wins[<<call.name, Plain>>] # None
    IN  /\ At(c, "pick")
        /\ calls' = [calls EXCEPT ![c].pc = "create",
                        ![c].path = <<call.name, IF taken THEN Short(call.file) ELSE Plain>>]
        /\ UNCHANGED <<proofs, wins, site, spoiled, parcel, received>>

(***************************************************************************)
(* fs::write: the file is created or truncated, then its bytes are written *)
(* from the start.  Two writers at once write over each other: the rest of *)
(* a longer content stays behind a shorter one.                            *)
(***************************************************************************)
Over(old, new, n) == SubSeq(new, 1, n) \o SubSeq(old, n + 1, Len(old))

Blank(n) == Cut(Pack(n, <<>>, <<>>), 0)

\* The container after the first n bytes behind the header were written.
WrittenOver(old, new, n) ==
    LET tail == Over(Present(old), new.tail, n)
    IN  [new EXCEPT !.tail = tail, !.have = FileStart(new) + Len(tail)]

Container(call) == Pack(call.name, call.file, Text(call.id))

Create(c) ==
    /\ At(c, "create")
    /\ wins' = [wins EXCEPT ![calls[c].path] = Blank(calls[c].name)]
    /\ calls' = [calls EXCEPT ![c].pc = "write"]
    /\ UNCHANGED <<proofs, site, spoiled, parcel, received>>

Write(c) ==
    LET call == calls[c]
        new  == Container(call)
    IN  /\ At(c, "write")
        /\ wins' = [wins EXCEPT ![call.path] = WrittenOver(@, new, Len(new.tail))]
        /\ calls' = [calls EXCEPT ![c].pc = IF call.public THEN "publish" ELSE "done"]
        /\ UNCHANGED <<proofs, site, spoiled, parcel, received>>

\* One of these calls is writing the proof of the content f.
Writing(f, cs) == \E d \in cs : At(d, "put") /\ calls[d].file = f

\* Variant: the proof that is there is not truncated.
Announce_NoTruncate(c) ==
    LET f == calls[c].file
    IN  /\ At(c, "publish")
        /\ site' = [site EXCEPT ![f] = IF @ = None THEN <<>> ELSE @]
        /\ spoiled' = IF Writing(f, Calls \ {c}) THEN spoiled \cup {f} ELSE spoiled
        /\ calls' = [calls EXCEPT ![c].pc = "put"]
        /\ UNCHANGED <<proofs, wins, parcel, received>>

Announce(c) ==
    LET f == calls[c].file
    IN  /\ At(c, "publish")
        /\ site' = [site EXCEPT ![f] = <<>>]
        /\ spoiled' = IF Writing(f, Calls \ {c}) THEN spoiled \cup {f} ELSE spoiled
        /\ calls' = [calls EXCEPT ![c].pc = "put"]
        /\ UNCHANGED <<proofs, wins, parcel, received>>

Put(c) ==
    LET text == Text(calls[c].id)
    IN  /\ At(c, "put")
        /\ site' = [site EXCEPT ![calls[c].file] = Over(@, text, Len(text))]
        /\ calls' = [calls EXCEPT ![c].pc = "done"]
        /\ UNCHANGED <<proofs, wins, spoiled, parcel, received>>

(***************************************************************************)
(* A write that fails, or the death of the process.  A failed container    *)
(* ends the call; a failed publication is a warning, and the call goes on  *)
(* without it.  Of a write under way nothing or a part may have been done. *)
(***************************************************************************)
PartOfContainer(call) ==
    LET new == Container(call)
    IN  {wins, [wins EXCEPT ![call.path] = WrittenOver(@, new, Len(new.tail) - 1)]}

PartOfProof(call) ==
    LET text == Text(call.id)
    IN  {site, [site EXCEPT ![call.file] = Over(@, text, Len(text) - 1)]}

Breaks(c, ends) ==
    LET call == calls[c]
    IN  /\ wins' \in IF At(c, "write") THEN PartOfContainer(call) ELSE {wins}
        /\ site' \in IF At(c, "put") THEN PartOfProof(call) ELSE {site}
        /\ spoiled' = IF At(c, "put") THEN spoiled \cup {call.file} ELSE spoiled
        /\ calls' = [calls EXCEPT ![c].pc = ends, ![c].public = FALSE]
        /\ UNCHANGED <<proofs, parcel, received>>

IoError(c) ==
    /\ "io" \in Faults
    /\ \/ calls[c].pc \in {"create", "write"} /\ Breaks(c, "failed")
       \/ calls[c].pc \in {"publish", "put"} /\ Breaks(c, "done")

Kill(c) ==
    /\ "kill" \in Faults
    /\ calls[c].pc \notin {"idle", "done", "failed"}
    /\ Breaks(c, "failed")
-----------------------------------------------------------------------------
\* The container the receiver gets next; of a file extracted before only the
\* last one is remembered.
Hand(container, id) ==
    /\ parcel' = [container |-> container, of |-> id, changes |-> 0]
    /\ received' = None

\* seal_file in the browser: the bytes are handed to the caller.
SealFile(id, n, f) ==
    /\ Fresh(id)
    /\ AddProof(id, f, f)
    /\ Hand(Pack(n, f, Text(id)), id)
    /\ UNCHANGED <<wins, calls, site, spoiled>>

\* seal_upload: the answer carries the container, and a copy overwrites
\* <name>.win in Downloads; whether that worked is not looked at.
SealUpload(id, n, f) ==
    LET new == Pack(n, f, Text(id))
    IN  /\ Fresh(id)
        /\ AddProof(id, f, f)
        /\ Hand(new, id)
        /\ wins' \in {[wins EXCEPT ![<<n, Downloads>>] = new]}
                     \cup IF "io" \in Faults THEN {wins} ELSE {}
        /\ UNCHANGED <<calls, site, spoiled>>

(***************************************************************************)
(* What may happen to a container on the way (not code of the repository): *)
(* another header, length, name or file; another proof; an edited proof.   *)
(***************************************************************************)
Rest(c) == SubSeq(c.tail, c.file_len + 1, Len(c.tail))

Altered(c) ==
    {[c EXCEPT !.magic = FALSE]}
    \cup {[c EXCEPT !.file_len = k] : k \in 0 .. Len(c.tail) + 1}
    \cup IF c.file_len > Len(c.tail) THEN {}
         ELSE {Pack(n, FileBytes(c), Rest(c)) : n \in Names}
              \cup {Pack(c.name, f, Rest(c)) : f \in Contents}
              \cup {Pack(c.name, FileBytes(c), Text(id)) : id \in DOMAIN proofs}

Change(c) ==
    parcel' = [parcel EXCEPT !.container = c, !.changes = @ + 1]

Changeable == parcel # None /\ received = None /\ parcel.changes < MaxChanges

Alter ==
    /\ Changeable
    /\ \E c \in Altered(parcel.container) \ {parcel.container} : Change(c)
    /\ UNCHANGED <<proofs, wins, calls, site, spoiled, received>>

\* An edited proof claims f, beside the file it came with or beside f.
EditProof(id, f) ==
    LET c   == parcel.container
        old == Parse(ProofText(c))
    IN  /\ Changeable
        /\ Fresh(id)
        /\ Readable(c)
        /\ f # proofs[old].claims
        /\ AddProof(id, proofs[old].sealed, f)
        /\ \E g \in {FileBytes(c), f} : Change(Pack(c.name, g, Text(id)))
        /\ UNCHANGED <<wins, calls, site, spoiled, received>>

(***************************************************************************)
(* The receiver.  Without --force only a verified file is written, under   *)
(* the name the container gives it; the write may fail or die half way.    *)
(***************************************************************************)
Extract(forced) ==
    LET c == parcel.container
    IN  \E whole \in IF Faults = {} THEN {TRUE} ELSE BOOLEAN :
            received' = [name |-> Sanitize(c.name), file |-> FileBytes(c),
                         forced |-> forced, whole |-> whole]

\* Variant: a container that reads as invalid is extracted as well.
WinOpen_Invalid(force) ==
    /\ parcel # None
    /\ Readable(parcel.container)
    /\ OpenStatus(parcel.container) \in {"Verified", "Invalid"} \/ force
    /\ Extract(force)
    /\ UNCHANGED <<proofs, wins, calls, site, spoiled, parcel>>

WinOpen(force) ==
    /\ parcel # None
    /\ Readable(parcel.container)
    /\ OpenStatus(parcel.container) = "Verified" \/ force
    /\ Extract(force)
    /\ UNCHANGED <<proofs, wins, calls, site, spoiled, parcel>>

DesktopOpen ==
    /\ parcel # None
    /\ OpenStatus(parcel.container) = "Verified"
    /\ Extract(FALSE)
    /\ UNCHANGED <<proofs, wins, calls, site, spoiled, parcel>>

\* win publish: the proof of a container goes to the site as it is; nothing
\* is verified.
Publish ==
    LET c  == parcel.container
        id == Parse(ProofText(c))
        f  == proofs[id].claims
        n  == Len(Text(id))
    IN  /\ parcel # None
        /\ Readable(c)
        /\ \E m \in IF Faults = {} THEN {n} ELSE {n - 1, n} :
               /\ site' = [site EXCEPT ![f] = SubSeq(Text(id), 1, m)]
               /\ spoiled' = IF m # n \/ f # proofs[id].sealed \/ Writing(f, Calls)
                             THEN spoiled \cup {f} ELSE spoiled
        /\ UNCHANGED <<proofs, wins, calls, parcel, received>>
-----------------------------------------------------------------------------
WinSealStep(c) ==
    Pick(c) \/ Create(c) \/ Write(c) \/ Announce(c) \/ Put(c)

Next ==
    \/ \E c \in Calls, id \in Ids, n \in FileNames, f \in Contents, public \in BOOLEAN :
           WinSeal(c, id, n, f, public)
    \/ \E c \in Calls : WinSealStep(c) \/ IoError(c) \/ Kill(c)
    \/ \E id \in Ids, n \in Names, f \in Contents : SealFile(id, n, f) \/ SealUpload(id, n, f)
    \/ Alter
    \/ \E id \in Ids, f \in Contents : EditProof(id, f)
    \/ \E force \in BOOLEAN : WinOpen(force)
    \/ DesktopOpen
    \/ Publish

Spec == Init /\ [][Next]_vars
=============================================================================
