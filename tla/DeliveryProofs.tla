--------------------------- MODULE DeliveryProofs ---------------------------
(***************************************************************************)
(* Sealed files on their way, for any contents, names, containers and      *)
(* changes: only what was sealed passes for sealed, how far the surfaces   *)
(* give the same verdict, and that the container format keeps what it      *)
(* carries and notices when its end is missing.                            *)
(***************************************************************************)
EXTENDS DeliveryProps, SequenceTheorems, WellFoundedInduction, TLAPS

(***************************************************************************)
(* The object in the bundle of a proof: the text claims a file, and the    *)
(* signature is over the file that was sealed.                             *)
(***************************************************************************)
LEMMA BundleFields ==
    ASSUME NEW id
    PROVE  LET b == Bundle(id) IN
           /\ b.creator_identity.key = Creator
           /\ b.object.payload_hash = proofs[id].claims
           /\ b.object.protocol = "V1"
           /\ \E content : /\ content.payload_hash = proofs[id].sealed
                           /\ b.object.object_signature = Sign(Creator, content)
<1> DEFINE s == proofs[id].sealed
           obj == [object_id |-> id, object_class |-> "Native", payload_hash |-> s,
                artifact_size_bytes |-> Len(s), parent_ids |-> {},
                origin |-> [object_id |-> id, creator |-> Creator, module |-> "Document",
                            authority |-> Authority],
                time_event |-> Genesis(id, s), policy_proof |-> Permission(id, s),
                ai_generation |-> None, import_declaration |-> None,
                protocol |-> "V1", proof_chain |-> None]
           O == SealedObject(id, s)
           S == SealedBundle(id, s)
<1>1. /\ DOMAIN obj = {"object_id", "object_class", "payload_hash", "artifact_size_bytes",
                       "parent_ids", "origin", "time_event", "policy_proof", "ai_generation",
                       "import_declaration", "protocol", "proof_chain"}
      /\ obj.payload_hash = s /\ obj.protocol = "V1"
  OBVIOUS
<1>2. O = With(obj, "object_signature", Sign(Creator, ObjSignPayload(obj)))
  BY DEF SealedObject
<1> HIDE DEF obj, O
<1>3. /\ DOMAIN O = DOMAIN obj \cup {"object_signature"}
      /\ O.payload_hash = s /\ O.protocol = "V1"
      /\ O.object_signature = Sign(Creator, ObjSignPayload(obj))
  BY <1>1, <1>2 DEF With
<1>4. S.object = O /\ S.creator_identity.key = Creator
      /\ DOMAIN S = {"object", "creator_identity", "module_registration",
                     "time_authority_identity", "policy_evaluator_identity",
                     "predecessor_time_event", "parent_objects"}
  BY DEF SealedBundle, O
<1> HIDE DEF S
<1>5. Bundle(id) = [S EXCEPT !.object.payload_hash = proofs[id].claims,
                             !.object.artifact_size_bytes = Len(proofs[id].claims)]
  BY DEF Bundle, S
<1>6. /\ Bundle(id).creator_identity = S.creator_identity
      /\ Bundle(id).object = [O EXCEPT !.payload_hash = proofs[id].claims,
                                       !.artifact_size_bytes = Len(proofs[id].claims)]
  BY <1>4, <1>5
<1>7. /\ Bundle(id).object.payload_hash = proofs[id].claims
      /\ Bundle(id).object.protocol = "V1"
      /\ Bundle(id).object.object_signature = Sign(Creator, ObjSignPayload(obj))
  BY <1>1, <1>3, <1>6
<1>8. ObjSignPayload(obj).payload_hash = s
  BY <1>1 DEF ObjSignPayload
<1> QED
  BY <1>4, <1>6, <1>7, <1>8

\* No failure means that no check failed.
LEMMA VerifiedMeans ==
    ASSUME NEW in, NEW now, FromFailures(VerifyObject(in, now)) = "Verified"
    PROVE  /\ in.artifact.hash = in.object.payload_hash
           /\ SignatureOK(in.creator.key, ObjSignPayload(in.object), in.object.object_signature)
<1>1. VerifyObject(in, now) = {}
  BY DEF FromFailures
<1>2. in.object.protocol = SUPPORTED_PROTOCOL
  BY <1>1 DEF VerifyObject
<1>3. PayloadFailures(in) = {} /\ SignatureFailures(in) = {}
  BY <1>1, <1>2 DEF VerifyObject
<1> QED
  BY <1>3 DEF PayloadFailures, SignatureFailures, FailIf

(***************************************************************************)
(* What verifies is what the proof claims, and the proof claims what was   *)
(* sealed under its id.                                                    *)
(***************************************************************************)
LEMMA VerificationBinds ==
    ASSUME NEW id, NEW file, Verification(id, file) = "Verified"
    PROVE  file = proofs[id].claims /\ proofs[id].claims = proofs[id].sealed
<1> DEFINE b == Bundle(id)
           in == [object      |-> b.object,
                  artifact    |-> [hash |-> file, size |-> Len(file)],
                  creator     |-> b.creator_identity,
                  module      |-> b.module_registration,
                  authority   |-> b.time_authority_identity,
                  evaluator   |-> b.policy_evaluator_identity,
                  predecessor |-> b.predecessor_time_event,
                  parents     |-> {[object_id |-> p.object_id,
                                    timestamp |-> p.time_event.timestamp] :
                                      p \in b.parent_objects},
                  tsa_roots   |-> None]
<1>1. FromFailures(VerifyObject(in, 0)) = "Verified"
  BY DEF Verification, VerifyFromProofBundle
<1>2. in.object = b.object /\ in.artifact.hash = file /\ in.creator = b.creator_identity
  OBVIOUS
<1> HIDE DEF in, b
<1>3. /\ file = b.object.payload_hash
      /\ b.object.object_signature = Sign(b.creator_identity.key, ObjSignPayload(b.object))
  BY <1>1, <1>2, VerifiedMeans DEF SignatureOK
<1>4. /\ b.creator_identity.key = Creator /\ b.object.payload_hash = proofs[id].claims
      /\ \E content : /\ content.payload_hash = proofs[id].sealed
                      /\ b.object.object_signature = Sign(Creator, content)
  BY BundleFields DEF b
<1>5. PICK content : /\ content.payload_hash = proofs[id].sealed
                     /\ b.object.object_signature = Sign(Creator, content)
  BY <1>4
<1>6. content = ObjSignPayload(b.object)
  BY <1>3, <1>4, <1>5 DEF Sign
<1>7. content.payload_hash = b.object.payload_hash
  BY <1>6 DEF ObjSignPayload
<1> QED
  BY <1>3, <1>4, <1>5, <1>7

\* Where the digests differ, the verifier finds what the other readers find first.
LEMMA OtherFileIsTampered ==
    ASSUME NEW id, NEW file, file # proofs[id].claims
    PROVE  Verification(id, file) = "Tampered"
<1> DEFINE b == Bundle(id)
           in == [object      |-> b.object,
                  artifact    |-> [hash |-> file, size |-> Len(file)],
                  creator     |-> b.creator_identity,
                  module      |-> b.module_registration,
                  authority   |-> b.time_authority_identity,
                  evaluator   |-> b.policy_evaluator_identity,
                  predecessor |-> b.predecessor_time_event,
                  parents     |-> {[object_id |-> p.object_id,
                                    timestamp |-> p.time_event.timestamp] :
                                      p \in b.parent_objects},
                  tsa_roots   |-> None]
<1>1. Verification(id, file) = FromFailures(VerifyObject(in, 0))
  BY DEF Verification, VerifyFromProofBundle
<1>2. in.object = b.object /\ in.artifact.hash = file
  OBVIOUS
<1> HIDE DEF in, b
<1>3. b.object.payload_hash = proofs[id].claims /\ b.object.protocol = "V1"
  BY BundleFields DEF b
<1>4. "PayloadHashMismatch" \in PayloadFailures(in)
  BY <1>2, <1>3 DEF PayloadFailures, FailIf
<1>5. "PayloadHashMismatch" \in VerifyObject(in, 0)
  BY <1>2, <1>3, <1>4 DEF VerifyObject, SUPPORTED_PROTOCOL
<1> QED
  BY <1>1, <1>5 DEF FromFailures

\* A text that parses spells a proof there is.
LEMMA ParsedIsThere ==
    ASSUME NEW text, Parse(text) # None
    PROVE  Parse(text) \in DOMAIN proofs
  BY DEF Parse

\* What a proof verifies beside is a file that was sealed.
LEMMA VerifiedIsSealed ==
    ASSUME NEW text, NEW file, Parse(text) # None, Verification(Parse(text), file) = "Verified"
    PROVE  SealedSomewhere(file)
  BY VerificationBinds, ParsedIsThere DEF SealedSomewhere, SealedAs

\* So of a container that is opened, and of a proof beside a file.
LEMMA ReadersAgreeOnSealed ==
    /\ \A c : OpenStatus(c) = "Verified" => SealedSomewhere(FileBytes(c))
    /\ \A text, file : RecognizeBundle(text, file) = "Verified" => SealedSomewhere(file)
<1>1. ASSUME NEW c, OpenStatus(c) = "Verified" PROVE SealedSomewhere(FileBytes(c))
  <2>1. /\ Parse(ProofText(c)) # None
        /\ Verification(Parse(ProofText(c)), FileBytes(c)) = "Verified"
    BY <1>1 DEF OpenStatus, Readable
  <2> QED
    BY <2>1, VerifiedIsSealed
<1>2. ASSUME NEW text, NEW file, RecognizeBundle(text, file) = "Verified"
      PROVE  SealedSomewhere(file)
  <2>1. Parse(text) # None /\ Verification(Parse(text), file) = "Verified"
    BY <1>2 DEF RecognizeBundle, BuildReading
  <2> QED
    BY <2>1, VerifiedIsSealed
<1> QED
  BY <1>1, <1>2
-----------------------------------------------------------------------------
(***************************************************************************)
(* How far the surfaces agree, of any container whatsoever.                *)
(***************************************************************************)
LEMMA Agreement ==
    ASSUME NEW c
    PROVE  LET verdict == CheckBundle(c)
               ofThree == IF verdict = "Damaged" THEN "Invalid" ELSE verdict
           IN  /\ RecognizeWin(c) = verdict /\ WinVerify(c, TRUE) = verdict
               /\ WinInspect(c) = ofThree /\ OpenStatus(c) = ofThree
               /\ UnpackError(c) = "ok" =>
                     VerifyUpload(ProofText(c), FileBytes(c)) =
                         IF Parse(ProofText(c)) = None THEN "BAD_REQUEST" ELSE verdict
<1> DEFINE id == Parse(ProofText(c))
           file == FileBytes(c)
<1>1. CASE UnpackError(c) # "ok"
  <2>1. IsContainerDamage(UnpackError(c))
    BY DEF UnpackError, IsContainerDamage
  <2> QED
    BY <1>1, <2>1 DEF RecognizeWin, CheckBundle, WinVerify, OpenStatus, WinInspect, Readable
<1>2. CASE UnpackError(c) = "ok" /\ id = None
  BY <1>2 DEF RecognizeWin, RecognizeBundle, CheckBundle, WinVerify, OpenStatus, WinInspect,
              Readable, VerifyUpload
<1>3. CASE UnpackError(c) = "ok" /\ id # None
  <2>1. file # proofs[id].claims => Verification(id, file) = "Tampered"
    BY OtherFileIsTampered
  <2>2. Verification(id, file) # "Damaged"
    BY DEF Verification, VerifyFromProofBundle, FromFailures
  <2> QED
    BY <1>3, <2>1, <2>2 DEF RecognizeWin, RecognizeBundle, BuildReading, CheckBundle, WinVerify,
                      OpenStatus, WinInspect, Readable, VerifyUpload
<1> QED
  BY <1>1, <1>2, <1>3

(***************************************************************************)
(* How far the surfaces agree, in every state: /check, the browser and     *)
(* `win verify` say one thing, /verify says it of the parts, and `win      *)
(* inspect` and `win open` say it too, but Invalid for Damaged.            *)
(***************************************************************************)
THEOREM AllSurfacesAgree == Spec => []SurfacesAgree
<1>1. SurfacesAgree
  BY Agreement DEF SurfacesAgree
<1> QED
  BY <1>1, PTL
-----------------------------------------------------------------------------
(***************************************************************************)
(* Proofs are only added: what was sealed stays sealed.                    *)
(***************************************************************************)
LEMMA SealedStays ==
    ASSUME NEW file, SealedSomewhere(file), [Next]_vars
    PROVE  SealedSomewhere(file)'
<1>1. \/ proofs' = proofs
      \/ \E id, p, q : Fresh(id) /\ AddProof(id, p, q)
  BY DEF Next, WinSealStep, WinSeal, Pick, Create, Write, Announce, Put, IoError, Kill, Breaks,
         SealFile, SealUpload, Alter, EditProof, WinOpen, DesktopOpen, Publish, vars
<1>2. CASE proofs' = proofs
  BY <1>2 DEF SealedSomewhere, SealedAs
<1>3. CASE \E id, p, q : Fresh(id) /\ AddProof(id, p, q)
  <2>1. PICK old \in DOMAIN proofs : SealedAs(old, file)
    BY DEF SealedSomewhere
  <2>2. old \in DOMAIN proofs' /\ proofs'[old] = proofs[old]
    BY <1>3, <2>1 DEF Fresh, AddProof, With
  <2> QED
    BY <2>1, <2>2 DEF SealedSomewhere, SealedAs
<1> QED
  BY <1>1, <1>2, <1>3

\* What was extracted unforced and in full is a file that was sealed.
ReceivedInv ==
    (received # None /\ received.whole /\ ~ received.forced) => SealedSomewhere(received.file)

\* Every step keeps ReceivedInv.
LEMMA StepReceived == ReceivedInv /\ [Next]_vars => ReceivedInv'
<1> SUFFICES ASSUME ReceivedInv, [Next]_vars PROVE ReceivedInv'
  OBVIOUS
<1>1. CASE received' = received
  BY <1>1, SealedStays DEF ReceivedInv
<1>2. CASE received' = None
  BY <1>2 DEF ReceivedInv
<1>3. ASSUME NEW forced \in BOOLEAN, parcel # None, Extract(forced), UNCHANGED proofs,
             OpenStatus(parcel.container) = "Verified" \/ forced
      PROVE  ReceivedInv'
  <2>1. received'.file = FileBytes(parcel.container) /\ received'.forced = forced
    BY <1>3 DEF Extract
  <2>2. CASE forced
    BY <2>1, <2>2 DEF ReceivedInv
  <2>3. CASE ~ forced
    <3>1. SealedSomewhere(FileBytes(parcel.container))
      BY <1>3, <2>3, ReadersAgreeOnSealed
    <3> QED
      BY <1>3, <2>1, <3>1 DEF ReceivedInv, SealedSomewhere, SealedAs
  <2> QED
    BY <2>2, <2>3
<1>4. \/ received' = received \/ received' = None
      \/ \E forced \in BOOLEAN : WinOpen(forced)
      \/ DesktopOpen
  BY DEF Next, WinSealStep, WinSeal, Pick, Create, Write, Announce, Put, IoError, Kill, Breaks,
         SealFile, SealUpload, Hand, Alter, EditProof, Publish, vars
<1> QED
  BY <1>1, <1>2, <1>3, <1>4 DEF WinOpen, DesktopOpen

(***************************************************************************)
(* Only what was sealed passes for sealed, whatever the transport does to  *)
(* a container and however publications of a proof fail or meet.           *)
(***************************************************************************)
THEOREM OnlySealedPasses == Spec => []OnlySealedVerifies
<1>1. Init => ReceivedInv
  BY DEF Init, ReceivedInv
<1>2. ReceivedInv => OnlySealedVerifies
  BY ReadersAgreeOnSealed DEF ReceivedInv, OnlySealedVerifies
<1> QED
  BY <1>1, <1>2, StepReceived, PTL DEF Spec
-----------------------------------------------------------------------------
(***************************************************************************)
(* The scan of brackets_balanced, on a text of any length.  A non-empty    *)
(* set of numbers has a least one: that is the induction.                  *)
(***************************************************************************)
LEMMA LeastOne ==
    ASSUME NEW S \in SUBSET Nat, S # {}
    PROVE  \E n \in S : \A m \in S : n <= m
<1>1. PICK n \in S : \A m \in S : ~ (<<m, n>> \in OpToRel(<, Nat))
  BY WFMin, NatLessThanWellFounded
<1>2. \A m \in S : <<m, n>> \in Nat \X Nat
  OBVIOUS
<1>3. \A m \in S : ~ (m < n)
  BY <1>1, <1>2 DEF OpToRel
<1> QED
  BY <1>3

\* The scan of the first k tokens.
Scans(f, text, k) ==
    f = [i \in 0 .. k |-> IF i = 0 THEN ScanStart ELSE Scan(f[i - 1], text[i])]

\* There is a scan of any beginning: that of one token more extends it.
LEMMA ScanExists ==
    ASSUME NEW text
    PROVE  \A k \in Nat : \E f : Scans(f, text, k)
<1> DEFINE T == {k \in Nat : ~ \E f : Scans(f, text, k)}
<1> SUFFICES ASSUME T # {} PROVE FALSE
  OBVIOUS
<1>1. PICK m \in T : \A k \in T : m <= k
  BY LeastOne
<1>2. CASE m = 0
  <2> DEFINE f == [i \in 0 .. 0 |-> ScanStart]
  <2>1. Scans(f, text, 0)
    BY DEF Scans
  <2> QED
    BY <1>2, <2>1
<1>3. CASE m # 0
  <2>1. m \in Nat /\ m - 1 \in Nat /\ ~ (m <= m - 1)
    BY <1>3
  <2>2. PICK f : Scans(f, text, m - 1)
    BY <1>1, <2>1
  <2> DEFINE g == [i \in 0 .. m |-> IF i = m THEN Scan(f[m - 1], text[m]) ELSE f[i]]
             next(i) == IF i = 0 THEN ScanStart ELSE Scan(g[i - 1], text[i])
  <2>3. \A i \in 0 .. m - 1 :
            f[i] = IF i = 0 THEN ScanStart ELSE Scan(f[i - 1], text[i])
    BY <2>2 DEF Scans
  <2>4. ASSUME NEW i \in 0 .. m
        PROVE  g[i] = next(i)
    <3>1. CASE i = m
      BY <1>3, <2>1, <3>1
    <3>2. CASE i # m
      <4>1. i \in 0 .. m - 1 /\ g[i] = f[i]
        BY <2>1, <3>2
      <4>2. i # 0 => i - 1 \in 0 .. m /\ g[i - 1] = f[i - 1]
        BY <2>1, <4>1
      <4> QED
        BY <2>3, <4>1, <4>2
    <3> QED
      BY <3>1, <3>2
  <2>5. g = [i \in 0 .. m |-> next(i)]
    BY <2>4
  <2>6. Scans(g, text, m)
    BY <2>5 DEF Scans
  <2> QED
    BY <1>1, <2>6
<1> QED
  BY <1>2, <1>3

\* The scan of a text is one.
LEMMA ScanOfText ==
    ASSUME NEW text, Len(text) \in Nat
    PROVE  /\ ScanOf(text)[0] = ScanStart
           /\ \A i \in 1 .. Len(text) : ScanOf(text)[i] = Scan(ScanOf(text)[i - 1], text[i])
<1> DEFINE n == Len(text)
<1>1. \E f : Scans(f, text, n)
  BY ScanExists
<1>2. Scans(ScanOf(text), text, n)
  BY <1>1 DEF Scans, ScanOf
<1> QED
  BY <1>2 DEF Scans

\* The scan of a beginning is the beginning of the scan.
LEMMA ScanOfBeginning ==
    ASSUME NEW T, NEW text \in Seq(T), NEW k \in 0 .. Len(text)
    PROVE  \A i \in 0 .. k : ScanOf(SubSeq(text, 1, k))[i] = ScanOf(text)[i]
<1> DEFINE part == SubSeq(text, 1, k)
           D == {i \in 0 .. k : ScanOf(part)[i] # ScanOf(text)[i]}
<1>1. Len(text) \in Nat /\ Len(part) = k /\ \A i \in 1 .. k : part[i] = text[i]
  OBVIOUS
<1>2. /\ ScanOf(part)[0] = ScanStart /\ ScanOf(text)[0] = ScanStart
      /\ \A i \in 1 .. k : ScanOf(part)[i] = Scan(ScanOf(part)[i - 1], part[i])
      /\ \A i \in 1 .. k : ScanOf(text)[i] = Scan(ScanOf(text)[i - 1], text[i])
  <2> HIDE DEF part
  <2>1. k \in Nat /\ Len(part) \in Nat /\ \A i \in 1 .. k : i \in 1 .. Len(text)
    BY <1>1
  <2>2. /\ ScanOf(part)[0] = ScanStart
        /\ \A i \in 1 .. Len(part) : ScanOf(part)[i] = Scan(ScanOf(part)[i - 1], part[i])
    BY <2>1, ScanOfText
  <2>3. /\ ScanOf(text)[0] = ScanStart
        /\ \A i \in 1 .. Len(text) : ScanOf(text)[i] = Scan(ScanOf(text)[i - 1], text[i])
    BY <1>1, ScanOfText
  <2> QED
    BY <1>1, <2>1, <2>2, <2>3
<1> HIDE DEF part
<1> SUFFICES ASSUME D # {} PROVE FALSE
  BY DEF part
<1>3. PICK m \in D : \A i \in D : m <= i
  <2>1. D \in SUBSET Nat
    OBVIOUS
  <2> QED
    BY <2>1, LeastOne
<1>4. m # 0
  BY <1>2
<1>5. m \in 1 .. k /\ m - 1 \in 0 .. k /\ ~ (m <= m - 1)
  BY <1>1, <1>4
<1>6. ScanOf(part)[m - 1] = ScanOf(text)[m - 1]
  BY <1>3, <1>5
<1> QED
  BY <1>1, <1>2, <1>5, <1>6

\* A beginning at whose end a bracket is open does not balance.
LEMMA OpenBeginning ==
    ASSUME NEW T, NEW text \in Seq(T), NEW k \in 0 .. Len(text), ScanOf(text)[k].depth # 0
    PROVE  ~ BracketsBalanced(SubSeq(text, 1, k))
<1>1. Len(SubSeq(text, 1, k)) = k /\ k \in 0 .. k
  OBVIOUS
<1>2. ScanOf(SubSeq(text, 1, k))[k] = ScanOf(text)[k]
  BY <1>1, ScanOfBeginning
<1> QED
  BY <1>1, <1>2 DEF BracketsBalanced
-----------------------------------------------------------------------------
IsName(n) ==
    n \in [dir_len : Nat, len : Nat, nul : BOOLEAN, base : {n.base}]

\* What unpack accepts: none of its checks fails.
LEMMA Unpackable ==
    ASSUME NEW c
    PROVE  UnpackError(c) = "ok" <=>
             /\ ~ (c.have < Header) /\ ~ ~ c.magic
             /\ ~ (NameLen(c.name) > NameCap) /\ ~ (c.have < FileStart(c))
             /\ ~ (c.name.nul \/ c.name.len = 0)
             /\ ~ (c.have < FileStart(c) + c.file_len)
             /\ ProofText(c) # <<>> /\ BracketsBalanced(ProofText(c))
  BY Zenon DEF UnpackError

(***************************************************************************)
(* What a packed container holds, and what is there of it when its first   *)
(* bytes, as far as some byte of the proof, are all that is left.          *)
(***************************************************************************)
LEMMA PackedParts ==
    ASSUME NEW T, NEW n, IsName(n), NEW file \in Seq(T), NEW proof \in Seq(T)
    PROVE  LET c == Pack(n, file, proof) IN
           /\ c.name = Sanitize(n) /\ c.file_len = Len(file)
           /\ c.tail = file \o proof
           /\ c.have = Header + n.len + Len(file) + Len(proof)
           /\ c.name.len = n.len /\ c.name.nul = n.nul /\ NameLen(c.name) = n.len
           /\ FileStart(c) = Header + n.len
           /\ Size(c) = c.have
           /\ DOMAIN c = {"magic", "name", "file_len", "tail", "have"}
<1> DEFINE c == Pack(n, file, proof)
<1>1. /\ c.name = Sanitize(n) /\ c.file_len = Len(file)
      /\ c.tail = file \o proof
      /\ c.have = Header + n.len + Len(file) + Len(proof)
      /\ DOMAIN c = {"magic", "name", "file_len", "tail", "have"}
  BY DEF Pack
<1>2. /\ n.len \in Nat /\ Sanitize(n).len = n.len
      /\ Sanitize(n).dir_len = 0 /\ Sanitize(n).nul = n.nul
  BY DEF Sanitize, IsName
<1> HIDE DEF c
<1>3. NameLen(c.name) = n.len /\ FileStart(c) = Header + n.len
  BY <1>1, <1>2 DEF FileStart, NameLen, Header
<1>4. /\ Len(file) \in Nat /\ Len(proof) \in Nat
      /\ Len(file \o proof) = Len(file) + Len(proof)
  OBVIOUS
<1>5. Size(c) = c.have
  <2>1. Len(c.tail) = Len(file) + Len(proof)
    BY <1>1, <1>4
  <2>2. Size(c) = Header + n.len + (Len(file) + Len(proof))
    BY <1>3, <2>1 DEF Size
  <2>3. c.have = Header + n.len + Len(file) + Len(proof)
    BY <1>1
  <2> QED
    BY <1>2, <1>4, <2>2, <2>3 DEF Header
<1> QED
  BY <1>1, <1>2, <1>3, <1>5 DEF c

\* The file and the beginning of the proof are what a cut in the proof leaves.
LEMMA CutParts ==
    ASSUME NEW T, NEW n, IsName(n), NEW file \in Seq(T), NEW proof \in Seq(T),
           NEW k \in 0 .. Len(proof)
    PROVE  LET c   == Pack(n, file, proof)
               cut == Cut(c, FileStart(c) + Len(file) + k)
           IN  FileBytes(cut) = file /\ ProofText(cut) = SubSeq(proof, 1, k)
<1> DEFINE c == Pack(n, file, proof)
           cut == Cut(c, FileStart(c) + Len(file) + k)
           t == file \o proof
           m == Len(file) + k
<1>1. /\ c.name = Sanitize(n) /\ c.file_len = Len(file) /\ c.tail = t
      /\ FileStart(c) = Header + n.len
      /\ DOMAIN c = {"magic", "name", "file_len", "tail", "have"}
  BY PackedParts
<1> HIDE DEF c
<1>2. /\ cut.name = c.name /\ cut.file_len = Len(file) /\ cut.tail = t
      /\ cut.have = FileStart(c) + Len(file) + k
  BY <1>1 DEF Cut
<1> HIDE DEF cut
<1>3. Len(file) \in Nat /\ Len(proof) \in Nat /\ k \in Nat /\ k <= Len(proof) /\ n.len \in Nat
  BY DEF IsName
<1>4. cut.have - FileStart(cut) = m
  BY <1>1, <1>2, <1>3 DEF FileStart, Header
<1>5. t \in Seq(T) /\ Len(t) = Len(file) + Len(proof) /\ SubSeq(t, 1, m) \in Seq(T)
  BY <1>3
<1>6. Present(cut) = SubSeq(t, 1, m)
  BY <1>2, <1>4 DEF Present
<1>7. FileBytes(cut) = SubSeq(SubSeq(t, 1, m), 1, Len(file))
      /\ ProofText(cut) = SubSeq(SubSeq(t, 1, m), Len(file) + 1, m)
  BY <1>2, <1>4, <1>6 DEF FileBytes, ProofText
<1>8. SubSeq(SubSeq(t, 1, m), 1, Len(file)) = file
  <2>1. SubSeq(SubSeq(t, 1, m), 1, Len(file)) = SubSeq(t, 1, Len(file))
    BY <1>3, <1>5
  <2>2. SubSeq(t, 1, Len(file)) = file
    BY <1>3, SubSeqOfConcat1, SubSeqFull
  <2> QED
    BY <2>1, <2>2
<1>9. SubSeq(SubSeq(t, 1, m), Len(file) + 1, m) = SubSeq(proof, 1, k)
  <2>1. SubSeq(SubSeq(t, 1, m), Len(file) + 1, m) = SubSeq(t, Len(file) + 1, m)
    BY <1>3, <1>5
  <2>2. SubSeq(t, Len(file) + 1, m) = SubSeq(proof, 1, k)
    BY <1>3, SubSeqOfConcat2
  <2> QED
    BY <2>1, <2>2
<1> QED
  BY <1>7, <1>8, <1>9 DEF cut, c

(***************************************************************************)
(* The container keeps what it carries: of a fitting name, any file and    *)
(* any proof text that is not empty and whose brackets balance, unpack     *)
(* returns the name, the file and the text that pack was given.            *)
(***************************************************************************)
THEOREM PackUnpack ==
    ASSUME NEW T, NEW n, IsName(n), Fits(n), NEW file \in Seq(T), NEW proof \in Seq(T),
           proof # <<>>, BracketsBalanced(proof)
    PROVE  LET c == Pack(n, file, proof) IN
           /\ UnpackError(c) = "ok"
           /\ c.name = Sanitize(n)
           /\ FileBytes(c) = file
           /\ ProofText(c) = proof
<1> DEFINE c == Pack(n, file, proof)
<1>1. Len(file) \in Nat /\ Len(proof) \in Nat /\ n.len \in Nat /\ Len(proof) \in 0 .. Len(proof)
  BY DEF IsName
<1>2. /\ c.name = Sanitize(n) /\ c.file_len = Len(file)
      /\ c.have = Header + n.len + Len(file) + Len(proof)
      /\ c.name.len = n.len /\ c.name.nul = n.nul /\ NameLen(c.name) = n.len
      /\ FileStart(c) = Header + n.len
  BY PackedParts
<1>3. Cut(c, FileStart(c) + Len(file) + Len(proof)) = c
  <2>1. c.have = FileStart(c) + Len(file) + Len(proof)
    BY <1>2
  <2>2. [c EXCEPT !.have = c.have] = c
    BY DEF Pack
  <2> QED
    BY <2>1, <2>2 DEF Cut
<1>4. FileBytes(c) = file /\ ProofText(c) = proof
  BY <1>1, <1>3, CutParts, SubSeqFull
<1>5. c.magic
  BY DEF Pack
<1> HIDE DEF c
<1>6. ~ (NameLen(c.name) > NameCap) /\ ~ (c.name.nul \/ c.name.len = 0)
  BY <1>1, <1>2, NameCapAssumption DEF Fits
<1>7. /\ ~ (c.have < Header) /\ ~ (c.have < FileStart(c))
      /\ ~ (c.have < FileStart(c) + c.file_len)
  BY <1>1, <1>2 DEF Header
<1>8. UnpackError(c) = "ok"
  BY <1>4, <1>5, <1>6, <1>7, Unpackable
<1> QED
  BY <1>2, <1>4, <1>8 DEF c

\* A container that does not unpack is seen as damaged.
LEMMA DamagedUnlessOk ==
    ASSUME NEW c, UnpackError(c) # "ok"
    PROVE  SeenAsDamaged(c)
<1>1. IsContainerDamage(UnpackError(c))
  BY DEF UnpackError, IsContainerDamage
<1> QED
  BY <1>1 DEF SeenAsDamaged, CheckBundle, RecognizeWin, WinVerify, WinInspect, OpenStatus, Readable

(***************************************************************************)
(* Damage is noticed wherever a container was cut: if no proper beginning  *)
(* of the proof text balances, as of a JSON object none does, unpack fails *)
(* and /check, the browser and `win verify` say Damaged, `win inspect` and *)
(* `win open` Invalid.                                                     *)
(***************************************************************************)
THEOREM CutIsDamaged ==
    ASSUME NEW T, NEW n, IsName(n), NEW file \in Seq(T), NEW proof \in Seq(T),
           \A k \in 1 .. Len(proof) - 1 : ~ BracketsBalanced(SubSeq(proof, 1, k)),
           NEW have \in 0 .. Size(Pack(n, file, proof)) - 1
    PROVE  LET cut == Cut(Pack(n, file, proof), have) IN
           UnpackError(cut) # "ok" /\ SeenAsDamaged(cut)
<1> DEFINE c == Pack(n, file, proof)
           cut == Cut(c, have)
<1>1. Len(file) \in Nat /\ Len(proof) \in Nat /\ n.len \in Nat
  BY DEF IsName
<1>2. /\ Size(c) = Header + n.len + Len(file) + Len(proof) /\ FileStart(c) = Header + n.len
      /\ c.file_len = Len(file)
      /\ DOMAIN c = {"magic", "name", "file_len", "tail", "have"}
  BY PackedParts
<1> HIDE DEF c
<1>3. /\ cut.have = have /\ cut.file_len = Len(file) /\ cut.name = c.name
      /\ FileStart(cut) = FileStart(c)
  BY <1>2 DEF Cut, FileStart
<1>4. have \in Nat /\ have < Header + n.len + Len(file) + Len(proof)
  BY <1>1, <1>2 DEF Header, c
<1>5. ASSUME have < FileStart(c) + Len(file) PROVE UnpackError(cut) # "ok"
  <2>1. cut.have < FileStart(cut) + cut.file_len
    BY <1>3, <1>5
  <2> QED
    BY <2>1, Unpackable
<1>6. ASSUME have >= FileStart(c) + Len(file) PROVE UnpackError(cut) # "ok"
  <2> DEFINE k == have - (FileStart(c) + Len(file))
  <2>1. k \in 0 .. Len(proof) /\ k < Len(proof) /\ have = FileStart(c) + Len(file) + k
    BY <1>1, <1>2, <1>4, <1>6 DEF Header
  <2> HIDE DEF k
  <2>2. ProofText(cut) = SubSeq(proof, 1, k)
    BY <2>1, CutParts DEF c
  <2>3. CASE k = 0
    <3>1. SubSeq(proof, 1, k) = <<>>
      BY <2>3
    <3> QED
      BY <3>1, <2>2, Unpackable
  <2>4. CASE k # 0
    <3>1. k \in 1 .. Len(proof) - 1
      BY <1>1, <2>1, <2>4
    <3> QED
      BY <3>1, <2>2, Unpackable
  <2> QED
    BY <2>3, <2>4
<1>7. UnpackError(cut) # "ok"
  <2>1. have < FileStart(c) + Len(file) \/ have >= FileStart(c) + Len(file)
    BY <1>1, <1>2, <1>4 DEF Header
  <2> QED
    BY <1>5, <1>6, <2>1
<1> QED
  BY <1>7, DamagedUnlessOk DEF c
=============================================================================
