--------------------------- MODULE DeliveryProps ---------------------------
(***************************************************************************)
(* What must hold of sealed files on their way, over the state machine of  *)
(* module Delivery.                                                        *)
(***************************************************************************)
EXTENDS Delivery

\* The containers there are, at the sender's and on their way.
Containers ==
    {wins[p] : p \in {q \in Paths : wins[q] # None}}
    \cup IF parcel = None THEN {} ELSE {parcel.container}

\* A name a container can carry: unpack accepts what pack makes of it.
Fits(n) == n.len \in 1 .. NameCap /\ ~ n.nul

\* The file was sealed under this id, and the proof was not edited since.
SealedAs(id, file) ==
    proofs[id].sealed = file /\ proofs[id].claims = file

SealedSomewhere(file) == \E id \in DOMAIN proofs : SealedAs(id, file)
-----------------------------------------------------------------------------
(***************************************************************************)
(* Type correctness of the state of the delivery.                          *)
(***************************************************************************)
IsContainer(c) ==
    /\ DOMAIN c = {"magic", "name", "file_len", "tail", "have"}
    /\ c.file_len \in Nat
    /\ c.have \in 0 .. Size(c)

TypeOK ==
    /\ DOMAIN proofs \subseteq Ids
    /\ \A id \in DOMAIN proofs : proofs[id].sealed \in Contents /\ proofs[id].claims \in Contents
    /\ \A c \in Containers : IsContainer(c)
    /\ \A c \in Calls :
           /\ calls[c].pc \in PCs
           /\ calls[c].pc # "idle" => calls[c].id \in DOMAIN proofs
           /\ calls[c].pc \in PCs \ {"idle", "pick", "failed"} => calls[c].path \in Paths
    /\ DOMAIN site = Contents
    /\ spoiled \subseteq Contents
    /\ parcel # None => parcel.changes \in 0 .. MaxChanges

(***************************************************************************)
(* Nothing a transport, a failure or a race does makes a file pass for     *)
(* sealed that is not: what `win open` and the desktop call Verified (as   *)
(* the other readers do: SurfacesAgree), what they have extracted unforced *)
(* and in full, and what verifies beside a published proof, however many   *)
(* publications wrote over each other, is a file that was sealed.          *)
(***************************************************************************)
OnlySealedVerifies ==
    /\ \A c \in Containers :
           OpenStatus(c) = "Verified" => SealedSomewhere(FileBytes(c))
    /\ (received # None /\ received.whole /\ ~ received.forced) =>
           SealedSomewhere(received.file)
    /\ \A f, g \in Contents :
           RecognizeBundle(site[f], g) = "Verified" => SealedSomewhere(g)

(***************************************************************************)
(* How far the surfaces agree.  /check, the browser and `win verify` give  *)
(* one verdict out of four for a container, and /verify gives it for the   *)
(* file and the proof apart, with an error where no proof parses.  `win    *)
(* inspect` and `win open` know three: they call Invalid what the others   *)
(* call Damaged, and in everything else give the same verdict, though      *)
(* `win open` compares no digest before it verifies.                       *)
(***************************************************************************)
SurfacesAgree ==
    \A c \in Containers :
        LET verdict == CheckBundle(c)
            ofThree == IF verdict = "Damaged" THEN "Invalid" ELSE verdict
        IN  /\ RecognizeWin(c) = verdict /\ WinVerify(c, TRUE) = verdict
            /\ WinInspect(c) = ofThree /\ OpenStatus(c) = ofThree
            /\ UnpackError(c) = "ok" =>
                   VerifyUpload(ProofText(c), FileBytes(c)) =
                       IF Parse(ProofText(c)) = None THEN "BAD_REQUEST" ELSE verdict

(***************************************************************************)
(* Damage is never taken for tampering or forgery: a container that lost   *)
(* its end, wherever it was cut, is Damaged to /check, the browser and     *)
(* `win verify`, and Invalid to `win inspect` and `win open`, which know   *)
(* no Damaged.  The first also holds of what a dying or failing `win seal` *)
(* left at a path of its own, unless the container was already whole.      *)
(***************************************************************************)
Intact(c) == \E id \in DOMAIN proofs, f \in Contents : c = Pack(c.name, f, Text(id))

SeenAsDamaged(c) ==
    /\ CheckBundle(c) = "Damaged" /\ RecognizeWin(c) = "Damaged"
    /\ WinVerify(c, TRUE) = "Damaged"
    /\ WinInspect(c) = "Invalid" /\ OpenStatus(c) = "Invalid"

TruncatedIsDamaged ==
    /\ \A c \in Containers : Intact(c) =>
           \A n \in 0 .. Size(c) - 1 : SeenAsDamaged(Cut(c, n))
    /\ \A c \in Calls : calls[c].pc = "failed" /\ calls[c].path # None =>
           LET left == wins[calls[c].path]
           IN  (left # None /\ \A d \in Calls \ {c} : calls[d].path # calls[c].path) =>
                   SeenAsDamaged(left) \/ CheckBundle(left) = "Verified"

(***************************************************************************)
(* What was sealed is received: a container that was answered with success,*)
(* under a name it can carry, and that nobody altered, is verified by      *)
(* every reader and unpacks to that file and name; of `win seal`, when no  *)
(* other call chose the same path.                                         *)
(***************************************************************************)
Delivers(c, id, n) ==
    /\ CheckBundle(c) = "Verified" /\ OpenStatus(c) = "Verified"
    /\ FileBytes(c) = proofs[id].sealed
    /\ c.name = Sanitize(n)

Alone(c) == \A d \in Calls \ {c} : calls[d].path # calls[c].path

DeliveredVerifies ==
    /\ (parcel # None /\ parcel.changes = 0 /\ parcel.of # None) =>
           (Fits(parcel.container.name) =>
               Delivers(parcel.container, parcel.of, parcel.container.name))
    /\ \A c \in Calls :
           (calls[c].pc \in {"publish", "put", "done"} /\ Fits(calls[c].name) /\ Alone(c)) =>
               Delivers(wins[calls[c].path], calls[c].id, calls[c].name)

(***************************************************************************)
(* `win seal` does not destroy the containers it finds: one that was there *)
(* when a call began is replaced by it only when it stands under the short *)
(* hash of the very content the call seals.                                *)
(***************************************************************************)
ContainersKept ==
    [][\A c \in Calls : \A p \in Paths :
          (p \in calls[c].before /\ calls[c]'.pc = "write" /\ calls[c].pc = "create"
             /\ calls[c].path = p) => p[2] = Short(calls[c].file)]_vars

(***************************************************************************)
(* An announced share URL resolves: after a `win seal` that published the  *)
(* proof of a content, v/<hash>.json verifies that content, as long as no  *)
(* publication of it is under way and none failed, ran beside another or   *)
(* was of an edited proof.                                                 *)
(***************************************************************************)
Announced(f) == \E c \in Calls : At(c, "done") /\ calls[c].public /\ calls[c].file = f

PublishedResolves ==
    \A f \in Contents \ spoiled :
        (Announced(f) /\ ~ Writing(f, Calls)) => RecognizeBundle(site[f], f) = "Verified"
=============================================================================
