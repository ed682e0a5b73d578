--------------------------- MODULE RegistryProps ----------------------------
(***************************************************************************)
(* What must hold of the sealing registry, over the state machine of       *)
(* module Registry.                                                        *)
(***************************************************************************)
EXTENDS Registry

\* The objects whose file a reload would read.
Persisted == {o \in Objects : objFile[o] \in Whole}

Parents(o) == sealed[o].parent_ids

Timestamp(o) == sealed[o].time_event.timestamp

\* A seal call is in progress.
Running == pc \notin {"idle", "down"}

Acked == {o \in Objects : reply[o] = "ok"}
-----------------------------------------------------------------------------
(***************************************************************************)
(* Type correctness of the registry's state.                               *)
(***************************************************************************)
TypeOK ==
    /\ clock \in Clock
    /\ status \in [Creators -> IdentityStatus]
    /\ chain \in Seq(Objects)
    /\ DOMAIN events \subseteq Objects
    /\ DOMAIN sealed \subseteq Objects
    /\ \A o \in DOMAIN sealed : /\ Parents(o) \subseteq Objects
                                /\ Timestamp(o) \in Clock
    /\ objects \subseteq Objects
    /\ DOMAIN artifacts \subseteq Objects
    /\ objFile \in [Objects -> FileStates]
    /\ artFile \in [Objects -> FileStates]
    /\ nodes \subseteq Objects
    /\ edges \subseteq Objects \X Objects
    /\ pc \in PCs
    /\ cur \in IF Running THEN Objects ELSE {None}
    /\ todo \subseteq Objects
    /\ reply \in [Objects -> {"none", "ok", "err"}]

(***************************************************************************)
(* A seal answered with success is complete and durable: whatever dies     *)
(* afterwards, its object and its artifact are on the medium and the graph *)
(* has its node and all its edges.  (insert's write order and fsyncs, and  *)
(* the graph insert that must come before the Ok.)                         *)
(***************************************************************************)
AckedComplete ==
    \A o \in Acked :
        /\ objFile[o] = "synced" /\ artFile[o] = "synced"
        /\ o \in nodes
        /\ \A q \in Parents(o) : <<o, q>> \in edges

(***************************************************************************)
(* No crash, power cut or failed write makes a loaded object read as       *)
(* Tampered or lose its artifact: the artifact is on the medium before the *)
(* object file exists, so with_path never pairs an object with a missing   *)
(* or a torn artifact.                                                     *)
(***************************************************************************)
NeverTampered == \A o \in objects : Verdict(o) \in {"Verified", "Invalid"}

(***************************************************************************)
(* The lineage of the loaded objects is closed: a parent is loaded with    *)
(* its child.  A power cut may take a parent away only if its own seal     *)
(* never succeeded (a parent that a reload found though it was not synced).*)
(***************************************************************************)
LineageClosed ==
    \A o \in objects : \A q \in Parents(o) :
        q \in objects \/ ("power" \in Faults /\ reply[q] # "ok")

(***************************************************************************)
(* A child is strictly younger than its parents, however the wall clock    *)
(* was set between the seals: the lineage is acyclic and ordered by the    *)
(* time events it carries.                                                 *)
(***************************************************************************)
LineageOrdered ==
    \A o \in Persisted : \A q \in Parents(o) : Timestamp(q) < Timestamp(o)

(***************************************************************************)
(* The lineage graph never knows more than the store: a node stands for an *)
(* object that is durable, and an edge for a parent the object was sealed  *)
(* with, although the two are written one after the other without a        *)
(* common transaction.                                                     *)
(***************************************************************************)
IndexSound ==
    /\ \A o \in nodes : objFile[o] = "synced"
    /\ \A e \in edges : e[1] \in nodes /\ e[2] \in Parents(e[1])

\* The creator is active and the certificates of a token are valid now.
CredentialsValid(o) ==
    /\ status[sealed[o].origin.creator] = "Active"
    /\ LET token == sealed[o].time_event.rfc3161_token
       IN  token = None \/ CertValid(token, clock)

(***************************************************************************)
(* While the process that sealed an object lives, the object verifies as   *)
(* long as its creator is active and its token's certificates are valid:   *)
(* whatever is sealed, rejected or fails after it, its predecessor in the  *)
(* time chain keeps the digest it was chained to, and its parents stay.    *)
(***************************************************************************)
SealedHereVerifies ==
    \A o \in objects \cap DOMAIN events :
        CredentialsValid(o) => Verdict(o) = "Verified"

(***************************************************************************)
(* A verdict is lost only for a reason: the process ended, an identity     *)
(* changed status, or the clock left the validity of a token.  Sealing or  *)
(* failing to seal another object never costs one.                         *)
(***************************************************************************)
VerdictStable ==
    [][\A o \in objects :
          Verdict(o) = "Verified" /\ Verdict(o)' # "Verified" =>
              \/ pc' = "down"
              \/ status' # status
              \/ clock' # clock /\ sealed[o].time_event.time_source = "External"]_vars

(***************************************************************************)
(* The registry implements SealLedger when the machine does not lose power:*)
(* an object is on record from the moment its file is whole.               *)
(***************************************************************************)
Ledger == INSTANCE SealLedger WITH
    ledger  <- Persisted,
    lineage <- [o \in Persisted |-> Parents(o)],
    acked   <- Acked

ImplementsLedger == Ledger!Spec

(***************************************************************************)
(* Every seal call ends, with an answer or with the process: it never      *)
(* holds the registry for good.                                            *)
(***************************************************************************)
SealEnds == Running ~> ~ Running
-----------------------------------------------------------------------------
(***************************************************************************)
(* Claims of the repository the code does not keep.                        *)
(***************************************************************************)

(* "Step 9: Atomic persistence" and "graph insert acts as commit signal":  *)
(* a seal that returned an error left no object in the store.              *)
ErrLeavesNothing == \A o \in objects : reply[o] # "err"

(* Sealed objects are never refused later: an object whose seal succeeded, *)
(* whose creator is active and whose time is local, verifies.              *)
SealedVerifies ==
    \A o \in objects \cap Acked :
        CredentialsValid(o) => Verdict(o) = "Verified"
=============================================================================
