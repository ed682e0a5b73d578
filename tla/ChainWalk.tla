----------------------------- MODULE ChainWalk -----------------------------
(***************************************************************************)
(* The walk of a version history: verify_chain of the crate `verifier`,    *)
(* with the key delegations it accepts and the chain fields `win file      *)
(* --from` writes.  The receiver has the bundle of the newest version and  *)
(* whatever predecessors the sender chose to supply: in any order, with    *)
(* gaps, with duplicates of an id, pointing anywhere.                      *)
(*                                                                         *)
(* One step is one iteration of the while loop.  A bundle is a record of   *)
(* the fields the walk reads; `intact` says that verify_from_proof_bundle  *)
(* finds nothing in the checks of module Verifier other than the one on    *)
(* the chain fields, which is made here.                                   *)
(***************************************************************************)
EXTENDS Verifier, Sequences

CONSTANTS
    Ids,        \* object ids
    Bundles,    \* the proof bundles that exist
    Heads,      \* those a receiver asks about
    Supplies    \* what a sender may supply: sequences of bundles

Id(b)    == b.object.object_id
Key(b)   == b.creator_key
Chain(b) == b.object.proof_chain

\* The predecessor a bundle declares, None at the end of a history.
Pred(b) == IF Chain(b) = None THEN None ELSE Chain(b).predecessor_proof_id

ASSUME BundlesAssumption ==
    /\ None \notin Ids
    /\ \A b \in Bundles : Id(b) \in Ids /\ Pred(b) \in Ids \cup {None}
    /\ Heads \subseteq Bundles
    /\ Supplies \subseteq Seq(Bundles)

VARIABLES
    head,          \* the bundle to verify
    predecessors,  \* the links supplied with it
    at,            \* the bundle whose chain field is read next
    visited,       \* the ids met, the head's among them
    depth,         \* the proofs verified
    failure,       \* the code of the failure found, or "none"
    status         \* ChainStatus, or "walking"

vars == <<head, predecessors, at, visited, depth, failure, status>>
-----------------------------------------------------------------------------
(***************************************************************************)
(* create_delegation and verify_delegation: the old key signs the hand-    *)
(* over to the new one, for one lineage.                                   *)
(***************************************************************************)
DelegPayload(d) ==
    [lineage_id |-> d.lineage_id, from_key |-> d.from_key, to_key |-> d.to_key]

CreateDelegation(lineage, old, new) ==
    [lineage_id |-> lineage, from_key |-> old, to_key |-> new,
     signature |-> Sign(old, [lineage_id |-> lineage, from_key |-> old, to_key |-> new])]

\* Variant: the signature is not checked.
VerifyDelegation_Unsigned(d, from, to, lineage) ==
    d.from_key = from /\ d.to_key = to /\ d.lineage_id = lineage

VerifyDelegation(d, from, to, lineage) ==
    /\ d.from_key = from
    /\ d.to_key = to
    /\ d.lineage_id = lineage
    /\ SignatureOK(d.from_key, DelegPayload(d), d.signature)

(***************************************************************************)
(* The chain fields of a successor made with --from: the lineage of its    *)
(* predecessor, or the predecessor's own id if that has none.              *)
(***************************************************************************)
Extend(pred) ==
    [lineage_id               |-> IF pred.object.proof_chain = None THEN Id(pred)
                                  ELSE pred.object.proof_chain.lineage_id,
     predecessor_proof_id     |-> Id(pred),
     predecessor_payload_hash |-> pred.object.payload_hash,
     key_delegation           |-> None]
-----------------------------------------------------------------------------
Verified(b) == b.intact /\ ProofChainFailures(b) = {}

\* predecessors.iter().find(..): the first link with that id, if any.
Positions(id) == {n \in DOMAIN predecessors : Id(predecessors[n]) = id}
Supplied(id)  == Positions(id) # {}
Link(id)      == predecessors[CHOOSE n \in Positions(id) :
                                  \A m \in Positions(id) : n <= m]

\* The first check that fails between b and the link to its predecessor.
\* Variant: no key may change.
KeyFault_SameKey(b, link) ==
    IF Key(link) = Key(b) THEN "none" ELSE "ChainDelegationMissing"

KeyFault(b, link) ==
    IF Key(link) = Key(b)                  THEN "none"
    ELSE IF Chain(b).key_delegation = None THEN "ChainDelegationMissing"
    ELSE IF ~ VerifyDelegation(Chain(b).key_delegation, Key(link), Key(b),
                               Chain(b).lineage_id)
                                           THEN "ChainDelegationInvalid"
    ELSE "none"

\* Variants: the digest is not compared; the predecessor must be in a chain too.
LinkFault_NoDigest(b) ==
    IF ~ Supplied(Pred(b)) THEN "ChainPredecessorBundleMissing"
    ELSE IF KeyFault(b, Link(Pred(b))) # "none" THEN KeyFault(b, Link(Pred(b)))
    ELSE IF ~ Verified(Link(Pred(b))) THEN "ChainPredecessorInvalid"
    ELSE "none"

LinkFault_NeedsChain(b) ==
    IF ~ Supplied(Pred(b)) THEN "ChainPredecessorBundleMissing"
    ELSE IF Chain(Link(Pred(b))) = None THEN "ChainPredecessorMissing"
    ELSE IF ~ Verified(Link(Pred(b))) THEN "ChainPredecessorInvalid"
    ELSE KeyFault(b, Link(Pred(b)))

LinkFault(b) ==
    LET link == Link(Pred(b))
    IN  IF ~ Supplied(Pred(b)) THEN "ChainPredecessorBundleMissing"
        ELSE IF link.object.payload_hash # Chain(b).predecessor_payload_hash
                               THEN "ChainPredecessorHashMismatch"
        ELSE IF KeyFault(b, link) # "none" THEN KeyFault(b, link)
        ELSE IF ~ Verified(link) THEN "ChainPredecessorInvalid"
        ELSE "none"

Fault(b) ==
    IF Chain(b).predecessor_payload_hash = None THEN "ChainPredecessorMissing"
    ELSE IF Pred(b) \in visited                 THEN "ChainCycleDetected"
    ELSE LinkFault(b)
-----------------------------------------------------------------------------
(***************************************************************************)
(* The verdicts reached before the loop, on the head alone.                *)
(***************************************************************************)
Opening(b, supplied) ==
    IF ~ Verified(b)           THEN "HistoryBroken"
    ELSE IF Chain(b) = None    THEN "Standalone"
    ELSE IF Pred(b) = None     THEN "Origin"
    ELSE IF supplied = <<>>    THEN "HistoryIncomplete"
    ELSE "walking"

Init ==
    /\ head \in Heads
    /\ predecessors \in Supplies
    /\ at = head
    /\ visited = {Id(head)}
    /\ depth = 1
    /\ failure = "none"
    /\ status = Opening(head, predecessors)

ReachOrigin ==
    /\ status = "walking"
    /\ Pred(at) = None
    /\ status' = "FullHistoryVerified"
    /\ UNCHANGED <<head, predecessors, at, visited, depth, failure>>

\* Variants: a version met before is passed over and the loop goes on; the
\* code of the failure is returned in place of the status.
Break_SkipsCycles ==
    /\ status = "walking"
    /\ Pred(at) # None
    /\ LinkFault(at) # "none"
    /\ failure' = LinkFault(at)
    /\ status' = "HistoryBroken"
    /\ visited' = visited \cup {Pred(at)}
    /\ UNCHANGED <<head, predecessors, at, depth>>

Break_CodeAsStatus ==
    /\ status = "walking"
    /\ Pred(at) # None
    /\ Fault(at) # "none"
    /\ status' = Fault(at)
    /\ visited' = IF status' = "ChainPredecessorMissing" THEN visited
                  ELSE visited \cup {Pred(at)}
    /\ UNCHANGED <<head, predecessors, at, depth, failure>>

\* The id joins the visited ones before the link is looked up.
Break ==
    /\ status = "walking"
    /\ Pred(at) # None
    /\ Fault(at) # "none"
    /\ failure' = Fault(at)
    /\ status' = "HistoryBroken"
    /\ visited' = IF failure' = "ChainPredecessorMissing" THEN visited
                  ELSE visited \cup {Pred(at)}
    /\ UNCHANGED <<head, predecessors, at, depth>>

Follow ==
    /\ status = "walking"
    /\ Pred(at) # None
    /\ Fault(at) = "none"
    /\ visited' = visited \cup {Pred(at)}
    /\ at' = Link(Pred(at))
    /\ depth' = depth + 1
    /\ UNCHANGED <<head, predecessors, failure, status>>

Next == ReachOrigin \/ Break \/ Follow

Spec == Init /\ [][Next]_vars

\* The loop runs in the receiver's own thread.
FairSpec == Spec /\ WF_vars(Next)
-----------------------------------------------------------------------------
(***************************************************************************)
(* A full history of the head, said without a walk: a set of ids that      *)
(* holds the head's, in which every bundle ends the history or is bound to *)
(* another one of the set, and no part of which only points to itself.     *)
(* Bound: the predecessor is intact, has the digest the successor names,   *)
(* and the same key, or a key that was handed over for this lineage.       *)
(***************************************************************************)
Bundle(id) == IF id = Id(head) THEN head ELSE Link(id)

Bound(b, link) ==
    /\ link.object.payload_hash = Chain(b).predecessor_payload_hash
    /\ Verified(link)
    /\ \/ Key(link) = Key(b)
       \/ LET made == CreateDelegation(Chain(b).lineage_id, Key(link), Key(b))
          IN  /\ Chain(b).key_delegation # None
              /\ \A f \in DOMAIN made : Chain(b).key_delegation[f] = made[f]

Known == {i \in Ids : i = Id(head) \/ Supplied(i)}

Acyclic(ids) ==
    \A part \in (SUBSET ids) \ {{}} : \E i \in part : Pred(Bundle(i)) \notin part

FullHistory(ids) ==
    /\ Id(head) \in ids
    /\ \A i \in ids :
          \/ Pred(Bundle(i)) = None
          \/ /\ Pred(Bundle(i)) \in ids \ {Id(head)}
             /\ Bound(Bundle(i), Link(Pred(Bundle(i))))
    /\ Acyclic(ids)

(***************************************************************************)
(* Type correctness of the walk.                                           *)
(***************************************************************************)
TypeOK ==
    /\ head \in Bundles /\ at \in Bundles
    /\ predecessors \in Seq(Bundles)
    /\ visited \subseteq Ids
    /\ depth \in Nat
    /\ status \in {"walking", "HistoryBroken", "Standalone", "Origin",
                   "HistoryIncomplete", "FullHistoryVerified"}

(***************************************************************************)
(* FullHistoryVerified is sound: whatever was supplied, the ids the walk   *)
(* met are a full history of the head, free of cycles, each version intact *)
(* and bound to the next by digest and key; and depth counts exactly them. *)
(***************************************************************************)
FullIsSound ==
    status = "FullHistoryVerified" => FullHistory(visited) /\ depth = Cardinality(visited)

(***************************************************************************)
(* It is complete: a history reported broken, though the head itself is    *)
(* intact, has none among the bundles supplied - no order, no duplicate    *)
(* and no stray bundle makes the walk miss one.                            *)
(***************************************************************************)
BrokenIsReal ==
    status = "HistoryBroken" /\ Verified(head) =>
        ~ \E ids \in SUBSET Known : FullHistory(ids)

\* The key of i is the head's, or a version that was met delegates from it.
HandedOver(i) ==
    \/ Key(Bundle(i)) = Key(head)
    \/ \E j \in visited :
          LET d == Chain(Bundle(j)).key_delegation
          IN  /\ Chain(Bundle(j)) # None /\ d # None
              /\ SignatureOK(Key(Bundle(i)), DelegPayload(d), d.signature)
              /\ d.to_key = Key(Bundle(j))

(***************************************************************************)
(* A key other than the head's appears in a verified history only if it    *)
(* signed itself over: the history carries a delegation from that key,     *)
(* signed with it.                                                         *)
(***************************************************************************)
KeysHandedOver ==
    status = "FullHistoryVerified" => \A i \in visited : HandedOver(i)

\* b has no predecessor, or was made with --from of a version supplied.
ExtendedBy(b) ==
    \/ Pred(b) = None
    \/ Supplied(Pred(b)) /\ Chain(b) = Extend(Link(Pred(b)))

(***************************************************************************)
(* A history made with --from by one key, supplied whole, is accepted: the *)
(* head and its links each extend another or have no predecessor.          *)
(***************************************************************************)
ExtendsAccepted ==
    LET all == {Bundle(i) : i \in Known}
    IN  /\ status \notin {"walking", "HistoryIncomplete"}
        /\ Acyclic(Known)
        /\ \A b \in all : Verified(b) /\ ExtendedBy(b) /\ Key(b) = Key(head)
        => status # "HistoryBroken"

(***************************************************************************)
(* The walk ends, also on predecessors that point in a circle.             *)
(***************************************************************************)
WalkEnds == <>(status # "walking")

(***************************************************************************)
(* A claim of the specification the walk does not check: lineage_id is the *)
(* "stable identifier for this artifact lineage" and there is "no cross-   *)
(* chain linking", so a verified history has one lineage.                  *)
(***************************************************************************)
OneLineage ==
    status = "FullHistoryVerified" =>
        \A i, j \in visited :
            Chain(Bundle(i)) # None /\ Chain(Bundle(j)) # None =>
                Chain(Bundle(i)).lineage_id = Chain(Bundle(j)).lineage_id
=============================================================================
