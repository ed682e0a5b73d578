-------------------------- MODULE ChainWalkProofs --------------------------
(***************************************************************************)
(* A verified history is a history, whatever the sender supplied and       *)
(* however many bundles there are: the invariants FullIsSound and          *)
(* KeysHandedOver of module ChainWalk, from the invariant of the loop.     *)
(***************************************************************************)
EXTENDS ChainWalk, FiniteSetTheorems, WellFoundedInduction, TLAPS

(***************************************************************************)
(* find returns a link with the id asked for: a non-empty set of positions *)
(* has a first one.                                                        *)
(***************************************************************************)
LEMMA FirstOne ==
    ASSUME NEW S \in SUBSET Nat, S # {}
    PROVE  \E n \in S : \A m \in S : n <= m
<1>1. PICK n \in S : \A m \in S : ~ (<<m, n>> \in OpToRel(<, Nat))
  BY WFMin, NatLessThanWellFounded
<1>2. \A m \in S : <<m, n>> \in Nat \X Nat
  OBVIOUS
<1>3. \A m \in S : ~ (m < n)
  BY <1>1, <1>2 DEF OpToRel
<1> QED
  BY <1>3

\* The link that is found is a supplied bundle with the id looked for.
LEMMA FoundLink ==
    ASSUME NEW id, Supplied(id), predecessors \in Seq(Bundles)
    PROVE  Link(id) \in Bundles /\ Id(Link(id)) = id
<1>1. Positions(id) \in SUBSET Nat /\ Positions(id) # {}
  BY DEF Positions, Supplied
<1>2. \E n \in Positions(id) : \A m \in Positions(id) : n <= m
  BY <1>1, FirstOne
<1> DEFINE n == CHOOSE k \in Positions(id) : \A m \in Positions(id) : k <= m
<1>3. n \in Positions(id)
  BY <1>2
<1>4. Link(id) = predecessors[n]
  BY DEF Link
<1> HIDE DEF n
<1> QED
  BY <1>3, <1>4 DEF Positions

(***************************************************************************)
(* A link in which the walk finds no fault is bound to its successor.      *)
(***************************************************************************)
LEMMA NoFaultBinds ==
    ASSUME NEW b, LinkFault(b) = "none"
    PROVE  Supplied(Pred(b)) /\ Bound(b, Link(Pred(b)))
<1> DEFINE link == Link(Pred(b))
<1> HIDE DEF link
<1>1. /\ Supplied(Pred(b))
      /\ link.object.payload_hash = Chain(b).predecessor_payload_hash
      /\ KeyFault(b, link) = "none"
      /\ Verified(link)
  BY DEF LinkFault, link
<1>2. CASE Key(link) = Key(b)
  BY <1>1, <1>2 DEF Bound, link
<1>3. CASE Key(link) # Key(b)
  <2> DEFINE d == Chain(b).key_delegation
  <2>1. d # None /\ VerifyDelegation(d, Key(link), Key(b), Chain(b).lineage_id)
    BY <1>1, <1>3 DEF KeyFault
  <2> DEFINE made == CreateDelegation(Chain(b).lineage_id, Key(link), Key(b))
  <2>2. /\ DOMAIN made = {"lineage_id", "from_key", "to_key", "signature"}
        /\ made.lineage_id = Chain(b).lineage_id /\ made.from_key = Key(link)
        /\ made.to_key = Key(b)
        /\ made.signature = Sign(Key(link), [lineage_id |-> Chain(b).lineage_id,
                                             from_key |-> Key(link), to_key |-> Key(b)])
    BY DEF CreateDelegation
  <2>3. /\ d.lineage_id = made.lineage_id /\ d.from_key = made.from_key
        /\ d.to_key = made.to_key /\ d.signature = made.signature
    BY <2>1, <2>2 DEF VerifyDelegation, SignatureOK, DelegPayload
  <2> HIDE DEF made
  <2>4. \A f \in DOMAIN made : d[f] = made[f]
    BY <2>2, <2>3
  <2> QED
    BY <1>1, <2>1, <2>4 DEF Bound, link, made
<1> QED
  BY <1>2, <1>3

(***************************************************************************)
(* The invariant of the loop.  `at` is the last version met; every other   *)
(* one met is bound to its predecessor, which is met too and is not the    *)
(* head, and no set of them only points to itself.                         *)
(***************************************************************************)
Behind == visited \ {Id(at)}

BoundBehind ==
    \A i \in Behind :
        LET b == Bundle(i)
        IN  Pred(b) \in visited \ {Id(head)} /\ Bound(b, Link(Pred(b)))

AllHandedOver == \A i \in visited : HandedOver(i)

Underway ==
    /\ at = Bundle(Id(at))
    /\ Id(at) \in visited /\ Id(head) \in visited
    /\ IsFiniteSet(visited) /\ depth = Cardinality(visited)
    /\ BoundBehind
    /\ Acyclic(Behind)
    /\ AllHandedOver

Walk ==
    /\ status \in {"walking", "FullHistoryVerified"} => Underway
    /\ status = "FullHistoryVerified" => Pred(at) = None

IInv == TypeOK /\ Walk

-----------------------------------------------------------------------------
\* The walk starts with IInv.
LEMMA InitIInv == Init => IInv
<1> SUFFICES ASSUME Init PROVE IInv
  OBVIOUS
<1> USE DEF Init
<1>1. TypeOK
  <2>1. status # "FullHistoryVerified"
    BY DEF Opening
  <2> QED
    BY BundlesAssumption DEF TypeOK, Opening
<1>2. Underway
  <2>1. at = Bundle(Id(at)) /\ Behind = {}
    BY DEF Bundle, Behind
  <2>2. IsFiniteSet(visited) /\ depth = Cardinality(visited)
    BY FS_Singleton
  <2>3. Acyclic(Behind)
    BY <2>1 DEF Acyclic
  <2>4. \A i \in visited : HandedOver(i)
    BY <2>1 DEF HandedOver
  <2> QED
    BY <2>1, <2>2, <2>3, <2>4 DEF Underway, AllHandedOver, BoundBehind
<1>3. status # "FullHistoryVerified"
  BY DEF Opening
<1> QED
  BY <1>1, <1>2, <1>3 DEF IInv, Walk

(***************************************************************************)
(* One more version: it is new, so it is not the head and closes no circle.*)
(***************************************************************************)
LEMMA FollowUnderway ==
    ASSUME IInv, Follow
    PROVE  Underway'
<1>a. PICK new : new = Pred(at)
  OBVIOUS
<1>b. PICK last : last = Id(at)
  OBVIOUS
<1>1. /\ status = "walking" /\ new # None
      /\ new \notin visited /\ LinkFault(at) = "none"
  BY <1>a DEF Follow, Fault
<1>2. Underway /\ predecessors \in Seq(Bundles)
  BY <1>1 DEF IInv, TypeOK, Walk
<1>3. /\ visited' = visited \cup {new} /\ at' = Link(new) /\ depth' = depth + 1
      /\ head' = head /\ predecessors' = predecessors
  BY <1>a DEF Follow
<1>4. Supplied(new) /\ Bound(at, Link(new))
  BY <1>a, <1>1, NoFaultBinds
<1>5. Id(Link(new)) = new
  BY <1>2, <1>4, FoundLink
<1>6. new # Id(head) /\ Id(head) \in visited'
  BY <1>1, <1>2, <1>3 DEF Underway
<1>7. \A i : Bundle(i)' = Bundle(i) /\ Link(i)' = Link(i)
  BY <1>3 DEF Bundle, Link, Positions
<1>8. at' = Bundle(Id(at))' /\ Id(at') \in visited'
  BY <1>3, <1>5, <1>6 DEF Bundle, Link, Positions
<1>9. Behind' = visited
  BY <1>1, <1>3, <1>5 DEF Behind
<1>10. IsFiniteSet(visited') /\ depth' = Cardinality(visited')
  BY <1>1, <1>2, <1>3, FS_AddElement DEF Underway
<1>11. BoundBehind'
  <2> SUFFICES ASSUME NEW i \in visited
               PROVE  /\ Pred(Bundle(i)) \in visited' \ {Id(head)}
                      /\ Bound(Bundle(i), Link(Pred(Bundle(i))))
    BY <1>3, <1>7, <1>9 DEF BoundBehind
  <2>1. CASE i = last
    BY <1>a, <1>b, <2>1, <1>2, <1>3, <1>4, <1>6 DEF Underway
  <2>2. CASE i # last
    BY <1>b, <2>2, <1>2, <1>3 DEF Underway, BoundBehind, Behind
  <2> QED
    BY <2>1, <2>2
<1>12. Acyclic(Behind)'
  <2> SUFFICES ASSUME NEW part \in SUBSET visited, part # {}
               PROVE  \E i \in part : Pred(Bundle(i)) \notin part
    BY <1>7, <1>9 DEF Acyclic
  <2>1. CASE last \in part
    BY <1>a, <1>b, <2>1, <1>1, <1>2 DEF Underway
  <2>2. CASE last \notin part
    BY <1>b, <2>2, <1>2 DEF Underway, Acyclic, Behind
  <2> QED
    BY <2>1, <2>2
<1>13. \A i \in visited' : HandedOver(i)'
  <2>1. \A i \in visited : HandedOver(i)'
    BY <1>2, <1>3, <1>7 DEF Underway, AllHandedOver, HandedOver
  <2>2. HandedOver(new)'
    <3> DEFINE d == Chain(at).key_delegation
    <3>1. Bundle(new)' = Link(new)
      BY <1>6, <1>7 DEF Bundle
    <3>2. Bundle(last)' = at /\ last \in visited /\ last \in visited'
      BY <1>b, <1>2, <1>3, <1>7 DEF Underway
    <3>3. CASE Key(Link(new)) = Key(at)
      <4>1. HandedOver(last)'
        BY <3>2, <2>1
      <4> QED
        BY <4>1, <3>1, <3>2, <3>3 DEF HandedOver
    <3>4. CASE Key(Link(new)) # Key(at)
      <4>1. KeyFault(at, Link(new)) = "none"
        BY <1>a, <1>1 DEF LinkFault
      <4>2. d # None /\ VerifyDelegation(d, Key(Link(new)), Key(at), Chain(at).lineage_id)
        BY <4>1, <3>4 DEF KeyFault
      <4>3. Chain(at) # None
        BY <1>a, <1>1 DEF Pred
      <4>4. SignatureOK(Key(Link(new)), DelegPayload(d), d.signature) /\ d.to_key = Key(at)
        BY <4>2 DEF VerifyDelegation
      <4> QED
        BY <4>2, <4>3, <4>4, <3>1, <3>2 DEF HandedOver
    <3> QED
      BY <3>3, <3>4
  <2> QED
    BY <1>3, <2>1, <2>2
<1>14. AllHandedOver'
  BY <1>13 DEF AllHandedOver
<1> QED
  BY <1>3, <1>6, <1>8, <1>10, <1>11, <1>12, <1>14 DEF Underway

\* A step that does not move the walk keeps Underway.
LEMMA SameUnderway ==
    ASSUME Underway, UNCHANGED <<head, predecessors, at, visited, depth>>
    PROVE  Underway'
<1>1. \A i : Bundle(i)' = Bundle(i) /\ Link(i)' = Link(i)
  BY DEF Bundle, Link, Positions
<1>2. Behind' = Behind
  BY DEF Behind
<1>3. BoundBehind' /\ Acyclic(Behind)'
  BY <1>1, <1>2 DEF Underway, BoundBehind, Acyclic
<1>4. \A i \in visited : HandedOver(i)'
  BY <1>1 DEF Underway, AllHandedOver, HandedOver
<1>5. AllHandedOver'
  BY <1>4 DEF AllHandedOver
<1>6. at' = Bundle(Id(at))'
  BY DEF Underway, Bundle, Link, Positions
<1> QED
  BY <1>3, <1>5, <1>6 DEF Underway

\* Every iteration keeps IInv.
LEMMA StepIInv == IInv /\ [Next]_vars => IInv'
<1> SUFFICES ASSUME IInv, [Next]_vars PROVE IInv'
  OBVIOUS
<1>1. CASE ReachOrigin
  <2>1. UNCHANGED <<head, predecessors, at, visited, depth>> /\ status = "walking"
        /\ status' = "FullHistoryVerified" /\ Pred(at) = None
    BY <1>1 DEF ReachOrigin
  <2>2. TypeOK'
    BY <2>1 DEF IInv, TypeOK
  <2>3. Underway'
    BY <2>1, SameUnderway DEF IInv, Walk
  <2> QED
    BY <2>1, <2>2, <2>3 DEF IInv, Walk
<1>2. CASE Break
  <2>1. UNCHANGED <<head, predecessors, at, depth>> /\ status = "walking"
        /\ status' = "HistoryBroken" /\ Pred(at) # None
        /\ visited' \in {visited, visited \cup {Pred(at)}}
    BY <1>2 DEF Break
  <2> QED
    BY <2>1, BundlesAssumption DEF IInv, Walk, TypeOK
<1>3. CASE Follow
  <2>1. Underway'
    BY <1>3, FollowUnderway
  <2>2. LinkFault(at) = "none" /\ status' = "walking"
    BY <1>3 DEF Follow, Fault, IInv, TypeOK
  <2>3. TypeOK'
    <3>1. predecessors \in Seq(Bundles) /\ Supplied(Pred(at))
      BY <2>2, NoFaultBinds DEF IInv, TypeOK
    <3>2. Link(Pred(at)) \in Bundles /\ Id(Link(Pred(at))) = Pred(at)
      BY <3>1, FoundLink
    <3> QED
      BY <1>3, <3>2, BundlesAssumption DEF Follow, IInv, TypeOK
  <2> QED
    BY <2>1, <2>2, <2>3 DEF IInv, Walk
<1>4. CASE UNCHANGED vars
  <2>1. status \in {"walking", "FullHistoryVerified"} => Underway'
    BY <1>4, SameUnderway DEF vars, IInv, Walk
  <2> QED
    BY <1>4, <2>1 DEF vars, IInv, TypeOK, Walk
<1> QED
  BY <1>1, <1>2, <1>3, <1>4 DEF Next

(***************************************************************************)
(* At every iteration the versions passed are bound link by link, close no *)
(* circle, are counted by depth and had their keys handed over.            *)
(***************************************************************************)
THEOREM WalkInductive == Spec => []IInv
<1> QED
  BY InitIInv, StepIInv, PTL DEF Spec

-----------------------------------------------------------------------------
(***************************************************************************)
(* FullHistoryVerified is sound for any bundles and any supply of them:    *)
(* what the walk met is a full history of the head, and depth its length.  *)
(***************************************************************************)
THEOREM HistoryIsSound == Spec => []FullIsSound
<1>1. IInv => FullIsSound
  <2> SUFFICES ASSUME IInv, status = "FullHistoryVerified"
               PROVE  FullHistory(visited) /\ depth = Cardinality(visited)
    BY DEF FullIsSound
  <2>1. Underway /\ Pred(at) = None
    BY DEF IInv, Walk
  <2>2. \A i \in visited :
          \/ Pred(Bundle(i)) = None
          \/ /\ Pred(Bundle(i)) \in visited \ {Id(head)}
             /\ Bound(Bundle(i), Link(Pred(Bundle(i))))
    BY <2>1 DEF Underway, BoundBehind, Behind
  <2>3. Acyclic(visited)
    <3> SUFFICES ASSUME NEW part \in SUBSET visited, part # {}
                 PROVE  \E i \in part : Pred(Bundle(i)) \notin part
      BY DEF Acyclic
    <3>1. None \notin part
      BY BundlesAssumption DEF IInv, TypeOK
    <3>2. CASE Id(at) \in part
      BY <3>1, <3>2, <2>1 DEF Underway
    <3>3. CASE Id(at) \notin part
      BY <3>3, <2>1 DEF Underway, Acyclic, Behind
    <3> QED
      BY <3>2, <3>3
  <2> QED
    BY <2>1, <2>2, <2>3 DEF FullHistory, Underway
<1> QED
  BY <1>1, WalkInductive, PTL

(***************************************************************************)
(* In a verified history every key but the head's signed itself over.      *)
(***************************************************************************)
THEOREM KeysAreHandedOver == Spec => []KeysHandedOver
<1>1. IInv => KeysHandedOver
  BY DEF IInv, Walk, Underway, AllHandedOver, HandedOver, KeysHandedOver
<1> QED
  BY <1>1, WalkInductive, PTL
-----------------------------------------------------------------------------
\* Type correctness of the walk.
THEOREM WalkTypes == Spec => []TypeOK
<1> QED
  BY WalkInductive, PTL DEF IInv

(***************************************************************************)
(* What is said of the head and of what was supplied stays as it is: a     *)
(* step changes neither.                                                   *)
(***************************************************************************)
LEMMA SameSupply ==
    ASSUME UNCHANGED <<head, predecessors>>
    PROVE  /\ \A i : Bundle(i)' = Bundle(i) /\ Link(i)' = Link(i)
           /\ \A i : Supplied(i)' <=> Supplied(i)
           /\ Known' = Known
           /\ \A ids : Acyclic(ids)' <=> Acyclic(ids)
           /\ \A ids : FullHistory(ids)' <=> FullHistory(ids)
           /\ \A b : ExtendedBy(b)' <=> ExtendedBy(b)
<1>1. /\ \A i : Bundle(i)' = Bundle(i) /\ Link(i)' = Link(i)
      /\ \A i : Supplied(i)' <=> Supplied(i)
  BY DEF Bundle, Link, Positions, Supplied
<1>2. Known' = Known
  BY <1>1 DEF Known
<1>3. \A ids : Acyclic(ids)' <=> Acyclic(ids)
  BY <1>1 DEF Acyclic
<1>4. \A ids : FullHistory(ids)' <=> FullHistory(ids)
  BY <1>1, <1>3 DEF FullHistory
<1>5. \A b : ExtendedBy(b)' <=> ExtendedBy(b)
  BY <1>1 DEF ExtendedBy
<1> QED
  BY <1>1, <1>2, <1>3, <1>4, <1>5

\* A bundle bound to its predecessor has a link without a fault.
LEMMA BoundHasNoFault ==
    ASSUME NEW b, Supplied(Pred(b)), Bound(b, Link(Pred(b)))
    PROVE  LinkFault(b) = "none"
<1> DEFINE link == Link(Pred(b))
           d    == Chain(b).key_delegation
           made == CreateDelegation(Chain(b).lineage_id, Key(link), Key(b))
<1>1. CASE Key(link) = Key(b)
  BY <1>1 DEF Bound, LinkFault, KeyFault
<1>2. CASE Key(link) # Key(b)
  <2>1. d # None /\ \A f \in DOMAIN made : d[f] = made[f]
    BY <1>2 DEF Bound
  <2>2. /\ DOMAIN made = {"lineage_id", "from_key", "to_key", "signature"}
        /\ made.lineage_id = Chain(b).lineage_id /\ made.from_key = Key(link)
        /\ made.to_key = Key(b)
        /\ made.signature = Sign(Key(link), [lineage_id |-> Chain(b).lineage_id,
                                             from_key |-> Key(link), to_key |-> Key(b)])
    BY DEF CreateDelegation
  <2> HIDE DEF made, d, link
  <2>3. /\ d.lineage_id = Chain(b).lineage_id /\ d.from_key = Key(link) /\ d.to_key = Key(b)
        /\ d.signature = Sign(Key(link), [lineage_id |-> Chain(b).lineage_id,
                                          from_key |-> Key(link), to_key |-> Key(b)])
    BY <2>1, <2>2
  <2>4. VerifyDelegation(d, Key(link), Key(b), Chain(b).lineage_id)
    BY <2>3 DEF VerifyDelegation, SignatureOK, DelegPayload
  <2> QED
    BY <2>1, <2>4 DEF Bound, LinkFault, KeyFault, link, d
<1> QED
  BY <1>1, <1>2

(***************************************************************************)
(* The versions the walk has met are in every full history of the head; so *)
(* a step that finds a fault finds one no history can be without.          *)
(***************************************************************************)
Met ==
    /\ Verified(at)
    /\ visited \subseteq Known
    /\ \A ids \in SUBSET Known : FullHistory(ids) => visited \subseteq ids

CInv ==
    /\ IInv
    /\ status = "walking" => Met
    /\ BrokenIsReal
    /\ ExtendsAccepted

\* CInv holds before the loop.
LEMMA InitCInv == Init => CInv
<1> SUFFICES ASSUME Init PROVE CInv
  OBVIOUS
<1>1. IInv
  BY InitIInv
<1>2. head \in Bundles /\ Id(head) \in Ids /\ Id(head) \in Known
  BY BundlesAssumption DEF Init, Known
<1>3. status = "walking" => Met
  BY <1>2 DEF Init, Opening, Met, FullHistory
<1>4. status = "HistoryBroken" => ~ Verified(head)
  BY DEF Init, Opening
<1>5. Bundle(Id(head)) = head
  BY DEF Bundle
<1>6. ExtendsAccepted
  BY <1>2, <1>4, <1>5 DEF ExtendsAccepted
<1> QED
  BY <1>1, <1>3, <1>4, <1>6 DEF CInv, BrokenIsReal

(***************************************************************************)
(* A walk that comes back to a version it met has met a circle: the ids it *)
(* met point only to themselves.                                           *)
(***************************************************************************)
LEMMA BackIsCircle ==
    ASSUME Underway, Pred(at) \in visited
    PROVE  \A ids : visited \subseteq ids => ~ Acyclic(ids)
<1>1. \A i \in visited : Pred(Bundle(i)) \in visited
  BY DEF Underway, BoundBehind, Behind
<1>2. visited # {}
  BY DEF Underway
<1> QED
  BY <1>1, <1>2 DEF Acyclic

\* The hash of a predecessor is there when the bundle is intact.
LEMMA HashIsThere ==
    ASSUME NEW b, Verified(b), Pred(b) # None
    PROVE  Chain(b) # None /\ Chain(b).predecessor_payload_hash # None
  BY DEF Verified, ProofChainFailures, FailIf, Pred, Chain

\* A step to a predecessor keeps what was met within every full history.
LEMMA FollowMet ==
    ASSUME CInv, Follow
    PROVE  Met'
<1>1. /\ status = "walking" /\ Pred(at) # None /\ LinkFault(at) = "none"
      /\ visited' = visited \cup {Pred(at)} /\ at' = Link(Pred(at))
      /\ UNCHANGED <<head, predecessors>>
  BY DEF Follow, Fault
<1>2. Met /\ Underway /\ at \in Bundles
  BY <1>1 DEF CInv, IInv, TypeOK, Walk
<1>3. Supplied(Pred(at)) /\ Verified(at')
  BY <1>1, NoFaultBinds DEF Bound
<1>4. Pred(at) \in Known
  BY <1>1, <1>2, <1>3, BundlesAssumption DEF Known
<1>5. visited' \subseteq Known'
  BY <1>1, <1>2, <1>4, SameSupply DEF Met
<1>6. ASSUME NEW ids \in SUBSET Known, FullHistory(ids)
      PROVE  visited' \subseteq ids
  <2>1. visited \subseteq ids /\ Id(at) \in ids /\ Bundle(Id(at)) = at
    BY <1>2, <1>6 DEF Met, Underway
  <2>2. Pred(at) \in ids
    BY <1>1, <1>6, <2>1 DEF FullHistory
  <2> QED
    BY <1>1, <2>1, <2>2
<1>7. \A ids \in SUBSET Known' : FullHistory(ids)' => visited' \subseteq ids
  BY <1>1, <1>6, SameSupply
<1>8. Verified(at)'
  BY <1>3 DEF Verified, ProofChainFailures, FailIf
<1> QED
  BY <1>5, <1>7, <1>8 DEF Met

\* A fault means that there is no full history.
LEMMA BreakIsReal ==
    ASSUME CInv, Break, NEW ids \in SUBSET Known, FullHistory(ids)
    PROVE  FALSE
<1>1. status = "walking" /\ Pred(at) # None /\ Fault(at) # "none"
  BY DEF Break
<1>2. Met /\ Underway
  BY <1>1 DEF CInv, IInv, Walk
<1>3. visited \subseteq ids /\ Id(at) \in ids /\ Bundle(Id(at)) = at
  BY <1>2 DEF Met, Underway
<1>4. Pred(at) \in ids \ {Id(head)} /\ Bound(at, Link(Pred(at)))
  BY <1>1, <1>3 DEF FullHistory
<1>5. Supplied(Pred(at))
  BY <1>4 DEF Known
<1>6. LinkFault(at) = "none"
  BY <1>4, <1>5, BoundHasNoFault
<1>7. Pred(at) \notin visited
  BY <1>2, <1>3, BackIsCircle DEF FullHistory
<1>8. Chain(at).predecessor_payload_hash # None
  BY <1>1, <1>2, HashIsThere DEF Met
<1> QED
  BY <1>1, <1>6, <1>7, <1>8 DEF Fault

\* Versions of one key that each extend another have no fault.
LEMMA ExtendsHasNoFault ==
    ASSUME CInv, Break, Acyclic(Known),
           \A b \in {Bundle(i) : i \in Known} : Verified(b) /\ ExtendedBy(b) /\ Key(b) = Key(head)
    PROVE  FALSE
<1>1. status = "walking" /\ Pred(at) # None /\ Fault(at) # "none"
  BY DEF Break
<1>2. Met /\ Underway /\ at \in Bundles
  BY <1>1 DEF CInv, IInv, TypeOK, Walk
<1>3. Id(at) \in Known /\ Bundle(Id(at)) = at
  BY <1>2 DEF Met, Underway
<1>4. ExtendedBy(at) /\ Key(at) = Key(head)
  BY <1>3
<1>5. Supplied(Pred(at)) /\ Chain(at) = Extend(Link(Pred(at)))
  BY <1>1, <1>4 DEF ExtendedBy
<1>6. Pred(at) \notin visited
  BY <1>2, BackIsCircle DEF Met
<1>7. Pred(at) \in Known /\ Pred(at) # Id(head)
  BY <1>1, <1>2, <1>5, <1>6, BundlesAssumption DEF Known, Underway
<1>8. Bundle(Pred(at)) = Link(Pred(at))
  BY <1>7 DEF Bundle
<1>9. Verified(Link(Pred(at))) /\ Key(Link(Pred(at))) = Key(at)
  BY <1>4, <1>7, <1>8
<1>10. Link(Pred(at)).object.payload_hash = Chain(at).predecessor_payload_hash
  BY <1>5 DEF Extend
<1>11. LinkFault(at) = "none"
  BY <1>5, <1>9, <1>10 DEF LinkFault, KeyFault
<1>12. Chain(at).predecessor_payload_hash # None
  BY <1>1, <1>2, HashIsThere DEF Met
<1> QED
  BY <1>1, <1>6, <1>11, <1>12 DEF Fault

\* Every iteration keeps CInv.
LEMMA StepCInv == CInv /\ [Next]_vars => CInv'
<1> SUFFICES ASSUME CInv, [Next]_vars PROVE CInv'
  OBVIOUS
<1>1. IInv'
  BY StepIInv DEF CInv
<1>2. UNCHANGED <<head, predecessors>>
  BY DEF Next, ReachOrigin, Break, Follow, vars
<1>3. CASE Break
  <2>1. status' = "HistoryBroken" /\ UNCHANGED <<head, predecessors>>
    BY <1>3 DEF Break
  <2>2. BrokenIsReal'
    <3>1. ~ \E ids \in SUBSET Known : FullHistory(ids)
      BY <1>3, BreakIsReal
    <3> QED
      BY <3>1, <1>2, SameSupply DEF BrokenIsReal
  <2>3. ExtendsAccepted'
    <3>1. ~ (/\ Acyclic(Known)
             /\ \A b \in {Bundle(i) : i \in Known} :
                   Verified(b) /\ ExtendedBy(b) /\ Key(b) = Key(head))
      BY <1>3, ExtendsHasNoFault
    <3>2. /\ Known' = Known /\ (Acyclic(Known)' <=> Acyclic(Known))
          /\ {Bundle(i) : i \in Known}' = {Bundle(i) : i \in Known}
          /\ \A b : ExtendedBy(b)' <=> ExtendedBy(b)
      BY <1>2, SameSupply
    <3> QED
      BY <3>1, <3>2, <1>2 DEF ExtendsAccepted
  <2> QED
    BY <1>1, <2>1, <2>2, <2>3 DEF CInv
<1>4. CASE Follow
  <2>1. Met'
    BY <1>4, FollowMet
  <2>2. status' = "walking"
    BY <1>4 DEF Follow
  <2> QED
    BY <1>1, <2>1, <2>2 DEF CInv, BrokenIsReal, ExtendsAccepted
<1>5. CASE ReachOrigin
  BY <1>1, <1>5 DEF ReachOrigin, CInv, BrokenIsReal, ExtendsAccepted
<1>6. CASE UNCHANGED vars
  <2>1. status = "walking" => Met'
    BY <1>2, <1>6, SameSupply DEF CInv, Met, vars, Verified, ProofChainFailures, FailIf
  <2>2. BrokenIsReal'
    BY <1>2, <1>6, SameSupply DEF CInv, BrokenIsReal, vars
  <2>3. ExtendsAccepted'
    <3>1. /\ Known' = Known /\ (Acyclic(Known)' <=> Acyclic(Known))
          /\ {Bundle(i) : i \in Known}' = {Bundle(i) : i \in Known}
          /\ \A b : ExtendedBy(b)' <=> ExtendedBy(b)
      BY <1>2, SameSupply
    <3> QED
      BY <3>1, <1>6 DEF CInv, ExtendsAccepted, vars
  <2> QED
    BY <1>1, <1>6, <2>1, <2>2, <2>3 DEF CInv, vars
<1> QED
  BY <1>3, <1>4, <1>5, <1>6 DEF Next

(***************************************************************************)
(* CInv holds at every iteration: the walk never leaves the only history   *)
(* there can be.                                                           *)
(***************************************************************************)
THEOREM WalkComplete == Spec => []CInv
<1> QED
  BY InitCInv, StepCInv, PTL DEF Spec

(***************************************************************************)
(* A history reported broken has no full history in what was supplied,     *)
(* whatever else was supplied with it and in whatever order.               *)
(***************************************************************************)
THEOREM BrokenHistoriesAreReal == Spec => []BrokenIsReal
<1> QED
  BY WalkComplete, PTL DEF CInv

(***************************************************************************)
(* A history made with --from by one key and supplied whole is accepted.   *)
(***************************************************************************)
THEOREM ExtensionsAreAccepted == Spec => []ExtendsAccepted
<1> QED
  BY WalkComplete, PTL DEF CInv
=============================================================================
