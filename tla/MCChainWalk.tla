---------------------------- MODULE MCChainWalk ----------------------------
EXTENDS ChainWalk

\* Three versions, two keys, two lineages.
V1 == "v1"  V2 == "v2"  V3 == "v3"

Three == {V1, V2, V3}

Claim(lineage, pred, hash, delegation) ==
    [lineage_id |-> lineage, predecessor_proof_id |-> pred,
     predecessor_payload_hash |-> hash, key_delegation |-> delegation]

Delegation1 == CreateDelegation("L1", "k1", "k2")
Delegation2 == CreateDelegation("L1", "k2", "k1")

\* Hand-overs that must not count: signed by the new key, for another lineage.
Forged  == [Delegation1 EXCEPT !.signature = Sign("k2", DelegPayload(Delegation1))]
Foreign == CreateDelegation("L2", "k1", "k2")

\* No chain, an origin, successors; successors with a bad or no digest; a
\* version that succeeds itself.
Claims(id) ==
    {None, Claim("L1", None, None, None), Claim("L1", id, id, None)}
    \cup {Claim("L1", p, p, d) : p \in Three \ {id},
              d \in {None, Delegation1, Delegation2, Forged, Foreign}}
    \cup {Claim("L2", p, p, None) : p \in Three \ {id}}
    \cup {Claim(p, p, p, None) : p \in Three \ {id}}
    \cup {Claim("L1", V2, V3, None), Claim("L1", V3, None, None)}

MakeBundle(id, key, chain, intact) ==
    [object |-> [object_id |-> id, payload_hash |-> id, proof_chain |-> chain],
     creator_key |-> key, intact |-> intact]

Versions(id) ==
    {MakeBundle(id, k, c, TRUE) : k \in {"k1", "k2"}, c \in Claims(id)}
    \cup {MakeBundle(id, "k1", None, FALSE)}

\* What the first version may be: an end of the history or part of a circle.
First(id) ==
    {b \in Versions(id) :
        /\ b.object.proof_chain \in
              {None, Claim("L1", None, None, None)}
              \cup {Claim("L1", p, p, None) : p \in Three}}

\* The head is the third version; its id may be among the links too.
AllBundles == UNION {Versions(id) : id \in Three}
AllHeads   == Versions(V3)

Damaged == MakeBundle(V2, "k1", None, FALSE)

\* Nothing; one link; two in either order; a damaged duplicate before or
\* behind the second version; the head's own id first.
AllSupplies ==
    {<<>>} \cup {<<b>> : b \in Versions(V2)}
    \cup {<<a, b>> : a \in First(V1), b \in Versions(V2)}
    \cup {<<b, Damaged>> : b \in Versions(V2)}
    \cup {<<Damaged, b>> : b \in Versions(V2)}
    \cup {<<MakeBundle(V3, "k1", None, TRUE), b>> : b \in Versions(V2)}
=============================================================================
