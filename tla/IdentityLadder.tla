--------------------------- MODULE IdentityLadder ---------------------------
(***************************************************************************)
(* The identity ladder of `win-transition`: which rung a receiver reports  *)
(* for a signing key, given the assertions an artifact carries and the     *)
(* receiver's own list of trusted keys.  Operators only.                   *)
(*                                                                         *)
(* An assertion is a record [key, name, persistence, signature]; as in     *)
(* module Verifier a signature is the pair of a key and a content.  The    *)
(* context and the date of an assertion are signed with it and decide      *)
(* nothing, so they are left out, as is the label a trusted key has in the *)
(* list.                                                                   *)
(***************************************************************************)
EXTENDS Verifier, Sequences

Persistences == {"Ephemeral", "Persistent"}

IdentityPayload(a) == [key |-> a.key, name |-> a.name, persistence |-> a.persistence]

AssertIdentity(key, name, persistence) ==
    [key |-> key, name |-> name, persistence |-> persistence,
     signature |-> Sign(key, [key |-> key, name |-> name, persistence |-> persistence])]

\* Variant: the signature of an assertion is not checked.
VerifyIdentityAssertion_Unsigned(a) == TRUE

VerifyIdentityAssertion(a) == SignatureOK(a.key, IdentityPayload(a), a.signature)

(***************************************************************************)
(* resolve_identity.  The first assertion that names the key and is signed *)
(* by it decides; a trusted key needs none.                                *)
(***************************************************************************)
Counts(a, key) == a.key = key /\ VerifyIdentityAssertion(a)

FirstAssertion(key, identities) ==
    LET counting == {i \in DOMAIN identities : Counts(identities[i], key)}
    IN  IF counting = {} THEN None
        ELSE identities[CHOOSE i \in counting : \A j \in counting : i <= j]

NotEstablished == [rung |-> "NotEstablished", name |-> None]

ResolveIdentity(key, identities, trusted) ==
    LET a == FirstAssertion(key, identities)
    IN  CASE key \in trusted              -> [rung |-> "Trusted", name |-> None]
          [] key \notin trusted /\ a = None -> NotEstablished
          [] key \notin trusted /\ a # None ->
                IF a.name # None THEN [rung |-> "SelfAsserted", name |-> a.name]
                ELSE IF a.persistence = "Persistent"
                     THEN [rung |-> "ConsistentActor", name |-> None]
                     ELSE NotEstablished

\* The rungs in the order of what they claim.
Height(status) ==
    CASE status.rung = "NotEstablished"  -> 0
      [] status.rung = "ConsistentActor" -> 1
      [] status.rung = "SelfAsserted"    -> 2
      [] status.rung = "Trusted"         -> 3
=============================================================================
