----------------------------- MODULE SealLedger -----------------------------
(***************************************************************************)
(* What a registry promises, without files, processes or crashes: a ledger *)
(* of sealed objects that only grows, in which every object was recorded   *)
(* after all its parents, and of which some objects have been acknowledged *)
(* to whoever asked for the seal.  Neither is ever taken back.             *)
(***************************************************************************)
CONSTANT Objects

VARIABLES
    ledger,     \* the ids of the objects on record
    lineage,    \* their parents
    acked       \* the ids whose seal was answered with success

vars == <<ledger, lineage, acked>>

Init == ledger = {} /\ lineage = <<>> /\ acked = {}

\* An object is recorded once, on top of parents that are on record.
Record(o, parents) ==
    /\ o \notin ledger
    /\ parents \subseteq ledger
    /\ ledger' = ledger \cup {o}
    /\ lineage' = [x \in ledger' |-> IF x = o THEN parents ELSE lineage[x]]
    /\ acked' = acked

Acknowledge(o) ==
    /\ o \in ledger \ acked
    /\ acked' = acked \cup {o}
    /\ UNCHANGED <<ledger, lineage>>

Next ==
    \/ \E o \in Objects, parents \in SUBSET Objects : Record(o, parents)
    \/ \E o \in Objects : Acknowledge(o)

Spec == Init /\ [][Next]_vars
=============================================================================
