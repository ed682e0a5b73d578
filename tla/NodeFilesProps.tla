--------------------------- MODULE NodeFilesProps ---------------------------
(***************************************************************************)
(* What must hold of the files of a node directory, over the state machine *)
(* of module NodeFiles.                                                    *)
(***************************************************************************)
EXTENDS NodeFiles

Identities == [key : Calls \cup {None}, name : Names \cup {None}]

Documents(f) ==
    CASE f = "identity" -> Identities
      [] f = "trust"    -> [keys : SUBSET Entries]
      [] f = "node"     -> [creator : Calls]

\* Where a call of a kind can be.
Places(kind) ==
    {"done", "dead"} \cup
    CASE kind = "use"               -> {"create", "creating"}
      [] kind = "rename"            -> {"create", "creating", "reread", "open", "write"}
      [] kind \in {"add", "remove"} -> {"open", "write"}
      [] kind = "verify"            -> {}
      [] kind = "start"             -> {"create", "creating", "load", "running"}
      [] kind = "seal"              -> {"create", "creating", "load", "config"}

Statuses ==
    [rung : {"NotEstablished", "ConsistentActor", "SelfAsserted", "Trusted"},
     name : {None} \cup {a.name : a \in UNION {Range(x[2]) : x \in Artifacts}}]

\* What a file holds or is about to hold.
Pending(f) ==
    {buf[c] : c \in {d \in Calls : Active(d) /\ FileOf(task[d]) = f /\ buf[d] # None}}

Contents(f) ==
    Pending(f) \cup IF file[f].is = "whole" THEN {file[f].doc} ELSE {}

Calm(f) == f \notin disturbed

\* The calls that work on a file; the first runs, which found no node.json and
\* drew keys; and those calls that ended before they were done.
About(c, f) == task[c] # None /\ FileOf(task[c]) = f

Makers == {c \in Calls : About(c, "node") /\ buf[c] # None}

OneMaker == \A c, d \in Makers : c = d

BrokenOff(c) == pc[c] = "dead" \/ answer[c] = "error"

MakesNode(c) == pc[c] = "idle" /\ About(c, "node")' /\ pc'[c] = "create"
Seals(c)     == About(c, "node") /\ result'[c] # result[c]
Refused(c)   == About(c, "node") /\ answer[c] = None /\ answer'[c] = "error"

Asked(kind, k) == \E c \in Calls : /\ task[c] # None
                                   /\ task[c].kind = kind
                                   /\ task[c].key = k

\* The user put this key in the list, by hand or with a command.
Chosen(k) == Asked("add", k) \/ \E list \in FirstTrust : IsTrusted(list, k)
-----------------------------------------------------------------------------
(***************************************************************************)
(* Type correctness of the node's files and of the calls.                  *)
(***************************************************************************)
TypeOK ==
    /\ \A f \in Files :
          \/ file[f].is \in {"missing", "empty", "garbled"} /\ file[f].doc = None
          \/ file[f].is = "whole" /\ file[f].doc \in Documents(f)
    /\ task \in [Calls -> Tasks \cup {None}]
    /\ \A c \in Calls : pc[c] # "idle" => task[c] # None /\ pc[c] \in Places(task[c].kind)
    /\ \A c \in Calls : pc[c] \in {"create", "creating", "open", "write"} =>
          buf[c] \in Documents(FileOf(task[c]))
    /\ key \in [Calls -> Calls \cup {None}]
    /\ result \in [Calls -> Calls \cup Statuses \cup {None}]
    /\ disturbed \subseteq Files
    /\ promise \in [name : Names \cup {None}, trusted : SUBSET Friends]

(***************************************************************************)
(* Nobody is trusted whom the user did not choose, and no trust is official*)
(* that the user did not make so by hand: not by a revoked entry that comes*)
(* back, a half-written list, a lost update or a failed write.  (The trust *)
(* stores of the desktop and of the command line over one file.)           *)
(***************************************************************************)
TrustIsChosen ==
    \A store \in Contents("trust") : \A e \in store.keys :
        ~ e.revoked =>
            /\ Chosen(e.key)
            /\ e.official => \E first \in FirstTrust : e \in first

(***************************************************************************)
(* A receiver is told a rung that is earned: "trusted" only for a key its  *)
(* own user chose, a name only if the key itself signed it, and a          *)
(* persistent actor only if the key said so of itself.                     *)
(***************************************************************************)
RungIsEarned ==
    \A c \in Calls :
        task[c] # None /\ task[c].kind = "verify" /\ pc[c] = "done" =>
            LET k      == task[c].artifact[1]
                signed == {a \in Range(task[c].artifact[2]) :
                              a.signature = AssertIdentity(k, a.name, a.persistence).signature}
            IN  CASE result[c].rung = "Trusted"         -> Chosen(k)
                  [] result[c].rung = "SelfAsserted"    -> \E a \in signed : a.name = result[c].name
                  [] result[c].rung = "ConsistentActor" -> \E a \in signed : a.persistence = "Persistent"
                  [] OTHER                              -> TRUE

(***************************************************************************)
(* The authorizing identity is lost or renamed only by calls that overlap  *)
(* or by a write that fails: as long as no two calls met on the file, every*)
(* key that was used is the stored one, and the name is the one the user   *)
(* set last, whichever of the two surfaces made the identity.              *)
(***************************************************************************)
IdentityKept ==
    Calm("identity") =>
        /\ \A c \in Calls :
              answer[c] = "ok" /\ task[c].kind \in {"use", "rename"} =>
                  \A d \in Contents("identity") : d.key = key[c]
        /\ \A c \in Calls :
              answer[c] = "ok" /\ task[c].kind \in {"use", "rename"} =>
                  file["identity"].is # "missing"
        /\ file["identity"].is = "whole" => file["identity"].doc.name = promise.name

(***************************************************************************)
(* The same of the trust list: without an overlap or a failed write, whom  *)
(* the list trusts is what was acknowledged last of each key, whichever of *)
(* the two surfaces changed it.                                            *)
(***************************************************************************)
TrustKept ==
    /\ Calm("trust") /\ file["trust"].is # "empty" => TrustedBy(TrustStoreLoad) = promise.trusted
    /\ Calm("trust") /\ file["trust"].is = "empty" => HalfWritten("trust")

(***************************************************************************)
(* There is one node in a directory, and whoever can lose it: a run makes  *)
(* keys of its own only while every other that did so has not yet opened   *)
(* node.json or was broken off, and never once an object was sealed in the *)
(* directory. Unless two runs made keys in that window, every object is    *)
(* sealed under the keys that are stored, also by a process that loaded    *)
(* them long before, and a run fails to start only by its own write, or    *)
(* while the first run writes, or once that was broken off: what it then   *)
(* leaves no later run can load.                                           *)
(***************************************************************************)
NodeKept ==
    [][\A c \in Calls :
          /\ MakesNode(c) => /\ \A d \in Makers : pc[d] = "create" \/ BrokenOff(d)
                             /\ \A d \in Calls : About(d, "node") => answer[d] # "ok"
          /\ Seals(c) /\ OneMaker =>
                file["node"].is = "whole" /\ file["node"].doc.creator = result'[c]
          /\ Refused(c) /\ OneMaker =>
                \/ pc[c] \in {"create", "creating"}
                \/ \E d \in Makers : pc[d] = "creating" \/ BrokenOff(d)]_vars
=============================================================================
