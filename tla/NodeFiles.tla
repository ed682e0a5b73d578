------------------------------ MODULE NodeFiles ------------------------------
(***************************************************************************)
(* The three files of a node directory that are rewritten whole: node.json *)
(* (the node's keys), win-identity.json (the identity that authorizes      *)
(* transitions) and trusted_keys.json (whom a receiver trusts).  The       *)
(* handlers of `window-api` run concurrently in the desktop process, the   *)
(* commands of `win` in processes of their own; none of them takes a lock. *)
(*                                                                         *)
(* std::fs::write truncates the file before it writes, so a call is read,  *)
(* truncate, write, and a reader in between finds a file that does not     *)
(* parse.  Two writers that both truncated first write over one another:   *)
(* the later one wins or, if it is the shorter, leaves a tail of the other *)
(* behind it.                                                              *)
(***************************************************************************)
EXTENDS IdentityLadder, Functions

CONSTANTS
    Calls,       \* handler calls and commands; the key a call generates is its own name
    Friends,     \* keys a receiver may decide to trust
    Names,       \* names a user may claim
    Artifacts,   \* what verify is given: <<key, sequence of assertions>>
    FirstTrust,  \* trust lists a user may have written by hand before
    Faults       \* which of "io", "kill" may happen

Surfaces == {"desktop", "cli"}
Files    == {"identity", "trust", "node"}

Entries == [key : Friends, revoked : BOOLEAN, official : BOOLEAN]

ASSUME NodeFilesAssumption ==
    /\ None \notin Calls /\ None \notin Friends /\ None \notin Names
    /\ None \notin {"ok", "error"} /\ None \notin [creator : Calls]
    /\ FirstTrust \subseteq SUBSET Entries
    /\ Faults \subseteq {"io", "kill"}

VARIABLES
    file,       \* file[f] = [is |-> its state, doc |-> what it says]
    task,       \* what each call was asked to do; None before it starts
    pc,         \* where it is: "create"/"creating" write a file that was missing
    buf,        \* the document it is about to write
    key,        \* the key it works with
    answer,     \* what its caller was told: "ok", "error"; None before
    result,     \* creator of the object a call result, identity status it reported
    disturbed,  \* history: files on which calls raced or a write failed
    promise     \* history: what was acknowledged last of the name and of each friend

vars == <<file, task, pc, buf, key, answer, result, disturbed, promise>>

(***************************************************************************)
(* What a call can be asked.  "use" is GET /identity, /transition/summarize*)
(* and /transition/publish (Roles::persistent) or `win summarize`; "start" *)
(* is the desktop process, "seal" is `win seal`.                           *)
(***************************************************************************)
Tasks ==
    [kind : {"use"}, by : Surfaces]
    \cup [kind : {"rename"}, by : {"desktop"}, name : Names]
    \cup [kind : {"add", "remove"}, by : Surfaces, key : Friends]
    \cup [kind : {"verify"}, by : Surfaces, artifact : Artifacts]
    \cup [kind : {"start"}, by : {"desktop"}] \cup [kind : {"seal"}, by : {"cli"}]

ASSUME TasksAssumption ==
    /\ None \notin Tasks
    /\ \A x \in Artifacts : x[2] \in Seq(Range(x[2]))

FileOf(t) ==
    CASE t.kind \in {"use", "rename"}           -> "identity"
      [] t.kind \in {"add", "remove", "verify"} -> "trust"
      [] t.kind \in {"start", "seal"}           -> "node"

Active(c) == pc[c] \notin {"idle", "done", "dead"}

On(f) == {c \in Calls : Active(c) /\ FileOf(task[c]) = f}

Init ==
    /\ \E list \in FirstTrust :
          /\ file = [f \in Files |-> IF f = "trust" /\ list # {}
                                     THEN [is |-> "whole", doc |-> [keys |-> list]]
                                     ELSE [is |-> "missing", doc |-> None]]
          /\ promise = [name    |-> None,
                        trusted |-> {e.key : e \in {x \in list : ~ x.revoked}}]
    /\ task = [c \in Calls |-> None]
    /\ pc = [c \in Calls |-> "idle"]
    /\ buf = [c \in Calls |-> None]
    /\ key = [c \in Calls |-> None]
    /\ answer = [c \in Calls |-> None]
    /\ result = [c \in Calls |-> None]
    /\ disturbed = {}
-----------------------------------------------------------------------------
(***************************************************************************)
(* Reading.  Whatever is not a whole document reads as the default: no     *)
(* identity, nobody trusted.                                               *)
(***************************************************************************)
ReadIdentity ==
    IF file["identity"].is = "whole" THEN file["identity"].doc
    ELSE [key |-> None, name |-> None]

TrustStoreLoad == IF file["trust"].is = "whole" THEN file["trust"].doc.keys ELSE {}

IsTrusted(list, k) == \E e \in list : e.key = k /\ ~ e.revoked

TrustedBy(list) == {k \in Friends : IsTrusted(list, k)}

\* Variants of add: a new entry is an official one; a revoked one is revived.
TrustStoreAdd_Official(list, k) ==
    IF IsTrusted(list, k) THEN list
    ELSE list \cup {[key |-> k, revoked |-> FALSE, official |-> TRUE]}

TrustStoreAdd(list, k) ==
    IF IsTrusted(list, k) THEN list
    ELSE list \cup {[key |-> k, revoked |-> FALSE, official |-> FALSE]}

\* Variant of remove: the entry stays, as long as it is revoked.
TrustStoreRemove_FirstOnly(list, k) ==
    {e \in list : e.key # k \/ (~ e.revoked /\ \E d \in list : d.key = k /\ d.revoked)}

TrustStoreRemove(list, k) == {e \in list : e.key # k}

(***************************************************************************)
(* A call that reads a file another call has truncated and not yet         *)
(* written, or truncates one that another call has read and is not done    *)
(* with, has disturbed that file.                                          *)
(***************************************************************************)
Writing == {"creating", "write"}

HalfWritten(f) == \E c \in Calls : pc[c] \in Writing /\ FileOf(task[c]) = f

Noting(f, race) == disturbed' = IF race THEN disturbed \cup {f} ELSE disturbed

Idle(c, t) == pc[c] = "idle" /\ t \in Tasks /\ task' = [task EXCEPT ![c] = t]

Goto(c, step) == pc' = [pc EXCEPT ![c] = step]

Finish(c, how) ==
    /\ Goto(c, "done")
    /\ answer' = [answer EXCEPT ![c] = how]
-----------------------------------------------------------------------------
(***************************************************************************)
(* load_or_create_identity.  The desktop keeps the name it read when it    *)
(* makes a key, the command line writes a document of its own.             *)
(***************************************************************************)
NewIdentity(c, t) ==
    [key |-> c, name |-> IF t.by = "desktop" THEN ReadIdentity.name ELSE None]

LoadIdentity(c, t) ==
    LET stored == ReadIdentity
    IN  /\ Idle(c, t)
        /\ t.kind \in {"use", "rename"}
        /\ Noting("identity", HalfWritten("identity"))
        /\ IF stored.key # None
           THEN /\ key' = [key EXCEPT ![c] = stored.key]
                /\ IF t.kind = "use" THEN Finish(c, "ok")
                                     ELSE Goto(c, "reread") /\ UNCHANGED answer
                /\ UNCHANGED buf
           ELSE /\ key' = [key EXCEPT ![c] = c]
                /\ buf' = [buf EXCEPT ![c] = NewIdentity(c, t)]
                /\ Goto(c, "create")
                /\ UNCHANGED answer
        /\ UNCHANGED <<file, result, promise>>

\* Variant: set_identity builds the document from what it was sent alone.
RereadIdentity_Blank(c) ==
    /\ pc[c] = "reread"
    /\ buf' = [buf EXCEPT ![c] = [key |-> None, name |-> task[c].name]]
    /\ Noting("identity", HalfWritten("identity"))
    /\ Goto(c, "open")
    /\ UNCHANGED <<file, task, key, answer, result, promise>>

\* set_identity reads the file a second time and changes the name in it.
RereadIdentity(c) ==
    /\ pc[c] = "reread"
    /\ buf' = [buf EXCEPT ![c] = [ReadIdentity EXCEPT !.name = task[c].name]]
    /\ Noting("identity", HalfWritten("identity"))
    /\ Goto(c, "open")
    /\ UNCHANGED <<file, task, key, answer, result, promise>>
-----------------------------------------------------------------------------
(***************************************************************************)
(* add_trust, remove_trust and `win trust`.  The handlers save whether or  *)
(* not the list changed, the commands only if it did.                      *)
(***************************************************************************)
Changed(t) ==
    LET list == TrustStoreLoad
    IN  IF t.kind = "add" THEN TrustStoreAdd(list, t.key) ELSE TrustStoreRemove(list, t.key)

Promised(t) ==
    IF t.kind = "add" THEN [promise EXCEPT !.trusted = @ \cup {t.key}]
                      ELSE [promise EXCEPT !.trusted = @ \ {t.key}]

ChangeTrust(c, t) ==
    /\ Idle(c, t)
    /\ t.kind \in {"add", "remove"}
    /\ Noting("trust", HalfWritten("trust"))
    /\ IF t.by = "desktop" \/ Changed(t) # TrustStoreLoad
       THEN /\ buf' = [buf EXCEPT ![c] = [keys |-> Changed(t)]]
            /\ Goto(c, "open")
            /\ UNCHANGED <<answer, promise>>
       ELSE /\ Finish(c, "ok")
            /\ promise' = Promised(t)
            /\ UNCHANGED buf
    /\ UNCHANGED <<file, key, result>>

\* verify, inspect and the handlers that report a transition: who signed it,
\* as far as this receiver's list and the artifact's assertions tell.
VerifyArtifact(c, t) ==
    /\ Idle(c, t)
    /\ t.kind = "verify"
    /\ Noting("trust", HalfWritten("trust"))
    /\ Finish(c, "ok")
    /\ result' = [result EXCEPT ![c] =
                     ResolveIdentity(t.artifact[1], t.artifact[2], TrustedBy(TrustStoreLoad))]
    /\ UNCHANGED <<file, buf, key, promise>>
-----------------------------------------------------------------------------
(***************************************************************************)
(* ensure_node of the command line and of the desktop, load_registry, and  *)
(* the second read of node.json in win_file.  A file that exists but does  *)
(* not parse ends the process.                                             *)
(***************************************************************************)
\* The node.json of a new node: its keys, named by the call that draws them.
NewNode(c) == [creator |-> c]

\* Variant: a node.json that does not parse is one that is not there.
EnsureNode_Unreadable(c, t) ==
    /\ Idle(c, t)
    /\ t.kind \in {"start", "seal"}
    /\ IF file["node"].is = "whole"
       THEN Goto(c, "load") /\ UNCHANGED <<buf, key>>
       ELSE /\ Goto(c, "create")
            /\ buf' = [buf EXCEPT ![c] = NewNode(c)]
            /\ key' = [key EXCEPT ![c] = c]
    /\ UNCHANGED <<file, answer, result, disturbed, promise>>

EnsureNode(c, t) ==
    /\ Idle(c, t)
    /\ t.kind \in {"start", "seal"}
    /\ IF file["node"].is # "missing"
       THEN Goto(c, "load") /\ UNCHANGED <<buf, key>>
       ELSE /\ Goto(c, "create")
            /\ buf' = [buf EXCEPT ![c] = NewNode(c)]
            /\ key' = [key EXCEPT ![c] = c]
    /\ UNCHANGED <<file, answer, result, disturbed, promise>>

LoadRegistry(c) ==
    /\ pc[c] = "load"
    /\ Noting("node", HalfWritten("node"))
    /\ IF file["node"].is # "whole" THEN Finish(c, "error") /\ UNCHANGED key
       ELSE /\ key' = [key EXCEPT ![c] = file["node"].doc.creator]
            /\ Goto(c, IF task[c].by = "cli" THEN "config" ELSE "running")
            /\ UNCHANGED answer
    /\ UNCHANGED <<file, task, buf, result, promise>>

\* win_file names the creator it reads; the registry knows the one it loaded.
WinFile(c) ==
    /\ pc[c] = "config"
    /\ Noting("node", HalfWritten("node"))
    /\ IF file["node"].is = "whole" /\ file["node"].doc.creator = key[c]
       THEN Finish(c, "ok") /\ result' = [result EXCEPT ![c] = key[c]]
       ELSE Finish(c, "error") /\ UNCHANGED result
    /\ UNCHANGED <<file, task, buf, key, promise>>

\* A seal in the desktop process, with the keys it loaded when it started.
DesktopSeal(c) ==
    /\ pc[c] = "running"
    /\ Finish(c, "ok")
    /\ result' = [result EXCEPT ![c] = key[c]]
    /\ UNCHANGED <<file, task, buf, key, disturbed, promise>>
-----------------------------------------------------------------------------
(***************************************************************************)
(* std::fs::write, and what a call does next: use and rename ignore its    *)
(* result, the trust command of `win` reports it, a first run of a node    *)
(* panics on an error.                                                     *)
(***************************************************************************)
Truncate(c) ==
    LET f == FileOf(task[c])
    IN  /\ pc[c] \in {"create", "open"}
        /\ file' = [file EXCEPT ![f] = [is |-> "empty", doc |-> None]]
        /\ Noting(f, On(f) # {c})
        /\ Goto(c, IF pc[c] = "create" THEN "creating" ELSE "write")
        /\ UNCHANGED <<task, buf, key, answer, result, promise>>

\* What the write of a document leaves, over what others wrote since the
\* file was truncated.
AfterWrite(content, doc) ==
    {[is |-> "whole", doc |-> doc]}
    \cup IF content.is = "empty" \/ content.doc = doc THEN {}
         ELSE {[is |-> "garbled", doc |-> None]}

\* Variant: whoever made a key reads the identity again.
Created_Rereads(c, ok) ==
    /\ Goto(c, "reread")
    /\ UNCHANGED <<answer, promise>>

\* A rename that made the key goes on to read the file again; a first run
\* of `win` seals with the keys it made, the desktop loads them back.
Created(c, ok) ==
    LET t == task[c]
    IN  /\ UNCHANGED promise
        /\ CASE t.kind = "use"    -> Finish(c, "ok")
             [] t.kind = "rename" -> Goto(c, "reread") /\ UNCHANGED answer
             [] t.kind = "start" /\ ok -> Goto(c, "load") /\ UNCHANGED answer
             [] t.kind = "seal" /\ ok  -> Goto(c, "config") /\ UNCHANGED answer
             [] t.kind \in {"start", "seal"} /\ ~ ok -> Finish(c, "error")

Rewritten(c, ok) ==
    LET t == task[c]
    IN  IF t.by = "cli" /\ ~ ok THEN Finish(c, "error") /\ UNCHANGED promise
        ELSE /\ Finish(c, "ok")
             /\ promise' = IF t.kind = "rename" THEN [promise EXCEPT !.name = t.name]
                           ELSE Promised(t)

Written(c, ok) ==
    IF pc[c] \in {"create", "creating"} THEN Created(c, ok) ELSE Rewritten(c, ok)

Write(c) ==
    LET f == FileOf(task[c])
    IN  /\ pc[c] \in Writing
        /\ \E content \in AfterWrite(file[f], buf[c]) :
              file' = [file EXCEPT ![f] = content]
        /\ Written(c, TRUE)
        /\ UNCHANGED <<task, buf, key, result, disturbed>>

\* The open fails, or the write after it: none or a part of it is there.
WriteFails(c) ==
    LET f == FileOf(task[c])
    IN  /\ "io" \in Faults
        /\ pc[c] \in {"create", "open"} \cup Writing
        /\ \/ UNCHANGED file
           \/ pc[c] \in Writing /\ file' = [file EXCEPT ![f] = [is |-> "garbled", doc |-> None]]
        /\ disturbed' = disturbed \cup {f}
        /\ Written(c, FALSE)
        /\ UNCHANGED <<task, buf, key, result>>

(***************************************************************************)
(* A process dies with all its calls: a command, or the desktop.           *)
(***************************************************************************)
Die(victims) ==
    LET writers == {v \in victims : pc[v] \in Writing}
    IN
    /\ victims # {}
    /\ pc' = [c \in Calls |-> IF c \in victims THEN "dead" ELSE pc[c]]
    /\ file' \in {[f \in Files |->
                      IF f \in torn THEN [is |-> "garbled", doc |-> None] ELSE file[f]] :
                  torn \in SUBSET {FileOf(task[c]) : c \in writers}}
    /\ disturbed' = disturbed \cup {FileOf(task[c]) : c \in writers}
    /\ UNCHANGED <<task, buf, key, answer, result, promise>>

Kill ==
    /\ "kill" \in Faults
    /\ \/ \E c \in Calls : Active(c) /\ task[c].by = "cli" /\ Die({c})
       \/ Die({c \in Calls : Active(c) /\ task[c].by = "desktop"})
-----------------------------------------------------------------------------
Step(c) ==
    \/ \E t \in Tasks :
          LoadIdentity(c, t) \/ ChangeTrust(c, t) \/ VerifyArtifact(c, t) \/ EnsureNode(c, t)
    \/ RereadIdentity(c)
    \/ LoadRegistry(c) \/ WinFile(c) \/ DesktopSeal(c)
    \/ Truncate(c) \/ Write(c) \/ WriteFails(c)

Next == Kill \/ \E c \in Calls : Step(c)

Spec == Init /\ [][Next]_vars
=============================================================================
