-------------------------- MODULE NodeFilesProofs --------------------------
(***************************************************************************)
(* The files of a node, for any calls, faults and interleaving: the types, *)
(* that nobody comes to be trusted whom the user did not choose, and that  *)
(* a receiver is told no rung that is not earned.                          *)
(***************************************************************************)
EXTENDS NodeFilesProps, WellFoundedInduction, TLAPS

(***************************************************************************)
(* What a task carries, by its kind.                                       *)
(***************************************************************************)
LEMMA TaskFields ==
    ASSUME NEW t \in Tasks
    PROVE  /\ t.kind \in {"use", "rename", "add", "remove", "verify", "start", "seal"}
           /\ t.kind = "rename" => t.name \in Names
           /\ t.kind \in {"add", "remove"} => t.key \in Friends
           /\ t.kind = "verify" => t.artifact \in Artifacts
           /\ t.kind = "start" => t.by = "desktop"
           /\ t.kind = "seal" => t.by = "cli"
           /\ t # None
  BY TasksAssumption DEF Tasks

\* Each kind of call is about one file, and can be in a few places.
LEMMA KindFacts ==
    ASSUME NEW t
    PROVE  /\ t.kind \in {"use", "rename"} =>
                FileOf(t) = "identity" /\ Documents(FileOf(t)) = Identities
           /\ t.kind \in {"add", "remove", "verify"} =>
                FileOf(t) = "trust" /\ Documents(FileOf(t)) = [keys : SUBSET Entries]
           /\ t.kind \in {"start", "seal"} =>
                FileOf(t) = "node" /\ Documents(FileOf(t)) = [creator : Calls]
  BY DEF FileOf, Documents

\* The places of each kind, one by one.
LEMMA PlaceFacts ==
    /\ Places("use") = {"done", "dead", "create", "creating"}
    /\ Places("rename") = {"done", "dead", "create", "creating", "reread", "open", "write"}
    /\ Places("add") = {"done", "dead", "open", "write"}
    /\ Places("remove") = {"done", "dead", "open", "write"}
    /\ Places("verify") = {"done", "dead"}
    /\ Places("start") = {"done", "dead", "create", "creating", "load", "running"}
    /\ Places("seal") = {"done", "dead", "create", "creating", "load", "config"}
  BY DEF Places

(***************************************************************************)
(* The ladder.  The first of the assertions that count is one of them, so  *)
(* the rung is that of a trusted key or of something the key signed.       *)
(***************************************************************************)
LEMMA FirstOne ==
    ASSUME NEW S \in SUBSET Nat, S # {}
    PROVE  \E n \in S : \A m \in S : n <= m
<1>1. PICK n \in S : \A m \in S : ~ (<<m, n>> \in OpToRel(<, Nat))
  BY WFMin, NatLessThanWellFounded
<1>2. \A m \in S : <<m, n>> \in Nat \X Nat
  OBVIOUS
<1>3. \A m \in S : ~ (m < n)
  BY <1>1, <1>2 DEF OpToRel
<1> QED
  BY <1>3

\* The assertion that is found is in the artifact and counts.
LEMMA FirstAssertionCounts ==
    ASSUME NEW k, NEW A, NEW identities \in Seq(A), FirstAssertion(k, identities) # None
    PROVE  \E i \in DOMAIN identities : /\ FirstAssertion(k, identities) = identities[i]
                                        /\ Counts(identities[i], k)
<1> DEFINE counting == {i \in DOMAIN identities : Counts(identities[i], k)}
           n == CHOOSE i \in counting : \A j \in counting : i <= j
<1>1. counting # {} /\ FirstAssertion(k, identities) = identities[n]
  BY DEF FirstAssertion
<1>2. counting \in SUBSET Nat
  OBVIOUS
<1>3. n \in counting
  <2> HIDE DEF counting
  <2>1. \E i \in counting : \A j \in counting : i <= j
    BY <1>1, <1>2, FirstOne
  <2> QED
    BY <2>1
<1> HIDE DEF n
<1> QED
  BY <1>1, <1>3

Earned(x, status, trusted) ==
    LET signed == {a \in Range(x[2]) :
                      a.signature = AssertIdentity(x[1], a.name, a.persistence).signature}
    IN  CASE status.rung = "Trusted"         -> x[1] \in trusted
          [] status.rung = "SelfAsserted"    -> \E a \in signed : a.name = status.name
          [] status.rung = "ConsistentActor" -> \E a \in signed : a.persistence = "Persistent"
          [] OTHER                           -> TRUE

\* A status is one of the ladder's, and its rung is earned.
LEMMA LadderEarned ==
    ASSUME NEW x \in Artifacts, NEW trusted
    PROVE  /\ ResolveIdentity(x[1], x[2], trusted) \in Statuses
           /\ Earned(x, ResolveIdentity(x[1], x[2], trusted), trusted)
<1> DEFINE k == x[1]
           a == FirstAssertion(k, x[2])
           status == ResolveIdentity(k, x[2], trusted)
<1>1. ASSUME a # None
      PROVE  /\ a \in Range(x[2]) /\ a.name \in {b.name : b \in Range(x[2])}
             /\ a.signature = AssertIdentity(k, a.name, a.persistence).signature
  <2>1. PICK i \in DOMAIN x[2] : a = x[2][i] /\ Counts(x[2][i], k)
    BY <1>1, FirstAssertionCounts, TasksAssumption
  <2> QED
    BY <2>1 DEF Range, Counts, VerifyIdentityAssertion, SignatureOK, IdentityPayload,
                AssertIdentity
<1> HIDE DEF k, a
<1>2. CASE k \in trusted
  <2>1. status = [rung |-> "Trusted", name |-> None]
    BY <1>2 DEF ResolveIdentity, a
  <2> QED
    BY <2>1, <1>2 DEF Statuses, Earned, k
<1>3. CASE k \notin trusted /\ (a = None \/ (a.name = None /\ a.persistence # "Persistent"))
  <2>1. status = NotEstablished
    BY <1>3 DEF ResolveIdentity, a
  <2> QED
    BY <2>1 DEF Statuses, Earned, NotEstablished, k
<1>4. CASE k \notin trusted /\ a # None /\ a.name # None
  <2>1. status = [rung |-> "SelfAsserted", name |-> a.name]
    BY <1>4 DEF ResolveIdentity, a
  <2>2. status \in Statuses
    BY <2>1, <1>1, <1>4 DEF Statuses
  <2>3. Earned(x, status, trusted)
    BY <2>1, <1>1, <1>4 DEF Earned, k
  <2> QED
    BY <2>2, <2>3 DEF k
<1>5. CASE k \notin trusted /\ a # None /\ a.name = None /\ a.persistence = "Persistent"
  <2>1. status = [rung |-> "ConsistentActor", name |-> None]
    BY <1>5 DEF ResolveIdentity, a
  <2>2. Earned(x, status, trusted)
    BY <2>1, <1>1, <1>5 DEF Earned, k
  <2> QED
    BY <2>1, <2>2 DEF Statuses, k
<1> QED
  BY <1>2, <1>3, <1>4, <1>5
-----------------------------------------------------------------------------
(***************************************************************************)
(* The types, made inductive: each variable is a function on its domain,   *)
(* and an idle call has no task yet.                                       *)
(***************************************************************************)
Shape ==
    /\ file = [f \in Files |-> file[f]]
    /\ task = [c \in Calls |-> task[c]]
    /\ pc = [c \in Calls |-> pc[c]]
    /\ buf = [c \in Calls |-> buf[c]]
    /\ key = [c \in Calls |-> key[c]]
    /\ answer = [c \in Calls |-> answer[c]]
    /\ result = [c \in Calls |-> result[c]]

FileOK(f) ==
    \/ file[f].is \in {"missing", "empty", "garbled"} /\ file[f].doc = None
    \/ file[f].is = "whole" /\ file[f].doc \in Documents(f)

CallOK(c) ==
    /\ task[c] \in Tasks \cup {None}
    /\ pc[c] = "idle" => task[c] = None
    /\ pc[c] # "idle" => task[c] # None /\ pc[c] \in Places(task[c].kind)
    /\ pc[c] \in {"create", "creating", "open", "write"} =>
          buf[c] \in Documents(FileOf(task[c]))
    /\ key[c] \in Calls \cup {None}
    /\ result[c] \in Calls \cup Statuses \cup {None}

SharedOK ==
    /\ disturbed \subseteq Files
    /\ promise \in [name : Names \cup {None}, trusted : SUBSET Friends]

Types ==
    /\ Shape
    /\ \A f \in Files : FileOK(f)
    /\ \A c \in Calls : CallOK(c)
    /\ SharedOK

\* Types says what TypeOK says, and more.
LEMMA TypesTypeOK == Types => TypeOK
  BY DEF Types, Shape, FileOK, CallOK, SharedOK, TypeOK

\* Where a call that is under way can be, and what it is about.
LEMMA Underway ==
    ASSUME NEW c \in Calls, CallOK(c), pc[c] \notin {"idle", "done", "dead"}
    PROVE  /\ task[c] \in Tasks /\ FileOf(task[c]) \in Files
           /\ pc[c] \in {"create", "creating"} =>
                task[c].kind \in {"use", "rename", "start", "seal"}
           /\ pc[c] \in {"open", "write"} => task[c].kind \in {"rename", "add", "remove"}
           /\ pc[c] = "reread" => task[c].kind = "rename"
           /\ pc[c] = "load" => task[c].kind \in {"start", "seal"}
           /\ pc[c] = "config" => task[c].kind = "seal"
           /\ pc[c] = "running" => task[c].kind = "start"
<1>1. task[c] \in Tasks /\ pc[c] \in Places(task[c].kind)
  BY DEF CallOK
<1>2. FileOf(task[c]) \in Files
  BY <1>1, TaskFields, KindFacts DEF Files
<1> QED
  BY <1>1, <1>2, TaskFields, PlaceFacts

\* Types holds before any call.
LEMMA InitTypes == Init => Types
<1> SUFFICES ASSUME Init PROVE Types
  OBVIOUS
<1>1. PICK list \in FirstTrust :
        /\ file = [f \in Files |-> IF f = "trust" /\ list # {}
                                   THEN [is |-> "whole", doc |-> [keys |-> list]]
                                   ELSE [is |-> "missing", doc |-> None]]
        /\ promise = [name |-> None, trusted |-> {e.key : e \in {x \in list : ~ x.revoked}}]
  BY DEF Init
<1>2. list \in SUBSET Entries
  BY NodeFilesAssumption
<1>3. \A f \in Files : FileOK(f)
  BY <1>1, <1>2 DEF FileOK, Documents, Files
<1>4. SharedOK
  BY <1>1, <1>2 DEF Init, SharedOK, Entries
<1>5. Shape
  BY <1>1 DEF Init, Shape
<1> QED
  BY <1>3, <1>4, <1>5 DEF Init, Types, CallOK

(***************************************************************************)
(* What a step of one call leaves of the others.                           *)
(***************************************************************************)
Others(c) ==
    \A d \in Calls \ {c} :
        /\ task'[d] = task[d] /\ pc'[d] = pc[d] /\ buf'[d] = buf[d]
        /\ key'[d] = key[d] /\ answer'[d] = answer[d] /\ result'[d] = result[d]

Answered(c) == answer' = answer \/ \E how : answer' = [answer EXCEPT ![c] = how]

\* What is read from the files, and what add and remove make of a list.
LEMMA TrustListTypes ==
    ASSUME Types
    PROVE  /\ TrustStoreLoad \in SUBSET Entries
           /\ \A k \in Friends : /\ TrustStoreAdd(TrustStoreLoad, k) \in SUBSET Entries
                                  /\ TrustStoreRemove(TrustStoreLoad, k) \in SUBSET Entries
           /\ ReadIdentity \in Identities
<1>1. TrustStoreLoad \in SUBSET Entries
  BY KindFacts DEF Types, FileOK, Files, Documents, TrustStoreLoad
<1>2. \A k \in Friends : /\ TrustStoreAdd(TrustStoreLoad, k) \in SUBSET Entries
                         /\ TrustStoreRemove(TrustStoreLoad, k) \in SUBSET Entries
  <2> SUFFICES ASSUME NEW k \in Friends
               PROVE  /\ TrustStoreAdd(TrustStoreLoad, k) \in SUBSET Entries
                      /\ TrustStoreRemove(TrustStoreLoad, k) \in SUBSET Entries
    OBVIOUS
  <2>1. [key |-> k, revoked |-> FALSE, official |-> FALSE] \in Entries
    BY DEF Entries
  <2> QED
    BY <1>1, <2>1 DEF TrustStoreAdd, TrustStoreRemove
<1>3. ReadIdentity \in Identities
  BY DEF Types, FileOK, Files, Documents, ReadIdentity, Identities
<1> QED
  BY <1>1, <1>2, <1>3

(***************************************************************************)
(* The steps that read: what a call takes from the file has its type.      *)
(***************************************************************************)
LEMMA LoadIdentityTypes ==
    ASSUME Types, NEW c \in Calls, NEW t \in Tasks, LoadIdentity(c, t)
    PROVE  Types' /\ Others(c)
<1>1. pc[c] = "idle" /\ task' = [task EXCEPT ![c] = t] /\ t.kind \in {"use", "rename"}
  BY DEF LoadIdentity, Idle
<1>2. /\ file' = file /\ result' = result /\ promise' = promise
      /\ disturbed' \in SUBSET Files
  BY DEF LoadIdentity, Noting, Types, SharedOK, Files
<1>3. NewIdentity(c, t) \in Identities
  BY TrustListTypes DEF NewIdentity, Identities
<1>4. /\ \E k \in Calls : key' = [key EXCEPT ![c] = k]
      /\ buf' = buf \/ buf' = [buf EXCEPT ![c] = NewIdentity(c, t)]
      /\ \E p \in {"done", "reread", "create"} :
            /\ pc' = [pc EXCEPT ![c] = p]
            /\ p = "reread" => t.kind = "rename"
            /\ p = "create" => buf' = [buf EXCEPT ![c] = NewIdentity(c, t)]
      /\ Answered(c)
  <2>1. CASE ReadIdentity.key # None
    <3>1. ReadIdentity.key \in Calls
      BY <2>1, TrustListTypes DEF Identities
    <3> QED
      BY <2>1, <3>1, <1>1 DEF LoadIdentity, Goto, Finish, Answered
  <2>2. CASE ReadIdentity.key = None
    BY <2>2 DEF LoadIdentity, Goto, Answered
  <2> QED
    BY <2>1, <2>2
<1>5. Shape' /\ Others(c)
  BY <1>1, <1>2, <1>4 DEF Types, Shape, Others, Answered
<1>6. CallOK(c)'
  BY <1>1, <1>2, <1>3, <1>4, TaskFields, KindFacts, PlaceFacts DEF Types, Shape, CallOK
<1>7. \A d \in Calls : CallOK(d)'
  BY <1>5, <1>6 DEF Types, CallOK, Others
<1> QED
  BY <1>2, <1>5, <1>7 DEF Types, FileOK, SharedOK

\* set_identity's second read: the document keeps its type.
LEMMA RereadTypes ==
    ASSUME Types, NEW c \in Calls, RereadIdentity(c)
    PROVE  Types' /\ Others(c)
<1>1. task[c] \in Tasks /\ task[c].kind = "rename"
  BY Underway DEF RereadIdentity, Types
<1>2. [ReadIdentity EXCEPT !.name = task[c].name] \in Identities
  BY <1>1, TaskFields, TrustListTypes DEF Identities
<1>3. Shape' /\ Others(c)
  BY DEF RereadIdentity, Goto, Types, Shape, Others
<1>4. CallOK(c)'
  BY <1>1, <1>2, KindFacts, PlaceFacts DEF RereadIdentity, Goto, Types, Shape, CallOK
<1>5. \A d \in Calls : CallOK(d)'
  BY <1>3, <1>4 DEF Types, CallOK, Others
<1>6. SharedOK'
  BY DEF RereadIdentity, Noting, Types, SharedOK, Files
<1> QED
  BY <1>3, <1>5, <1>6 DEF RereadIdentity, Types, FileOK

\* What a command promises of the list is a set of friends.
LEMMA PromisedTypes ==
    ASSUME SharedOK, NEW t \in Tasks, t.kind \in {"add", "remove"}
    PROVE  Promised(t) \in [name : Names \cup {None}, trusted : SUBSET Friends]
  BY TaskFields DEF Promised, SharedOK

\* A change of the list is a list.
LEMMA ChangeTrustTypes ==
    ASSUME Types, NEW c \in Calls, NEW t \in Tasks, ChangeTrust(c, t)
    PROVE  Types' /\ Others(c)
<1>1. /\ pc[c] = "idle" /\ task' = [task EXCEPT ![c] = t] /\ t.kind \in {"add", "remove"}
      /\ file' = file /\ result' = result /\ key' = key
  BY DEF ChangeTrust, Idle
<1>2. [keys |-> Changed(t)] \in [keys : SUBSET Entries]
  BY <1>1, TaskFields, TrustListTypes DEF Changed
<1>3. SharedOK'
  BY <1>1, PromisedTypes DEF ChangeTrust, Noting, Types, SharedOK, Files
<1>4. /\ Answered(c)
      /\ \/ buf' = [buf EXCEPT ![c] = [keys |-> Changed(t)]] /\ pc' = [pc EXCEPT ![c] = "open"]
         \/ buf' = buf /\ pc' = [pc EXCEPT ![c] = "done"]
  BY DEF ChangeTrust, Goto, Finish, Answered
<1>5. Shape' /\ Others(c)
  BY <1>1, <1>4 DEF Types, Shape, Others, Answered
<1>6. CallOK(c)'
  BY <1>1, <1>2, <1>4, TaskFields, KindFacts, PlaceFacts DEF Types, Shape, CallOK
<1>7. \A d \in Calls : CallOK(d)'
  BY <1>5, <1>6 DEF Types, CallOK, Others
<1> QED
  BY <1>1, <1>3, <1>5, <1>7 DEF Types, FileOK

\* A verification tells a status of the ladder.
LEMMA VerifyTypes ==
    ASSUME Types, NEW c \in Calls, NEW t \in Tasks, VerifyArtifact(c, t)
    PROVE  Types' /\ Others(c)
<1>1. /\ pc[c] = "idle" /\ task' = [task EXCEPT ![c] = t] /\ t.kind = "verify"
      /\ file' = file /\ buf' = buf /\ key' = key /\ promise' = promise
      /\ pc' = [pc EXCEPT ![c] = "done"] /\ Answered(c)
  BY DEF VerifyArtifact, Idle, Finish, Goto, Answered
<1>2. PICK status \in Statuses : result' = [result EXCEPT ![c] = status]
  BY <1>1, TaskFields, LadderEarned DEF VerifyArtifact
<1>3. Shape' /\ Others(c)
  BY <1>1, <1>2 DEF Types, Shape, Others, Answered
<1>4. CallOK(c)'
  BY <1>1, <1>2, TaskFields, PlaceFacts DEF Types, Shape, CallOK
<1>5. \A d \in Calls : CallOK(d)'
  BY <1>3, <1>4 DEF Types, CallOK, Others
<1>6. SharedOK'
  BY <1>1 DEF VerifyArtifact, Noting, Types, SharedOK, Files
<1> QED
  BY <1>1, <1>3, <1>5, <1>6 DEF Types, FileOK

(***************************************************************************)
(* The steps of a node's first run and of the runs after it.               *)
(***************************************************************************)
LEMMA EnsureNodeTypes ==
    ASSUME Types, NEW c \in Calls, NEW t \in Tasks, EnsureNode(c, t)
    PROVE  Types' /\ Others(c)
<1>1. /\ pc[c] = "idle" /\ task' = [task EXCEPT ![c] = t] /\ t.kind \in {"start", "seal"}
      /\ file' = file /\ answer' = answer /\ result' = result
      /\ disturbed' = disturbed /\ promise' = promise
  BY DEF EnsureNode, Idle
<1>2. \/ pc' = [pc EXCEPT ![c] = "load"] /\ buf' = buf /\ key' = key
      \/ /\ pc' = [pc EXCEPT ![c] = "create"]
         /\ buf' = [buf EXCEPT ![c] = NewNode(c)] /\ key' = [key EXCEPT ![c] = c]
  BY DEF EnsureNode, Goto
<1>3. NewNode(c) \in [creator : Calls]
  BY DEF NewNode
<1>4. Shape' /\ Others(c)
  BY <1>1, <1>2 DEF Types, Shape, Others
<1>5. CallOK(c)'
  BY <1>1, <1>2, <1>3, TaskFields, KindFacts, PlaceFacts DEF Types, Shape, CallOK
<1>6. \A d \in Calls : CallOK(d)'
  BY <1>4, <1>5 DEF Types, CallOK, Others
<1> QED
  BY <1>1, <1>4, <1>6 DEF Types, FileOK, SharedOK

\* A loaded key is the creator of a node.json.
LEMMA LoadRegistryTypes ==
    ASSUME Types, NEW c \in Calls, LoadRegistry(c)
    PROVE  Types' /\ Others(c)
<1>1. /\ pc[c] = "load" /\ task[c] \in Tasks /\ task[c].kind \in {"start", "seal"}
      /\ file' = file /\ task' = task /\ buf' = buf /\ result' = result /\ promise' = promise
  BY Underway DEF LoadRegistry, Types
<1>2. task[c].by = "cli" <=> task[c].kind = "seal"
  BY <1>1, TaskFields
<1>3. \/ /\ pc' = [pc EXCEPT ![c] = "done"] /\ key' = key
      \/ /\ pc' = [pc EXCEPT ![c] = IF task[c].kind = "seal" THEN "config" ELSE "running"]
         /\ \E k \in Calls : key' = [key EXCEPT ![c] = k]
  <2>1. CASE file["node"].is # "whole"
    BY <2>1 DEF LoadRegistry, Finish, Goto
  <2>2. CASE file["node"].is = "whole"
    <3>1. file["node"].doc.creator \in Calls
      BY <2>2 DEF Types, FileOK, Files, Documents
    <3> QED
      BY <2>2, <3>1, <1>2 DEF LoadRegistry, Goto
  <2> QED
    BY <2>1, <2>2
<1>4. Answered(c)
  BY DEF LoadRegistry, Finish, Answered
<1>5. Shape' /\ Others(c)
  BY <1>1, <1>3, <1>4 DEF Types, Shape, Others, Answered
<1>6. CallOK(c)'
  BY <1>1, <1>3, PlaceFacts DEF Types, Shape, CallOK
<1>7. \A d \in Calls : CallOK(d)'
  BY <1>5, <1>6 DEF Types, CallOK, Others
<1>8. SharedOK'
  BY <1>1 DEF LoadRegistry, Noting, Types, SharedOK, Files
<1> QED
  BY <1>1, <1>5, <1>7, <1>8 DEF Types, FileOK

\* A seal names the key the call holds, or fails.
LEMMA SealTypes ==
    ASSUME Types, NEW c \in Calls, WinFile(c) \/ DesktopSeal(c)
    PROVE  Types' /\ Others(c)
<1>1. /\ pc[c] \in {"config", "running"} /\ task[c] \in Tasks
      /\ file' = file /\ task' = task /\ buf' = buf /\ key' = key /\ promise' = promise
      /\ pc' = [pc EXCEPT ![c] = "done"] /\ Answered(c)
  BY Underway DEF WinFile, DesktopSeal, Finish, Goto, Answered, Types
<1>2. result' = result \/ result' = [result EXCEPT ![c] = key[c]]
  BY DEF WinFile, DesktopSeal
<1>3. Shape' /\ Others(c)
  BY <1>1, <1>2 DEF Types, Shape, Others, Answered
<1>4. CallOK(c)'
  <2>1. "done" \in Places(task[c].kind)
    BY DEF Places
  <2> QED
    BY <1>1, <1>2, <2>1 DEF Types, Shape, CallOK
<1>5. \A d \in Calls : CallOK(d)'
  BY <1>3, <1>4 DEF Types, CallOK, Others
<1>6. SharedOK'
  BY <1>1 DEF WinFile, DesktopSeal, Noting, Types, SharedOK, Files
<1> QED
  BY <1>1, <1>3, <1>5, <1>6 DEF Types, FileOK

(***************************************************************************)
(* fs::write: a file is emptied, then whole or garbled; the call goes on.  *)
(***************************************************************************)
LEMMA TruncateTypes ==
    ASSUME Types, NEW c \in Calls, Truncate(c)
    PROVE  Types' /\ Others(c)
<1>1. /\ pc[c] \in {"create", "open"} /\ task[c] \in Tasks /\ FileOf(task[c]) \in Files
      /\ pc[c] = "create" => task[c].kind \in {"use", "rename", "start", "seal"}
      /\ pc[c] = "open" => task[c].kind \in {"rename", "add", "remove"}
  BY Underway DEF Truncate, Types
<1>2. /\ file' = [file EXCEPT ![FileOf(task[c])] = [is |-> "empty", doc |-> None]]
      /\ pc' = [pc EXCEPT ![c] = IF pc[c] = "create" THEN "creating" ELSE "write"]
      /\ UNCHANGED <<task, buf, key, answer, result, promise>>
      /\ disturbed' \in SUBSET Files
  BY <1>1 DEF Truncate, Goto, Noting, Types, SharedOK
<1>3. Shape' /\ Others(c)
  BY <1>2 DEF Types, Shape, Others
<1>4. CallOK(c)'
  BY <1>1, <1>2, PlaceFacts DEF Types, Shape, CallOK
<1>5. \A d \in Calls : CallOK(d)'
  BY <1>3, <1>4 DEF Types, CallOK, Others
<1>6. \A f \in Files : FileOK(f)'
  BY <1>1, <1>2 DEF Types, FileOK, Shape
<1> QED
  BY <1>2, <1>3, <1>5, <1>6 DEF Types, SharedOK

\* Where a call goes on after its write, and what it has promised then.
LEMMA WrittenTypes ==
    ASSUME Types, NEW c \in Calls, NEW ok \in BOOLEAN,
           pc[c] \in {"create", "creating", "open", "write"}, Written(c, ok)
    PROVE  /\ \E p \in Places(task[c].kind) \cap {"done", "reread", "load", "config"} :
                 pc' = [pc EXCEPT ![c] = p]
           /\ Answered(c)
           /\ promise' \in [name : Names \cup {None}, trusted : SUBSET Friends]
<1>1. /\ task[c] \in Tasks
      /\ pc[c] \in {"create", "creating"} => task[c].kind \in {"use", "rename", "start", "seal"}
      /\ pc[c] \in {"open", "write"} => task[c].kind \in {"rename", "add", "remove"}
  BY Underway DEF Types
<1>2. CASE pc[c] \in {"create", "creating"}
  <2>1. Created(c, ok)
    BY <1>2 DEF Written
  <2>2. /\ promise' = promise
        /\ \/ pc' = [pc EXCEPT ![c] = "done"]
           \/ task[c].kind = "rename" /\ pc' = [pc EXCEPT ![c] = "reread"]
           \/ task[c].kind = "start" /\ pc' = [pc EXCEPT ![c] = "load"]
           \/ task[c].kind = "seal" /\ pc' = [pc EXCEPT ![c] = "config"]
        /\ Answered(c)
    <3>1. CASE task[c].kind \in {"use", "rename"}
      BY <2>1, <3>1 DEF Created, Finish, Goto, Answered
    <3>2. CASE task[c].kind \in {"start", "seal"}
      BY <2>1, <3>2 DEF Created, Finish, Goto, Answered
    <3> QED
      BY <1>1, <1>2, <3>1, <3>2
  <2>3. task[c].kind \in {"use", "rename", "start", "seal"}
    BY <1>1, <1>2
  <2> QED
    BY <2>2, <2>3, PlaceFacts DEF Types, SharedOK
<1>3. CASE pc[c] \in {"open", "write"}
  <2>1. Rewritten(c, ok)
    BY <1>3 DEF Written
  <2>2. pc' = [pc EXCEPT ![c] = "done"] /\ Answered(c)
    BY <2>1 DEF Rewritten, Finish, Goto, Answered
  <2>3. promise' \in [name : Names \cup {None}, trusted : SUBSET Friends]
    BY <2>1, <1>1, <1>3, TaskFields, PromisedTypes DEF Rewritten, Types, SharedOK
  <2>4. task[c].kind \in {"rename", "add", "remove"}
    BY <1>1, <1>3
  <2> QED
    BY <2>2, <2>3, <2>4, PlaceFacts
<1> QED
  BY <1>2, <1>3

\* A write leaves a document of the file's type, or none.
LEMMA WriteTypes ==
    ASSUME Types, NEW c \in Calls, Write(c) \/ WriteFails(c)
    PROVE  Types' /\ Others(c)
<1>1. /\ pc[c] \in {"create", "creating", "open", "write"}
      /\ task[c] \in Tasks /\ FileOf(task[c]) \in Files
      /\ \E ok \in BOOLEAN : Written(c, ok)
      /\ UNCHANGED <<task, buf, key, result>>
      /\ disturbed' \in SUBSET Files
  <2>1. /\ pc[c] \in {"create", "creating", "open", "write"}
        /\ \E ok \in BOOLEAN : Written(c, ok)
        /\ UNCHANGED <<task, buf, key, result>>
    BY DEF Write, WriteFails, Writing
  <2>2. task[c] \in Tasks /\ FileOf(task[c]) \in Files
    BY <2>1, Underway DEF Types
  <2> QED
    BY <2>1, <2>2 DEF Write, WriteFails, Types, SharedOK
<1>2. buf[c] \in Documents(FileOf(task[c]))
  BY <1>1 DEF Types, CallOK
<1>3. /\ Answered(c) /\ SharedOK'
      /\ \E p \in Places(task[c].kind) \cap {"done", "reread", "load", "config"} :
            pc' = [pc EXCEPT ![c] = p]
  BY <1>1, WrittenTypes DEF SharedOK
<1>4. \/ file' = file
      \/ file' = [file EXCEPT ![FileOf(task[c])] = [is |-> "whole", doc |-> buf[c]]]
      \/ file' = [file EXCEPT ![FileOf(task[c])] = [is |-> "garbled", doc |-> None]]
  BY DEF Write, WriteFails, AfterWrite
<1>5. \A f \in Files : FileOK(f)'
  BY <1>1, <1>2, <1>4 DEF Types, FileOK, Shape
<1>6. Shape' /\ Others(c)
  BY <1>1, <1>3, <1>4 DEF Types, Shape, Others, Answered
<1>7. CallOK(c)'
  BY <1>1, <1>3 DEF Types, Shape, CallOK
<1>8. \A d \in Calls : CallOK(d)'
  BY <1>6, <1>7 DEF Types, CallOK, Others
<1> QED
  BY <1>3, <1>5, <1>6, <1>8 DEF Types

(***************************************************************************)
(* A process that dies leaves its calls where no step finds them, and the  *)
(* files it was writing as they were or garbled.                           *)
(***************************************************************************)
LEMMA KillEffect ==
    ASSUME Types, Kill
    PROVE  /\ pc' = [c \in Calls |-> pc'[c]]
           /\ \A c \in Calls : pc'[c] = pc[c] \/ (pc'[c] = "dead" /\ Active(c))
           /\ file' = [f \in Files |-> file'[f]]
           /\ \A f \in Files : \/ file'[f] = file[f]
                               \/ file'[f] = [is |-> "garbled", doc |-> None]
           /\ disturbed' \in SUBSET Files
           /\ UNCHANGED <<task, buf, key, answer, result, promise>>
<1>1. PICK victims \in SUBSET {c \in Calls : Active(c)} : Die(victims)
  BY DEF Kill
<1>2. PICK torn \in SUBSET {FileOf(task[c]) : c \in {v \in victims : pc[v] \in Writing}} :
        file' = [f \in Files |-> IF f \in torn THEN [is |-> "garbled", doc |-> None] ELSE file[f]]
  BY <1>1 DEF Die
<1>3. \A c \in victims : pc[c] \in Writing => FileOf(task[c]) \in Files
  BY <1>1, Underway DEF Types, Active, Writing
<1>4. disturbed' \in SUBSET Files
  BY <1>1, <1>3 DEF Die, Types, SharedOK
<1>5. pc' = [c \in Calls |-> IF c \in victims THEN "dead" ELSE pc[c]]
      /\ UNCHANGED <<task, buf, key, answer, result, promise>>
  BY <1>1 DEF Die
<1> QED
  BY <1>1, <1>2, <1>4, <1>5

\* A dead process keeps the types.
LEMMA KillTypes ==
    ASSUME Types, Kill
    PROVE  Types'
<1>1. Shape'
  BY KillEffect DEF Types, Shape
<1>2. \A c \in Calls : CallOK(c)'
  <2> SUFFICES ASSUME NEW c \in Calls PROVE CallOK(c)'
    OBVIOUS
  <2>1. "dead" \in Places(task[c].kind)
    BY DEF Places
  <2> QED
    BY <2>1, KillEffect DEF Types, CallOK, Active
<1>3. \A f \in Files : FileOK(f)'
  BY KillEffect DEF Types, FileOK
<1>4. SharedOK'
  BY KillEffect DEF Types, SharedOK
<1> QED
  BY <1>1, <1>2, <1>3, <1>4 DEF Types

\* Every step keeps the types.
LEMMA StepTypes == Types /\ [Next]_vars => Types'
<1> SUFFICES ASSUME Types, [Next]_vars PROVE Types'
  OBVIOUS
<1>1. CASE Kill
  BY <1>1, KillTypes
<1>2. ASSUME NEW c \in Calls, Step(c) PROVE Types'
  <2>1. ASSUME NEW t \in Tasks,
               LoadIdentity(c, t) \/ ChangeTrust(c, t) \/ VerifyArtifact(c, t) \/ EnsureNode(c, t)
        PROVE  Types'
    BY <2>1, LoadIdentityTypes, ChangeTrustTypes, VerifyTypes, EnsureNodeTypes
  <2>2. CASE RereadIdentity(c) \/ LoadRegistry(c) \/ WinFile(c) \/ DesktopSeal(c)
    BY <2>2, RereadTypes, LoadRegistryTypes, SealTypes
  <2>3. CASE Truncate(c) \/ Write(c) \/ WriteFails(c)
    BY <2>3, TruncateTypes, WriteTypes
  <2> QED
    BY <1>2, <2>1, <2>2, <2>3 DEF Step
<1>3. CASE UNCHANGED vars
  BY <1>3 DEF vars, Types, Shape, FileOK, CallOK, SharedOK
<1> QED
  BY <1>1, <1>2, <1>3 DEF Next

(***************************************************************************)
(* Type correctness of the node's files, whatever races, fails or dies.    *)
(***************************************************************************)
THEOREM NodeFilesTypes == Spec => []TypeOK
<1> QED
  BY InitTypes, StepTypes, TypesTypeOK, PTL DEF Spec
-----------------------------------------------------------------------------
(***************************************************************************)
(* Trust.  Every list that is stored, or about to be, is one the user      *)
(* chose; and every finished verification told a rung that was earned.     *)
(***************************************************************************)
GoodList(list) ==
    \A e \in list :
        ~ e.revoked => /\ Chosen(e.key)
                       /\ e.official => \E first \in FirstTrust : e \in first

Saving(c) == pc[c] \in {"open", "write"} /\ task[c].kind \in {"add", "remove"}

EarnedBy(c) ==
    task[c] # None /\ task[c].kind = "verify" /\ pc[c] = "done" =>
        Earned(task[c].artifact, result[c], {k \in Friends : Chosen(k)})

TInv ==
    /\ Types
    /\ file["trust"].is = "whole" => GoodList(file["trust"].doc.keys)
    /\ \A c \in Calls : Saving(c) => GoodList(buf[c].keys)
    /\ \A c \in Calls : EarnedBy(c)

\* TInv holds of the list written by hand.
LEMMA InitTInv == Init => TInv
<1> SUFFICES ASSUME Init PROVE TInv
  OBVIOUS
<1>1. PICK list \in FirstTrust :
        file = [f \in Files |-> IF f = "trust" /\ list # {}
                               THEN [is |-> "whole", doc |-> [keys |-> list]]
                               ELSE [is |-> "missing", doc |-> None]]
  BY DEF Init
<1>2. GoodList(list)
  BY DEF GoodList, Chosen, IsTrusted
<1>3. file["trust"].is = "whole" => GoodList(file["trust"].doc.keys)
  BY <1>1, <1>2 DEF Files
<1> QED
  BY <1>3, InitTypes DEF Init, TInv, Saving, EarnedBy

\* Whom the user chose stays chosen: a call keeps its task.
LEMMA ChosenStays ==
    ASSUME Types, \A c \in Calls : task'[c] = task[c] \/ task[c] = None
    PROVE  /\ \A k : Chosen(k) => Chosen(k)'
           /\ \A list : GoodList(list) => GoodList(list)'
<1>1. \A k : Chosen(k) => Chosen(k)'
  BY DEF Chosen, Asked
<1> QED
  BY <1>1 DEF GoodList

\* A list read from the file is a good one, and so is what becomes of it.
LEMMA ChangedIsGood ==
    ASSUME TInv, NEW c \in Calls, NEW t \in Tasks, ChangeTrust(c, t)
    PROVE  GoodList(Changed(t))'
<1>1. /\ pc[c] = "idle" /\ task' = [task EXCEPT ![c] = t] /\ t.kind \in {"add", "remove"}
      /\ task[c] = None
  BY DEF ChangeTrust, Idle, TInv, Types, CallOK
<1>2. GoodList(TrustStoreLoad)'
  <2>1. GoodList(TrustStoreLoad)
    BY DEF TInv, TrustStoreLoad, GoodList
  <2>2. TrustStoreLoad' = TrustStoreLoad
    BY DEF ChangeTrust, TrustStoreLoad
  <2> QED
    BY <2>1, <2>2, <1>1, ChosenStays DEF TInv, Types, Shape
<1>3. t.kind = "add" => Chosen(t.key)'
  BY <1>1, TaskFields DEF Chosen, Asked, TInv, Types, Shape
<1>4. TrustStoreLoad' = TrustStoreLoad
  BY DEF ChangeTrust, TrustStoreLoad
<1>5. CASE t.kind = "add"
  BY <1>2, <1>3, <1>4, <1>5 DEF Changed, TrustStoreAdd, GoodList
<1>6. CASE t.kind = "remove"
  BY <1>2, <1>4, <1>6 DEF Changed, TrustStoreRemove, GoodList
<1> QED
  BY <1>1, <1>5, <1>6

\* A step of a call leaves the others alone; the call keeps its task.
LEMMA StepOthers ==
    ASSUME Types, NEW c \in Calls, Step(c)
    PROVE  /\ Others(c)
           /\ task'[c] = task[c] \/ task[c] = None
           /\ pc[c] # "idle" => task'[c] = task[c]
<1>1. Others(c)
  BY LoadIdentityTypes, RereadTypes, ChangeTrustTypes, VerifyTypes, EnsureNodeTypes,
     LoadRegistryTypes, SealTypes, TruncateTypes, WriteTypes DEF Step
<1>2. CASE pc[c] = "idle"
  BY <1>1, <1>2 DEF Types, CallOK
<1>3. CASE pc[c] # "idle"
  <2>1. ~ \E t \in Tasks : \/ LoadIdentity(c, t) \/ ChangeTrust(c, t)
                          \/ VerifyArtifact(c, t) \/ EnsureNode(c, t)
    BY <1>3 DEF LoadIdentity, ChangeTrust, VerifyArtifact, EnsureNode, Idle
  <2>2. UNCHANGED task
    BY <2>1 DEF Step, RereadIdentity, LoadRegistry, WinFile, DesktopSeal, Truncate, Write, WriteFails
  <2> QED
    BY <1>1, <2>2
<1> QED
  BY <1>1, <1>2, <1>3

\* What is earned stays earned when more keys are chosen.
LEMMA EarnedStays ==
    ASSUME NEW x, NEW status, NEW S, NEW T, S \subseteq T, Earned(x, status, S)
    PROVE  Earned(x, status, T)
<1>1. CASE status.rung = "Trusted"
  BY <1>1 DEF Earned
<1>2. CASE status.rung # "Trusted"
  BY <1>2 DEF Earned
<1> QED
  BY <1>1, <1>2

\* The stored list stays good: it is rewritten with a good one.
LEMMA TrustFileStep ==
    ASSUME TInv, NEW c \in Calls, Step(c), \A list : GoodList(list) => GoodList(list)'
    PROVE  (file["trust"].is = "whole" => GoodList(file["trust"].doc.keys))'
<1>1. CASE file' = file
  BY <1>1 DEF TInv
<1>2. CASE Truncate(c)
  <2>1. file'["trust"] = file["trust"] \/ file'["trust"] = [is |-> "empty", doc |-> None]
    BY <1>2 DEF Truncate, TInv, Types, Shape, Files
  <2> QED
    BY <2>1 DEF TInv
<1>3. CASE Write(c) \/ WriteFails(c)
  <2>1. \/ file'["trust"] = file["trust"]
        \/ file'["trust"] = [is |-> "garbled", doc |-> None]
        \/ /\ file'["trust"] = [is |-> "whole", doc |-> buf[c]]
           /\ FileOf(task[c]) = "trust" /\ pc[c] \in Writing
    BY <1>3 DEF Write, WriteFails, AfterWrite, TInv, Types, Shape, Files
  <2>2. CASE FileOf(task[c]) = "trust" /\ pc[c] \in Writing
    <3>1. Saving(c)
      BY <2>2, Underway, KindFacts DEF Saving, Writing, TInv, Types
    <3> QED
      BY <2>1, <3>1 DEF TInv
  <2> QED
    BY <2>1, <2>2 DEF TInv
<1> QED
  BY <1>1, <1>2, <1>3 DEF Step, LoadIdentity, ChangeTrust, VerifyArtifact, EnsureNode,
     RereadIdentity, LoadRegistry, WinFile, DesktopSeal

\* A list about to be stored is the stored one, changed as the user asked.
LEMMA TrustSavingStep ==
    ASSUME TInv, NEW c \in Calls, Step(c), \A list : GoodList(list) => GoodList(list)'
    PROVE  \A d \in Calls : Saving(d)' => GoodList(buf[d].keys)'
<1>1. ASSUME NEW d \in Calls \ {c}, Saving(d)'
      PROVE  GoodList(buf[d].keys)'
  BY <1>1, StepOthers DEF TInv, Saving, Others
<1>2. ASSUME Saving(c)' PROVE GoodList(buf[c].keys)'
  <2>1. CASE \E t \in Tasks : ChangeTrust(c, t)
    <3>1. PICK t \in Tasks : ChangeTrust(c, t)
      BY <2>1
    <3>2. buf'[c] = [keys |-> Changed(t)]
      BY <3>1, <1>2 DEF ChangeTrust, Goto, Finish, Saving, TInv, Types, Shape
    <3>3. Changed(t)' = Changed(t)
      BY <3>1 DEF ChangeTrust, Changed, TrustStoreLoad
    <3> QED
      BY <3>1, <3>2, <3>3, ChangedIsGood
  <2>2. CASE Truncate(c)
    <3>1. Saving(c) /\ buf' = buf
      <4>1. pc[c] = "open" \/ pc'[c] = "creating"
        BY <2>2 DEF Truncate, Goto, TInv, Types, Shape
      <4> QED
        BY <4>1, <2>2, <1>2 DEF Truncate, Saving
    <3> QED
      BY <3>1 DEF TInv
  <2>3. CASE RereadIdentity(c)
    BY <2>3, <1>2, Underway DEF RereadIdentity, Saving, TInv, Types
  <2>4. CASE Write(c) \/ WriteFails(c)
    <3>1. PICK ok \in BOOLEAN : Written(c, ok) /\ pc[c] \in {"create", "creating", "open", "write"}
      BY <2>4 DEF Write, WriteFails, Writing
    <3> QED
      BY <3>1, <1>2, WrittenTypes DEF Saving, TInv, Types, Shape
  <2>5. CASE \E t \in Tasks : LoadIdentity(c, t) \/ VerifyArtifact(c, t) \/ EnsureNode(c, t)
    BY <2>5, <1>2 DEF LoadIdentity, VerifyArtifact, EnsureNode, Idle, Goto, Finish, Saving, TInv, Types, Shape
  <2>6. CASE LoadRegistry(c) \/ WinFile(c) \/ DesktopSeal(c)
    BY <2>6, <1>2 DEF LoadRegistry, WinFile, DesktopSeal, Goto, Finish, Saving, TInv, Types, Shape
  <2> QED
    BY <2>1, <2>2, <2>3, <2>4, <2>5, <2>6 DEF Step
<1> QED
  BY <1>1, <1>2

\* A finished verification keeps what it told, a new one earned it.
LEMMA EarnedStep ==
    ASSUME TInv, NEW c \in Calls, Step(c), \A k : Chosen(k) => Chosen(k)'
    PROVE  \A d \in Calls : EarnedBy(d)'
<1>1. {k \in Friends : Chosen(k)} \subseteq {k \in Friends : Chosen(k)'}
  OBVIOUS
<1>2. ASSUME NEW d \in Calls \ {c} PROVE EarnedBy(d)'
  BY <1>1, StepOthers, EarnedStays DEF TInv, EarnedBy, Others
<1>3. CASE \E t \in Tasks : VerifyArtifact(c, t)
  <2>1. PICK t \in Tasks : VerifyArtifact(c, t)
    BY <1>3
  <2>2. /\ task'[c] = t /\ t.artifact \in Artifacts
        /\ result'[c] = ResolveIdentity(t.artifact[1], t.artifact[2], TrustedBy(TrustStoreLoad))
    BY <2>1, TaskFields DEF VerifyArtifact, Idle, TInv, Types, Shape
  <2>3. TrustedBy(TrustStoreLoad) \subseteq {k \in Friends : Chosen(k)}
    BY DEF TInv, TrustedBy, TrustStoreLoad, IsTrusted, GoodList
  <2>4. Earned(t.artifact, result'[c], {k \in Friends : Chosen(k)'})
    BY <2>2, <2>3, <1>1, LadderEarned, EarnedStays
  <2> QED
    BY <2>2, <2>4, <1>2 DEF EarnedBy
<1>4. CASE ~ \E t \in Tasks : VerifyArtifact(c, t)
  <2>1. ~ (task'[c].kind = "verify")
    <3>1. CASE pc[c] \notin {"idle", "done", "dead"}
      <4>1. task'[c] = task[c] /\ task[c] \in Tasks /\ pc[c] \in Places(task[c].kind)
        BY <3>1, StepOthers, Underway DEF TInv, Types, CallOK
      <4> QED
        BY <4>1, <3>1, PlaceFacts
    <3>2. CASE pc[c] = "idle"
      BY <3>2, <1>4 DEF Step, LoadIdentity, ChangeTrust, EnsureNode, Idle, RereadIdentity,
         LoadRegistry, WinFile, DesktopSeal, Truncate, Write, WriteFails, Writing, TInv, Types, Shape
    <3>3. CASE pc[c] \in {"done", "dead"}
      BY <3>3, <1>4 DEF Step, LoadIdentity, ChangeTrust, EnsureNode, Idle, RereadIdentity,
         LoadRegistry, WinFile, DesktopSeal, Truncate, Write, WriteFails, Writing
    <3> QED
      BY <3>1, <3>2, <3>3
  <2> QED
    BY <2>1, <1>2 DEF EarnedBy
<1> QED
  BY <1>3, <1>4

\* Every step keeps TInv.
LEMMA StepTInv == TInv /\ [Next]_vars => TInv'
<1> SUFFICES ASSUME TInv, [Next]_vars PROVE TInv'
  OBVIOUS
<1>0. Types'
  BY StepTypes DEF TInv
<1>1. CASE Kill
  <2>1. /\ \A k : Chosen(k) => Chosen(k)'
        /\ \A list : GoodList(list) => GoodList(list)'
    BY <1>1, KillEffect, ChosenStays DEF TInv
  <2>2. (file["trust"].is = "whole" => GoodList(file["trust"].doc.keys))'
    BY <1>1, <2>1, KillEffect DEF TInv, Files
  <2>3. \A d \in Calls : Saving(d)' => GoodList(buf[d].keys)'
    BY <1>1, <2>1, KillEffect DEF TInv, Saving
  <2>4. \A d \in Calls : EarnedBy(d)'
    <3>1. {k \in Friends : Chosen(k)} \subseteq {k \in Friends : Chosen(k)'}
      BY <2>1
    <3> QED
      BY <1>1, <3>1, KillEffect, EarnedStays DEF TInv, EarnedBy
  <2> QED
    BY <1>0, <2>2, <2>3, <2>4 DEF TInv
<1>2. ASSUME NEW c \in Calls, Step(c) PROVE TInv'
  <2>1. \A d \in Calls : task'[d] = task[d] \/ task[d] = None
    BY <1>2, StepOthers DEF TInv, Others
  <2>2. /\ \A k : Chosen(k) => Chosen(k)'
        /\ \A list : GoodList(list) => GoodList(list)'
    BY <2>1, ChosenStays DEF TInv
  <2> QED
    BY <1>0, <1>2, <2>2, TrustFileStep, TrustSavingStep, EarnedStep DEF TInv
<1>3. CASE UNCHANGED vars
  BY <1>0, <1>3 DEF vars, TInv, GoodList, Chosen, Asked, Saving, EarnedBy
<1> QED
  BY <1>1, <1>2, <1>3 DEF Next

\* TInv holds in every reachable state.
THEOREM TrustInductive == Spec => []TInv
<1> QED
  BY InitTInv, StepTInv, PTL DEF Spec

(***************************************************************************)
(* Nobody is trusted, and no trust is official, but by the user's choice:  *)
(* in the stored list and in every list a call is about to store.          *)
(***************************************************************************)
THEOREM TrustChosen == Spec => []TrustIsChosen
<1>1. TInv => TrustIsChosen
  <2> SUFFICES ASSUME TInv, NEW store \in Contents("trust") PROVE GoodList(store.keys)
    BY DEF TrustIsChosen, GoodList
  <2>1. ASSUME NEW c \in Calls, Active(c), FileOf(task[c]) = "trust", store = buf[c]
        PROVE  Saving(c)
    <3>1. task[c] \in Tasks /\ pc[c] \in Places(task[c].kind) /\ pc[c] \notin {"done", "dead"}
      BY <2>1, Underway DEF Active, TInv, Types, CallOK
    <3>2. task[c].kind \in {"add", "remove", "verify"}
      BY <2>1, <3>1, TaskFields, KindFacts
    <3> QED
      BY <3>1, <3>2, PlaceFacts DEF Saving
  <2> QED
    BY <2>1 DEF Contents, Pending, TInv
<1> QED
  BY <1>1, TrustInductive, PTL

(***************************************************************************)
(* A receiver is told no rung that is not earned.                          *)
(***************************************************************************)
THEOREM RungsEarned == Spec => []RungIsEarned
<1>1. TInv => RungIsEarned
  <2> SUFFICES ASSUME TInv, NEW c \in Calls, task[c] # None, task[c].kind = "verify",
                      pc[c] = "done"
               PROVE  LET k      == task[c].artifact[1]
                          signed == {a \in Range(task[c].artifact[2]) :
                              a.signature = AssertIdentity(k, a.name, a.persistence).signature}
                      IN  CASE result[c].rung = "Trusted"         -> Chosen(k)
                            [] result[c].rung = "SelfAsserted"    ->
                                  \E a \in signed : a.name = result[c].name
                            [] result[c].rung = "ConsistentActor" ->
                                  \E a \in signed : a.persistence = "Persistent"
                            [] OTHER                              -> TRUE
    BY DEF RungIsEarned
  <2>1. Earned(task[c].artifact, result[c], {k \in Friends : Chosen(k)})
    BY DEF TInv, EarnedBy
  <2> QED
    BY <2>1 DEF Earned
<1> QED
  BY <1>1, TrustInductive, PTL
=============================================================================
