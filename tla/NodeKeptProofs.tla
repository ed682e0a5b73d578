-------------------------- MODULE NodeKeptProofs ---------------------------
(***************************************************************************)
(* What the files of a node keep: the node whose keys were made first,     *)
(* whatever fails or dies, unless two first runs met; and, as long as no   *)
(* two calls meet on a file and no write of it fails, the identity, its    *)
(* name and the trust list as they were acknowledged last.  For any number *)
(* of calls, in any order.                                                 *)
(***************************************************************************)
EXTENDS NodeFilesProofs

(***************************************************************************)
(* A call that is not done has told nobody anything, and one that has not  *)
(* begun holds no document.                                                *)
(***************************************************************************)
Silent ==
    \A c \in Calls :
        /\ pc[c] # "done" => answer[c] = None /\ result[c] = None
        /\ pc[c] = "idle" => buf[c] = None

Base == Types /\ Silent

\* What a death leaves of an undisturbed file and of those who write it.
LEMMA KillLeaves ==
    ASSUME Types, Kill
    PROVE  /\ disturbed \subseteq disturbed'
           /\ \A f \in Files \ disturbed' : file'[f] = file[f]
           /\ \A c \in Calls : pc[c] \in Writing /\ FileOf(task[c]) \notin disturbed' =>
                 pc'[c] = pc[c]
<1>1. PICK victims \in SUBSET {c \in Calls : Active(c)} : Die(victims)
  BY DEF Kill
<1> DEFINE hit == {FileOf(task[c]) : c \in {v \in victims : pc[v] \in Writing}}
<1>2. PICK torn \in SUBSET hit :
        file' = [f \in Files |-> IF f \in torn THEN [is |-> "garbled", doc |-> None] ELSE file[f]]
  BY <1>1 DEF Die
<1>3. disturbed' = disturbed \cup hit
  BY <1>1 DEF Die
<1>4. pc' = [c \in Calls |-> IF c \in victims THEN "dead" ELSE pc[c]]
  BY <1>1 DEF Die
<1> QED
  BY <1>2, <1>3, <1>4

\* A step on one file leaves the other files, and what is known of them.
LEMMA StepElsewhere ==
    ASSUME Types, NEW c \in Calls, Step(c), NEW f \in Files, FileOf(task'[c]) # f
    PROVE  file'[f] = file[f] /\ (f \in disturbed' <=> f \in disturbed)
<1>1. ASSUME NEW t \in Tasks, LoadIdentity(c, t) \/ ChangeTrust(c, t) \/ VerifyArtifact(c, t)
                              \/ EnsureNode(c, t)
      PROVE  file'[f] = file[f] /\ (f \in disturbed' <=> f \in disturbed)
  <2>1. task'[c] = t
    BY <1>1 DEF LoadIdentity, ChangeTrust, VerifyArtifact, EnsureNode, Idle, Types, Shape
  <2>2. file' = file
    BY <1>1 DEF LoadIdentity, ChangeTrust, VerifyArtifact, EnsureNode
  <2>3. CASE LoadIdentity(c, t)
    BY <2>1, <2>2, <2>3, KindFacts DEF LoadIdentity, Noting
  <2>4. CASE ChangeTrust(c, t) \/ VerifyArtifact(c, t)
    BY <2>1, <2>2, <2>4, KindFacts DEF ChangeTrust, VerifyArtifact, Noting
  <2>5. CASE EnsureNode(c, t)
    BY <2>2, <2>5 DEF EnsureNode
  <2> QED
    BY <1>1, <2>3, <2>4, <2>5
<1>2. CASE RereadIdentity(c) \/ LoadRegistry(c) \/ WinFile(c) \/ DesktopSeal(c)
  <2>1. task' = task /\ file' = file
    BY <1>2 DEF RereadIdentity, LoadRegistry, WinFile, DesktopSeal
  <2>2. RereadIdentity(c) => FileOf(task[c]) = "identity"
    BY Underway, KindFacts DEF RereadIdentity, Types
  <2>3. LoadRegistry(c) \/ WinFile(c) => FileOf(task[c]) = "node"
    BY Underway, KindFacts DEF LoadRegistry, WinFile, Types
  <2> QED
    BY <1>2, <2>1, <2>2, <2>3 DEF RereadIdentity, LoadRegistry, WinFile, DesktopSeal, Noting
<1>3. CASE Truncate(c) \/ Write(c) \/ WriteFails(c)
  BY <1>3 DEF Truncate, Write, WriteFails, Noting, Types, Shape
<1> QED
  BY <1>1, <1>2, <1>3 DEF Step

\* The steps a call can take on each file.
LEMMA StepsOn ==
    ASSUME Types, NEW c \in Calls, Step(c)
    PROVE  /\ FileOf(task'[c]) = "identity" =>
                \/ \E t \in Tasks : LoadIdentity(c, t)
                \/ RereadIdentity(c) \/ Truncate(c) \/ Write(c) \/ WriteFails(c)
           /\ FileOf(task'[c]) = "trust" =>
                \/ \E t \in Tasks : ChangeTrust(c, t) \/ VerifyArtifact(c, t)
                \/ Truncate(c) \/ Write(c) \/ WriteFails(c)
           /\ FileOf(task'[c]) = "node" =>
                \/ \E t \in Tasks : EnsureNode(c, t)
                \/ LoadRegistry(c) \/ WinFile(c) \/ DesktopSeal(c)
                \/ Truncate(c) \/ Write(c) \/ WriteFails(c)
<1>1. ASSUME NEW t \in Tasks, LoadIdentity(c, t) \/ ChangeTrust(c, t) \/ VerifyArtifact(c, t)
                              \/ EnsureNode(c, t)
      PROVE  /\ LoadIdentity(c, t) => FileOf(task'[c]) = "identity"
             /\ ChangeTrust(c, t) \/ VerifyArtifact(c, t) => FileOf(task'[c]) = "trust"
             /\ EnsureNode(c, t) => FileOf(task'[c]) = "node"
  <2>1. task'[c] = t
    BY <1>1 DEF LoadIdentity, ChangeTrust, VerifyArtifact, EnsureNode, Idle, Types, Shape
  <2> QED
    BY <2>1, KindFacts DEF LoadIdentity, ChangeTrust, VerifyArtifact, EnsureNode
<1>2. RereadIdentity(c) => FileOf(task'[c]) = "identity"
  BY Underway, KindFacts DEF RereadIdentity, Types
<1>3. LoadRegistry(c) \/ WinFile(c) \/ DesktopSeal(c) => FileOf(task'[c]) = "node"
  BY Underway, KindFacts DEF LoadRegistry, WinFile, DesktopSeal, Types
<1> QED
  BY <1>1, <1>2, <1>3 DEF Step

\* Disturbed files stay disturbed; a failed write and a race disturb one.
LEMMA DisturbedStays ==
    ASSUME NEW c \in Calls, Step(c)
    PROVE  /\ disturbed \subseteq disturbed'
           /\ WriteFails(c) => FileOf(task[c]) \in disturbed' /\ task' = task
           /\ Truncate(c) => task' = task /\ (On(FileOf(task[c])) = {c} \/ FileOf(task[c]) \in disturbed')
  BY DEF Step, LoadIdentity, ChangeTrust, VerifyArtifact, EnsureNode, RereadIdentity,
     LoadRegistry, WinFile, DesktopSeal, Truncate, Write, WriteFails, Noting
-----------------------------------------------------------------------------
\* Before any call nothing was said.
LEMMA InitBase == Init => Base
  BY InitTypes DEF Init, Base, Silent

\* No step makes a call speak before it is done.
LEMMA StepBase == Base /\ [Next]_vars => Base'
<1> SUFFICES ASSUME Base, [Next]_vars PROVE Silent'
  BY StepTypes DEF Base
<1>1. CASE Kill
  BY <1>1, KillEffect DEF Base, Silent, Active
<1>2. ASSUME NEW c \in Calls, Step(c) PROVE Silent'
  <2>1. Others(c)
    BY <1>2, StepOthers DEF Base
  <2>2. (pc[c] # "done" => answer[c] = None /\ result[c] = None)'
        /\ (pc[c] = "idle" => buf[c] = None)'
    <3>1. ASSUME NEW t \in Tasks, LoadIdentity(c, t) \/ ChangeTrust(c, t)
                                  \/ VerifyArtifact(c, t) \/ EnsureNode(c, t)
          PROVE  /\ (pc[c] # "done" => answer[c] = None /\ result[c] = None)'
                 /\ pc'[c] # "idle"
      <4>1. pc[c] = "idle" /\ answer[c] = None /\ result[c] = None
        BY <3>1 DEF LoadIdentity, ChangeTrust, VerifyArtifact, EnsureNode, Idle, Base, Silent
      <4>2. CASE LoadIdentity(c, t)
        BY <4>1, <4>2 DEF LoadIdentity, Finish, Goto, Base, Types, Shape
      <4>3. CASE ChangeTrust(c, t) \/ VerifyArtifact(c, t)
        BY <4>1, <4>3 DEF ChangeTrust, VerifyArtifact, Finish, Goto, Base, Types, Shape
      <4>4. CASE EnsureNode(c, t)
        BY <4>1, <4>4 DEF EnsureNode, Goto, Base, Types, Shape
      <4> QED
        BY <3>1, <4>2, <4>3, <4>4
    <3>2. CASE RereadIdentity(c) \/ LoadRegistry(c) \/ WinFile(c) \/ DesktopSeal(c)
      BY <3>2 DEF RereadIdentity, LoadRegistry, WinFile, DesktopSeal, Finish, Goto,
         Base, Silent, Types, Shape
    <3>3. CASE Truncate(c)
      BY <3>3 DEF Truncate, Goto, Base, Silent, Types, Shape
    <3>4. CASE Write(c) \/ WriteFails(c)
      <4>1. /\ pc[c] \in {"create", "creating", "open", "write"}
            /\ \E ok \in BOOLEAN : Written(c, ok)
            /\ result' = result
        BY <3>4 DEF Write, WriteFails, Writing
      <4>2. answer[c] = None /\ result[c] = None
        BY <4>1 DEF Base, Silent
      <4>3. pc'[c] # "idle" /\ (pc'[c] # "done" => answer' = answer)
        <5>1. PICK ok \in BOOLEAN : Written(c, ok)
          BY <4>1
        <5>2. CASE pc[c] \in {"create", "creating"}
          <6>1. task[c].kind \in {"use", "rename", "start", "seal"}
            BY <5>2, Underway DEF Base, Types
          <6>2. CASE task[c].kind \in {"use", "rename"}
            BY <5>1, <5>2, <6>2 DEF Written, Created, Finish, Goto, Base, Types, Shape
          <6>3. CASE task[c].kind \in {"start", "seal"}
            BY <5>1, <5>2, <6>3 DEF Written, Created, Finish, Goto, Base, Types, Shape
          <6> QED
            BY <6>1, <6>2, <6>3
        <5>3. CASE pc[c] \in {"open", "write"}
          BY <5>1, <5>3 DEF Written, Rewritten, Finish, Goto, Base, Types, Shape
        <5> QED
          BY <4>1, <5>2, <5>3
      <4> QED
        BY <4>1, <4>2, <4>3
    <3> QED
      BY <1>2, <3>1, <3>2, <3>3, <3>4 DEF Step
  <2> QED
    BY <2>1, <2>2 DEF Others, Base, Silent
<1>3. CASE UNCHANGED vars
  BY <1>3 DEF vars, Base, Silent
<1> QED
  BY <1>1, <1>2, <1>3 DEF Next
-----------------------------------------------------------------------------
(***************************************************************************)
(* node.json.  Once a run has opened it, it is there for good, and every   *)
(* key in it or loaded from it is a first run's.  While there is one first *)
(* run, the file is missing until that run opens it, empty while it writes *)
(* it, and whole or of a run that was broken off ever after.               *)
(***************************************************************************)
NodeCall(c) ==
    /\ c \in Makers => buf[c] = NewNode(c)
    /\ pc[c] \in {"create", "creating"} => c \in Makers /\ key[c] = c
    /\ (pc[c] \in {"creating", "load", "config", "running"} \/ answer[c] = "ok") =>
          file["node"].is # "missing"
    /\ pc[c] \in {"config", "running"} => key[c] \in Makers
    /\ pc[c] = "done" => answer[c] \in {"ok", "error"}

Torn == file["node"].is \in {"empty", "garbled"}

OneNode ==
    /\ \A c \in Makers : /\ pc[c] = "create" => file["node"].is = "missing"
                         /\ pc[c] = "creating" => file["node"].is = "empty"
    /\ Torn => \E c \in Makers : pc[c] = "creating" \/ BrokenOff(c)
    /\ \A c \in Calls : About(c, "node") /\ pc[c] \in {"config", "running"} =>
          file["node"].is = "whole"

NodeInv ==
    /\ \A c \in Calls : About(c, "node") => NodeCall(c)
    /\ file["node"].is = "whole" => file["node"].doc.creator \in Makers
    /\ OneMaker => OneNode

\* A step on another file is nothing to node.json.
LEMMA NodeElsewhere ==
    ASSUME Base, NodeInv, NEW c \in Calls, Step(c), FileOf(task'[c]) # "node"
    PROVE  NodeInv'
<1>1. file'["node"] = file["node"]
  BY StepElsewhere DEF Base, Files
<1>2. Others(c) /\ (task'[c] = task[c] \/ task[c] = None)
  BY StepOthers DEF Base
<1>3. ~ About(c, "node")' /\ ~ About(c, "node")
  BY <1>2 DEF About
<1>4. \A d \in Calls : About(d, "node")' <=> About(d, "node")
  BY <1>2, <1>3 DEF About, Others
<1>5. \A d \in Calls : About(d, "node") =>
         /\ pc'[d] = pc[d] /\ buf'[d] = buf[d] /\ key'[d] = key[d] /\ answer'[d] = answer[d]
  BY <1>2, <1>3 DEF Others
<1>6. Makers' = Makers
  BY <1>4, <1>5 DEF Makers
<1>7. \A d \in Calls : About(d, "node") => (NodeCall(d)' <=> NodeCall(d))
  BY <1>1, <1>5, <1>6 DEF NodeCall, NewNode
<1>8. OneMaker' => OneNode'
  <2> SUFFICES ASSUME OneMaker' PROVE OneNode'
    OBVIOUS
  <2>1. OneMaker /\ OneNode
    BY <1>6 DEF OneMaker, NodeInv
  <2>2. \A d \in Makers : pc'[d] = pc[d] /\ (BrokenOff(d)' <=> BrokenOff(d))
    BY <1>5 DEF Makers, BrokenOff
  <2>3. Torn' <=> Torn
    BY <1>1 DEF Torn
  <2> QED
    BY <1>1, <1>4, <1>5, <1>6, <2>1, <2>2, <2>3 DEF OneNode
<1> QED
  BY <1>1, <1>4, <1>6, <1>7, <1>8 DEF NodeInv

\* What a death leaves of node.json, and who left it so.
LEMMA KillOfNode ==
    ASSUME Types, Kill
    PROVE  \/ file'["node"] = file["node"]
           \/ /\ file'["node"] = [is |-> "garbled", doc |-> None]
              /\ \E c \in Calls : About(c, "node") /\ pc[c] = "creating" /\ pc'[c] = "dead"
<1>1. PICK victims \in SUBSET {c \in Calls : Active(c)} : Die(victims)
  BY DEF Kill
<1>2. PICK torn \in SUBSET {FileOf(task[c]) : c \in {v \in victims : pc[v] \in Writing}} :
        file' = [f \in Files |-> IF f \in torn THEN [is |-> "garbled", doc |-> None] ELSE file[f]]
  BY <1>1 DEF Die
<1>3. CASE "node" \notin torn
  BY <1>2, <1>3 DEF Files
<1>4. CASE "node" \in torn
  <2>1. PICK c \in victims : pc[c] \in Writing /\ FileOf(task[c]) = "node"
    BY <1>4
  <2>2. About(c, "node") /\ pc[c] = "creating"
    BY <1>1, <2>1, Underway, TaskFields, KindFacts DEF Writing, About, Types
  <2>3. pc'[c] = "dead"
    BY <1>1, <2>1 DEF Die
  <2> QED
    BY <1>2, <1>4, <2>2, <2>3 DEF Files
<1> QED
  BY <1>3, <1>4

\* A death breaks off the calls that die, and maybe the file one of them wrote.
LEMMA NodeKill ==
    ASSUME Base, NodeInv, Kill
    PROVE  NodeInv'
<1>1. /\ \A d \in Calls : pc'[d] = pc[d] \/ pc'[d] = "dead"
      /\ UNCHANGED <<task, buf, key, answer, result>>
  BY KillEffect DEF Base
<1>2. Makers' = Makers /\ \A d \in Calls : About(d, "node")' <=> About(d, "node")
  BY <1>1 DEF Makers, About
<1>3. \/ file'["node"] = file["node"]
      \/ /\ file'["node"] = [is |-> "garbled", doc |-> None]
         /\ \E c \in Calls : About(c, "node") /\ pc[c] = "creating" /\ pc'[c] = "dead"
  BY KillOfNode DEF Base
<1>4. file'["node"].is = "missing" => file["node"].is = "missing"
  BY <1>3
<1>5. file'["node"].is = "whole" => file'["node"] = file["node"]
  BY <1>3
<1>6. file["node"].is = "missing" => file'["node"].is = "missing"
  BY <1>3 DEF NodeInv, NodeCall
<1>7. \A d \in Calls : About(d, "node") => NodeCall(d)'
  BY <1>1, <1>2, <1>4 DEF NodeInv, NodeCall, NewNode
<1>8. OneMaker' => OneNode'
  <2> SUFFICES ASSUME OneMaker' PROVE OneNode'
    OBVIOUS
  <2>1. OneMaker /\ OneNode
    BY <1>2 DEF OneMaker, NodeInv
  <2>2. CASE file'["node"] = file["node"]
    <3>1. \A d \in Makers : /\ pc'[d] \in {"create", "creating"} => pc'[d] = pc[d]
                            /\ pc[d] = "creating" \/ BrokenOff(d) =>
                                  pc'[d] = "creating" \/ BrokenOff(d)'
      BY <1>1 DEF Makers, BrokenOff
    <3>2. Torn' <=> Torn
      BY <2>2 DEF Torn
    <3>3. \A d \in Calls : pc'[d] \in {"config", "running"} => pc'[d] = pc[d]
      BY <1>1
    <3> QED
      BY <1>2, <2>1, <2>2, <3>1, <3>2, <3>3 DEF OneNode
  <2>3. CASE file'["node"] # file["node"]
    <3>1. PICK c \in Makers : pc[c] = "creating" /\ pc'[c] = "dead"
      BY <1>3, <2>3 DEF NodeInv, NodeCall
    <3>2. \A d \in Makers : d = c
      BY <2>1, <3>1 DEF OneMaker
    <3>3. file["node"].is = "empty"
      BY <2>1, <3>1 DEF OneNode
    <3>4. \A d \in Calls : About(d, "node") => pc'[d] \notin {"config", "running"}
      BY <1>1, <2>1, <3>3 DEF OneNode
    <3> QED
      BY <1>2, <3>1, <3>2, <3>4 DEF OneNode, BrokenOff
  <2> QED
    BY <2>2, <2>3
<1> QED
  BY <1>2, <1>5, <1>7, <1>8 DEF NodeInv

(***************************************************************************)
(* A run looks for node.json, loads it, or seals.  One that finds none is  *)
(* the first, or there are two that are.                                   *)
(***************************************************************************)
LEMMA NodeReads ==
    ASSUME Base, NodeInv, NEW c \in Calls, Step(c),
           \/ \E t \in Tasks : EnsureNode(c, t)
           \/ LoadRegistry(c) \/ WinFile(c) \/ DesktopSeal(c)
    PROVE  NodeInv'
<1>1. file' = file
  BY DEF EnsureNode, LoadRegistry, WinFile, DesktopSeal
<1>2. Others(c)
  BY StepOthers DEF Base
<1>3. "error" # None /\ "ok" # None
  BY NodeFilesAssumption
<1>4. CASE \E t \in Tasks : EnsureNode(c, t)
  <2>1. PICK t \in Tasks : EnsureNode(c, t)
    BY <1>4
  <2>2. /\ pc[c] = "idle" /\ buf[c] = None /\ task[c] = None /\ answer[c] = None
        /\ task'[c] = t /\ answer' = answer /\ t # None /\ FileOf(t) = "node"
    BY <2>1, TasksAssumption, KindFacts DEF EnsureNode, Idle, Base, Silent, Types, CallOK, Shape
  <2>3. ~ About(c, "node") /\ About(c, "node")' /\ c \notin Makers
    BY <2>2 DEF About, Makers
  <2>4. \A d \in Calls \ {c} : About(d, "node")' <=> About(d, "node")
    BY <1>2 DEF About, Others
  <2>5. CASE file["node"].is = "missing"
    <3>1. pc'[c] = "create" /\ buf'[c] = NewNode(c) /\ key'[c] = c
      BY <2>1, <2>5 DEF EnsureNode, Goto, Base, Types, Shape
    <3>2. Makers' = Makers \cup {c}
      <4>1. NewNode(c) # None
        BY NodeFilesAssumption DEF NewNode
      <4> QED
        BY <1>2, <2>3, <2>4, <3>1, <4>1 DEF Makers, Others
    <3>3. NodeCall(c)'
      BY <1>1, <1>3, <2>2, <2>5, <3>1, <3>2 DEF NodeCall, NewNode
    <3>4. \A d \in Calls \ {c} : About(d, "node") => NodeCall(d)'
      BY <1>1, <1>2, <2>3, <3>2 DEF NodeInv, NodeCall, NewNode, Others
    <3>5. OneMaker' => OneNode'
      <4> SUFFICES ASSUME OneMaker' PROVE OneNode'
        OBVIOUS
      <4>1. Makers' = {c}
        BY <3>2 DEF OneMaker
      <4>2. \A d \in Calls : About(d, "node")' => pc'[d] \notin {"config", "running"}
        BY <1>2, <2>4, <2>5, <3>1 DEF NodeInv, NodeCall, Others
      <4> QED
        BY <1>1, <2>5, <3>1, <4>1, <4>2 DEF OneNode, Torn
    <3> QED
      BY <1>1, <2>4, <2>5, <3>2, <3>3, <3>4, <3>5 DEF NodeInv
  <2>6. CASE file["node"].is # "missing"
    <3>1. pc'[c] = "load" /\ buf'[c] = None /\ key' = key
      BY <2>1, <2>2, <2>6 DEF EnsureNode, Goto, Base, Types, Shape
    <3>2. Makers' = Makers
      BY <1>2, <2>3, <2>4, <3>1 DEF Makers, Others
    <3>3. NodeCall(c)'
      BY <1>1, <2>6, <2>3, <3>1, <3>2 DEF NodeCall
    <3>4. \A d \in Calls \ {c} : About(d, "node") => NodeCall(d)'
      BY <1>1, <1>2, <3>2 DEF NodeInv, NodeCall, NewNode, Others
    <3>5. OneMaker' => OneNode'
      <4> SUFFICES ASSUME OneMaker' PROVE OneNode'
        OBVIOUS
      <4>1. OneMaker /\ OneNode
        BY <3>2 DEF OneMaker, NodeInv
      <4>2. \A d \in Makers : pc'[d] = pc[d] /\ answer'[d] = answer[d]
        BY <1>2, <2>3 DEF Others, Makers
      <4> QED
        BY <1>1, <1>2, <2>4, <3>1, <3>2, <4>1, <4>2 DEF OneNode, Torn, BrokenOff, Others
    <3> QED
      BY <1>1, <2>4, <3>2, <3>3, <3>4, <3>5 DEF NodeInv
  <2> QED
    BY <2>5, <2>6
<1>5. CASE LoadRegistry(c) \/ WinFile(c) \/ DesktopSeal(c)
  <2>1. /\ pc[c] \in {"load", "config", "running"} /\ About(c, "node")
        /\ task' = task /\ buf' = buf /\ answer[c] = None
    BY <1>5, Underway, TaskFields, KindFacts
       DEF LoadRegistry, WinFile, DesktopSeal, About, Base, Types, Silent
  <2>2. Makers' = Makers /\ \A d \in Calls : About(d, "node")' <=> About(d, "node")
    BY <2>1 DEF Makers, About
  <2>3. /\ pc'[c] \in {"config", "running", "done"}
        /\ pc'[c] = "done" => answer'[c] \in {"ok", "error"}
        /\ pc'[c] # "done" => /\ file["node"].is = "whole"
                              /\ key'[c] = file["node"].doc.creator
                              /\ answer' = answer
    <3>1. CASE LoadRegistry(c)
      BY <3>1 DEF LoadRegistry, Goto, Finish, Base, Types, Shape
    <3>2. CASE WinFile(c) \/ DesktopSeal(c)
      BY <3>2 DEF WinFile, DesktopSeal, Goto, Finish, Base, Types, Shape
    <3> QED
      BY <1>5, <3>1, <3>2
  <2>4. NodeCall(c)'
    BY <1>1, <2>1, <2>2, <2>3 DEF NodeInv, NodeCall, NewNode
  <2>5. \A d \in Calls \ {c} : About(d, "node") => NodeCall(d)'
    BY <1>1, <1>2, <2>2 DEF NodeInv, NodeCall, NewNode, Others
  <2>6. OneMaker' => OneNode'
    <3> SUFFICES ASSUME OneMaker' PROVE OneNode'
      OBVIOUS
    <3>1. OneMaker /\ OneNode
      BY <2>2 DEF OneMaker, NodeInv
    <3>2. /\ \A d \in Calls \ {c} : pc'[d] = pc[d] /\ (BrokenOff(d) => BrokenOff(d)')
          /\ pc[c] \notin {"create", "creating"} /\ ~ BrokenOff(c)
      BY <1>2, <1>3, <2>1 DEF Others, BrokenOff
    <3>4. Torn' => \E d \in Makers' : pc'[d] = "creating" \/ BrokenOff(d)'
      <4> SUFFICES ASSUME Torn PROVE \E d \in Makers : pc'[d] = "creating" \/ BrokenOff(d)'
        BY <1>1, <2>2 DEF Torn
      <4>1. PICK d \in Makers : pc[d] = "creating" \/ BrokenOff(d)
        BY <3>1 DEF OneNode
      <4>2. d \in Calls \ {c}
        BY <3>2, <4>1 DEF Makers
      <4> QED
        BY <3>2, <4>1, <4>2
    <3>5. \A d \in Makers : pc'[d] \in {"create", "creating"} => pc[d] = pc'[d]
      BY <2>3, <3>2 DEF Makers
    <3>6. \A d \in Calls : About(d, "node") /\ pc'[d] \in {"config", "running"} =>
             file["node"].is = "whole"
      BY <2>3, <3>1, <3>2 DEF OneNode
    <3> QED
      BY <1>1, <2>2, <3>1, <3>4, <3>5, <3>6 DEF OneNode
  <2> QED
    BY <1>1, <2>2, <2>4, <2>5, <2>6 DEF NodeInv
<1> QED
  BY <1>4, <1>5

\* A first run opens node.json and writes it, or fails to.
LEMMA NodeWrites ==
    ASSUME Base, NodeInv, NEW c \in Calls, Step(c),
           FileOf(task'[c]) = "node", Truncate(c) \/ Write(c) \/ WriteFails(c)
    PROVE  NodeInv'
<1>1. /\ task' = task /\ buf' = buf /\ key' = key /\ Others(c)
  BY StepOthers DEF Write, WriteFails, Base, Truncate
<1>2. About(c, "node") /\ pc[c] \in {"create", "creating"} /\ answer[c] = None
  BY <1>1, Underway, TaskFields, KindFacts
     DEF Truncate, Write, WriteFails, Writing, About, Base, Types, Silent
<1>3. NodeCall(c) /\ c \in Makers /\ buf[c] = NewNode(c) /\ key[c] = c
  BY <1>2 DEF NodeInv, NodeCall
<1>4. Makers' = Makers /\ \A d \in Calls : About(d, "node")' <=> About(d, "node")
  BY <1>1 DEF Makers, About
<1>5. "error" # None /\ "ok" # None
  BY NodeFilesAssumption
<1>6. \A d \in Calls \ {c} : pc'[d] = pc[d] /\ answer'[d] = answer[d] /\ key'[d] = key[d]
  BY <1>1 DEF Others
<1>7. OneMaker' => OneMaker /\ OneNode /\ \A d \in Makers : d = c
  BY <1>3, <1>4 DEF OneMaker, NodeInv
<1>8. ASSUME file'["node"].is # "missing" \/ (file' = file /\ pc'[c] = "done" /\ answer'[c] = "error"),
             file'["node"].is = "whole" => file'["node"].doc.creator \in Makers,
             pc'[c] \in {"creating", "load", "config", "done"},
             pc'[c] = "done" => answer'[c] = "error",
             pc'[c] # "done" => file'["node"].is # "missing" /\ answer'[c] = None,
             OneMaker' => OneNode'
      PROVE  NodeInv'
  <2>1. NodeCall(c)'
    BY <1>3, <1>4, <1>5, <1>1, <1>8 DEF NodeCall, NewNode
  <2>2. \A d \in Calls \ {c} : About(d, "node") => NodeCall(d)'
    BY <1>1, <1>4, <1>6, <1>8 DEF NodeInv, NodeCall, NewNode
  <2> QED
    BY <1>4, <1>8, <2>1, <2>2 DEF NodeInv
<1>9. CASE Truncate(c)
  <2>1. /\ pc[c] = "create" /\ pc'[c] = "creating" /\ answer' = answer
        /\ file'["node"] = [is |-> "empty", doc |-> None]
    BY <1>2, <1>9 DEF Truncate, Goto, About, Base, Types, Shape, Files
  <2>2. OneMaker' => OneNode'
    <3> SUFFICES ASSUME OneMaker' PROVE OneNode'
      OBVIOUS
    <3>1. file["node"].is = "missing"
      BY <1>3, <1>7, <2>1 DEF OneNode
    <3>2. \A d \in Calls : About(d, "node") => pc'[d] \notin {"config", "running"}
      BY <1>6, <2>1, <3>1 DEF NodeInv, NodeCall
    <3> QED
      BY <1>3, <1>4, <1>7, <2>1, <3>2 DEF OneNode, Torn
  <2> QED
    BY <1>2, <1>8, <2>1, <2>2
<1>10. CASE Write(c)
  <2>1. /\ pc[c] = "creating"
        /\ \E content \in AfterWrite(file["node"], NewNode(c)) : file'["node"] = content
        /\ Created(c, TRUE)
    BY <1>2, <1>3, <1>10 DEF Write, Writing, Written, About, Base, Types, Shape, Files
  <2>2. \/ file'["node"] = [is |-> "whole", doc |-> NewNode(c)]
        \/ file'["node"] = [is |-> "garbled", doc |-> None] /\ file["node"].is # "empty"
    BY <2>1 DEF AfterWrite
  <2>3. task[c].kind \in {"start", "seal"}
    BY <1>2, <2>1, Underway, TaskFields, KindFacts DEF About, Base, Types
  <2>4. pc'[c] \in {"load", "config"} /\ answer' = answer
    BY <2>1, <2>3 DEF Created, Goto, Finish, Base, Types, Shape
  <2>5. OneMaker' => OneNode'
    <3> SUFFICES ASSUME OneMaker' PROVE OneNode'
      OBVIOUS
    <3>1. file'["node"].is = "whole"
      BY <1>3, <1>7, <2>1, <2>2 DEF OneNode
    <3> QED
      BY <1>4, <1>7, <2>4, <3>1 DEF OneNode, Torn
  <2> QED
    BY <1>2, <1>3, <1>8, <2>2, <2>4, <2>5 DEF NewNode
<1>11. CASE WriteFails(c)
  <2>1. /\ Created(c, FALSE)
        /\ \/ file'["node"] = file["node"] /\ file' = file
           \/ pc[c] = "creating" /\ file'["node"] = [is |-> "garbled", doc |-> None]
    BY <1>2, <1>11 DEF WriteFails, Writing, Written, About, Base, Types, Shape, Files
  <2>2. task[c].kind \in {"start", "seal"}
    BY <1>2, Underway, TaskFields, KindFacts DEF About, Base, Types
  <2>3. pc'[c] = "done" /\ answer'[c] = "error"
    BY <2>1, <2>2 DEF Created, Goto, Finish, Base, Types, Shape
  <2>4. OneMaker' => OneNode'
    <3> SUFFICES ASSUME OneMaker' PROVE OneNode'
      OBVIOUS
    <3>1. file["node"].is \in {"missing", "empty"}
      BY <1>2, <1>3, <1>7 DEF OneNode
    <3>2. \A d \in Calls : About(d, "node") => pc'[d] \notin {"config", "running"}
      BY <1>6, <1>7, <2>3, <3>1 DEF OneNode
    <3> QED
      BY <1>3, <1>4, <1>7, <2>3, <3>2 DEF OneNode, BrokenOff
  <2> QED
    BY <1>8, <2>1, <2>3, <2>4 DEF NodeInv
<1> QED
  BY <1>9, <1>10, <1>11

\* Every step keeps NodeInv.
LEMMA StepNodeInv == Base /\ NodeInv /\ [Next]_vars => NodeInv'
<1> SUFFICES ASSUME Base, NodeInv, [Next]_vars PROVE NodeInv'
  OBVIOUS
<1>1. CASE Kill
  BY <1>1, NodeKill
<1>2. ASSUME NEW c \in Calls, Step(c) PROVE NodeInv'
  <2>1. CASE FileOf(task'[c]) # "node"
    BY <1>2, <2>1, NodeElsewhere
  <2>2. CASE FileOf(task'[c]) = "node"
    BY <1>2, <2>2, StepsOn, NodeReads, NodeWrites DEF Base
  <2> QED
    BY <2>1, <2>2
<1>3. CASE UNCHANGED vars
  BY <1>3 DEF vars, NodeInv, OneMaker, OneNode, Torn, Makers, BrokenOff, NodeCall, NewNode, About
<1> QED
  BY <1>1, <1>2, <1>3 DEF Next

\* What NodeKept says of the step of one call.
NodeStep(c) ==
    /\ MakesNode(c) => /\ \A d \in Makers : pc[d] = "create" \/ BrokenOff(d)
                       /\ \A d \in Calls : About(d, "node") => answer[d] # "ok"
    /\ Seals(c) /\ OneMaker =>
          file["node"].is = "whole" /\ file["node"].doc.creator = result'[c]
    /\ Refused(c) /\ OneMaker =>
          \/ pc[c] \in {"create", "creating"}
          \/ \E d \in Makers : pc[d] = "creating" \/ BrokenOff(d)

\* A run that makes a node finds no file, and so no run that has opened it
\* and none that has sealed.
LEMMA MakersMeet ==
    ASSUME Base, NodeInv, NEW c \in Calls, Step(c), MakesNode(c)
    PROVE  /\ \A d \in Makers : pc[d] = "create" \/ BrokenOff(d)
           /\ \A d \in Calls : About(d, "node") => answer[d] # "ok"
<1>1. FileOf(task'[c]) = "node" /\ pc[c] = "idle" /\ pc'[c] = "create"
  BY DEF MakesNode, About
<1>2. \E t \in Tasks : EnsureNode(c, t)
  BY <1>1, StepsOn DEF LoadRegistry, WinFile, DesktopSeal, Truncate, Write, WriteFails, Writing, Base
<1>3. file["node"].is = "missing"
  BY <1>1, <1>2 DEF EnsureNode, Goto, Base, Types, Shape
<1>4. \A d \in Makers :
         pc[d] \in {"create", "creating", "load", "config", "running", "done", "dead"}
  BY TaskFields, KindFacts, PlaceFacts DEF Makers, About, Base, Types, CallOK
<1> QED
  BY <1>3, <1>4 DEF NodeInv, NodeCall, Makers, BrokenOff

\* An object is sealed under the keys its run holds, which are those stored.
LEMMA SealedAsStored ==
    ASSUME Base, NodeInv, NEW c \in Calls, Step(c), Seals(c), OneMaker
    PROVE  file["node"].is = "whole" /\ file["node"].doc.creator = result'[c]
<1>1. About(c, "node") /\ result'[c] # result[c]
  BY DEF Seals
<1>2. FileOf(task'[c]) = "node"
  BY <1>1, StepOthers DEF About, Base
<1>3. WinFile(c) \/ DesktopSeal(c)
  BY <1>1, <1>2, StepsOn DEF EnsureNode, LoadRegistry, Truncate, Write, WriteFails, Base
<1>4. /\ pc[c] \in {"config", "running"}
      /\ result'[c] = key[c]
  BY <1>1, <1>3 DEF WinFile, DesktopSeal, Base, Types, Shape
<1>5. file["node"].is = "whole" /\ key[c] \in Makers /\ file["node"].doc.creator \in Makers
  BY <1>1, <1>4 DEF NodeInv, NodeCall, OneNode
<1>6. file["node"].doc.creator = key[c]
  BY <1>5 DEF OneMaker
<1> QED
  BY <1>4, <1>5, <1>6

\* A run that does not start has failed to write, or could not load the file.
LEMMA RefusedForCause ==
    ASSUME Base, NodeInv, NEW c \in Calls, Step(c), Refused(c), OneMaker
    PROVE  \/ pc[c] \in {"create", "creating"}
           \/ \E d \in Makers : pc[d] = "creating" \/ BrokenOff(d)
<1>1. /\ About(c, "node") /\ answer[c] = None /\ answer'[c] = "error"
      /\ "error" # None /\ "error" # "ok"
  BY NodeFilesAssumption DEF Refused
<1>2. FileOf(task'[c]) = "node"
  BY <1>1, StepOthers DEF About, Base
<1>3. LoadRegistry(c) \/ WinFile(c) \/ DesktopSeal(c) \/ Truncate(c) \/ Write(c) \/ WriteFails(c)
  BY <1>1, <1>2, StepsOn DEF EnsureNode, Base
<1>4. CASE Truncate(c) \/ Write(c) \/ WriteFails(c)
  BY <1>1, <1>4, Underway, TaskFields, KindFacts
     DEF Truncate, Write, WriteFails, Writing, About, Base, Types
<1>5. CASE LoadRegistry(c)
  <2>1. file["node"].is \notin {"whole", "missing"}
    BY <1>1, <1>5 DEF LoadRegistry, Goto, NodeInv, NodeCall
  <2>2. Torn
    BY <2>1 DEF Torn, Base, Types, FileOK, Files
  <2> QED
    BY <2>2 DEF NodeInv, OneNode
<1>6. CASE WinFile(c)
  <2>1. file["node"].is = "whole" /\ file["node"].doc.creator = key[c]
    BY <1>1, <1>6 DEF WinFile, NodeInv, NodeCall, OneNode, OneMaker
  <2> QED
    BY <1>1, <1>6, <2>1 DEF WinFile, Finish, Base, Types, Shape
<1>7. CASE DesktopSeal(c)
  BY <1>1, <1>7 DEF DesktopSeal, Finish, Base, Types, Shape
<1> QED
  BY <1>3, <1>4, <1>5, <1>6, <1>7

(***************************************************************************)
(* A directory has one node unless two first runs meet before either opens *)
(* node.json, and no run makes one where an object was sealed; what is     *)
(* sealed is sealed under the stored keys, and a run that fails to start   *)
(* was stopped by its own write, by the first run still writing, or by one *)
(* that was broken off.                                                    *)
(***************************************************************************)
THEOREM NodesAreKept == Spec => NodeKept
<1>1. Init => NodeInv
  BY DEF Init, NodeInv, OneMaker, OneNode, Torn, Makers, About, Files
<1>2. Base /\ NodeInv /\ [Next]_vars => [\A c \in Calls : NodeStep(c)]_vars
  <2> SUFFICES ASSUME Base, NodeInv, Next, NEW c \in Calls PROVE NodeStep(c)
    OBVIOUS
  <2>1. CASE Kill
    BY <2>1, KillEffect, NodeFilesAssumption DEF NodeStep, MakesNode, Seals, Refused, Base
  <2>2. CASE Step(c)
    BY <2>2, MakersMeet, SealedAsStored, RefusedForCause DEF NodeStep
  <2>3. ASSUME NEW d \in Calls \ {c}, Step(d) PROVE NodeStep(c)
    <3>1. pc'[c] = pc[c] /\ answer'[c] = answer[c] /\ result'[c] = result[c]
      BY <2>3, StepOthers DEF Others, Base
    <3> QED
      BY <3>1, NodeFilesAssumption DEF NodeStep, MakesNode, Seals, Refused
  <2> QED
    BY <2>1, <2>2, <2>3 DEF Next
<1> QED
  BY <1>1, <1>2, InitBase, StepBase, StepNodeInv, PTL DEF Spec, NodeKept, NodeStep
-----------------------------------------------------------------------------
(***************************************************************************)
(* trusted_keys.json.  While nothing disturbed it, a call that is about to *)
(* open the file holds the stored list as the user asked to change it, and *)
(* the one call that has the file open holds what is promised next.        *)
(***************************************************************************)
Kept == TrustedBy(TrustStoreLoad) = promise.trusted

TrustCall(c) ==
    /\ pc[c] = "open" => /\ file["trust"].is # "empty"
                         /\ buf[c] = [keys |-> Changed(task[c])]
    /\ pc[c] = "write" => /\ file["trust"].is = "empty"
                          /\ TrustedBy(buf[c].keys) = Promised(task[c]).trusted

Savers == {c \in Calls : About(c, "trust") /\ pc[c] = "write"}

OneSaver == \A c, d \in Savers : c = d

TrustInv ==
    Calm("trust") =>
        /\ file["trust"].is # "garbled"
        /\ file["trust"].is # "empty" => Kept
        /\ file["trust"].is = "empty" => HalfWritten("trust")
        /\ OneSaver
        /\ \A c \in Calls : About(c, "trust") => TrustCall(c)

\* A change of the list is what is promised of it, if the list was.
LEMMA ChangeIsPromised ==
    ASSUME Types, Kept, NEW t \in Tasks, t.kind \in {"add", "remove"}
    PROVE  TrustedBy(Changed(t)) = Promised(t).trusted
<1>1. t.key \in Friends /\ promise = [name |-> promise.name, trusted |-> promise.trusted]
  BY TaskFields DEF Types, SharedOK
<1>2. CASE t.kind = "add"
  <2>1. Promised(t).trusted = promise.trusted \cup {t.key}
    BY <1>1, <1>2 DEF Promised
  <2>2. TrustedBy(TrustStoreAdd(TrustStoreLoad, t.key)) = TrustedBy(TrustStoreLoad) \cup {t.key}
    <3> DEFINE list  == TrustStoreLoad
               entry == [key |-> t.key, revoked |-> FALSE, official |-> FALSE]
    <3>1. entry.key = t.key /\ ~ entry.revoked
      OBVIOUS
    <3>2. TrustStoreAdd(list, t.key) = IF IsTrusted(list, t.key) THEN list ELSE list \cup {entry}
      BY DEF TrustStoreAdd
    <3> HIDE DEF entry, list
    <3>3. \A k : IsTrusted(list \cup {entry}, k) <=> IsTrusted(list, k) \/ k = t.key
      BY <3>1 DEF IsTrusted
    <3>4. TrustedBy(TrustStoreAdd(list, t.key)) = TrustedBy(list) \cup {t.key}
      BY <1>1, <3>2, <3>3 DEF TrustedBy
    <3> QED
      BY <3>4 DEF list
  <2> QED
    BY <1>2, <2>1, <2>2 DEF Changed, Kept
<1>3. CASE t.kind = "remove"
  <2>1. Promised(t).trusted = promise.trusted \ {t.key}
    BY <1>1, <1>3 DEF Promised
  <2>2. TrustedBy(TrustStoreRemove(TrustStoreLoad, t.key)) = TrustedBy(TrustStoreLoad) \ {t.key}
    BY DEF TrustedBy, IsTrusted, TrustStoreRemove
  <2> QED
    BY <1>3, <2>1, <2>2 DEF Changed, Kept
<1> QED
  BY <1>2, <1>3

\* What is promised of the list is not changed by a step on another file.
LEMMA PromiseElsewhere ==
    ASSUME Types, NEW c \in Calls, Step(c), FileOf(task'[c]) # "trust"
    PROVE  promise'.trusted = promise.trusted
<1>1. CASE Write(c) \/ WriteFails(c)
  <2>1. PICK ok \in BOOLEAN : Written(c, ok)
    BY <1>1 DEF Write, WriteFails
  <2>2. task' = task /\ pc[c] \in {"create", "creating", "open", "write"}
    BY <1>1 DEF Write, WriteFails, Writing
  <2>3. pc[c] \in {"open", "write"} => task[c].kind = "rename"
    BY <2>2, Underway, KindFacts DEF Types
  <2> QED
    BY <2>1, <2>2, <2>3 DEF Written, Created, Rewritten, Types, SharedOK
<1>2. ~ \E t \in Tasks : ChangeTrust(c, t) \/ VerifyArtifact(c, t)
  <2> SUFFICES ASSUME NEW t \in Tasks, ChangeTrust(c, t) \/ VerifyArtifact(c, t)
               PROVE  FALSE
    OBVIOUS
  <2>1. task'[c] = t
    BY DEF ChangeTrust, VerifyArtifact, Idle, Types, Shape
  <2> QED
    BY <2>1, KindFacts DEF ChangeTrust, VerifyArtifact
<1> QED
  BY <1>1, <1>2 DEF Step, LoadIdentity, EnsureNode, RereadIdentity, LoadRegistry, WinFile,
     DesktopSeal, Truncate

\* A call keeps what is said of it while the file and the promise stay.
LEMMA TrustCallStays ==
    ASSUME NEW d \in Calls, TrustCall(d), file'["trust"] = file["trust"],
           promise'.trusted = promise.trusted, promise' \in [name : Names \cup {None}, trusted : SUBSET Friends],
           promise \in [name : Names \cup {None}, trusted : SUBSET Friends],
           pc'[d] = pc[d] \/ pc'[d] = "dead", task'[d] = task[d], buf'[d] = buf[d]
    PROVE  TrustCall(d)'
<1>1. Changed(task[d])' = Changed(task[d])
  BY DEF Changed, TrustStoreLoad
<1>2. Promised(task[d])'.trusted = Promised(task[d]).trusted
  BY DEF Promised
<1> QED
  BY <1>1, <1>2 DEF TrustCall, TrustedBy
-----------------------------------------------------------------------------
\* A step on another file, and a death, are nothing to the list.
LEMMA TrustElsewhere ==
    ASSUME Base, Base', TrustInv, NEW c \in Calls, Step(c), FileOf(task'[c]) # "trust"
    PROVE  TrustInv'
<1> SUFFICES ASSUME Calm("trust")' PROVE TrustInv'
  BY DEF TrustInv
<1>1. file'["trust"] = file["trust"] /\ Calm("trust")
  BY StepElsewhere DEF Base, Calm, Files
<1>2. Others(c) /\ (task'[c] = task[c] \/ task[c] = None)
  BY StepOthers DEF Base
<1>3. ~ About(c, "trust")' /\ ~ About(c, "trust")
  BY <1>2 DEF About
<1>4. promise'.trusted = promise.trusted
  BY PromiseElsewhere DEF Base
<1>5. \A d \in Calls \ {c} : /\ About(d, "trust")' <=> About(d, "trust")
                             /\ TrustCall(d) => TrustCall(d)'
  BY <1>1, <1>2, <1>4, TrustCallStays DEF About, Others, Base, Types, SharedOK
<1>6. HalfWritten("trust") => HalfWritten("trust")'
  <2> SUFFICES ASSUME NEW d \in Calls, pc[d] \in Writing, FileOf(task[d]) = "trust"
               PROVE  HalfWritten("trust")'
    BY DEF HalfWritten
  <2>1. About(d, "trust")
    BY Underway, TaskFields DEF Writing, About, Base, Types
  <2> QED
    BY <2>1, <1>2, <1>3 DEF HalfWritten, Others
<1>7. Savers' \subseteq Savers
  BY <1>2, <1>3, <1>5 DEF Others, Savers
<1>8. Kept => Kept'
  BY <1>1, <1>4 DEF Kept, TrustStoreLoad, TrustedBy
<1> QED
  BY <1>1, <1>3, <1>5, <1>6, <1>7, <1>8 DEF TrustInv, OneSaver

\* A death leaves fewer writers, and the list and the promise as they were.
LEMMA TrustKill ==
    ASSUME Base, TrustInv, Kill
    PROVE  TrustInv'
<1> SUFFICES ASSUME Calm("trust")' PROVE TrustInv'
  BY DEF TrustInv
<1>1. file'["trust"] = file["trust"] /\ Calm("trust")
  BY KillLeaves DEF Base, Calm, Files
<1>2. /\ \A d \in Calls : pc'[d] = pc[d] \/ pc'[d] = "dead"
      /\ UNCHANGED <<task, buf, key, answer, result, promise>>
  BY KillEffect DEF Base
<1>3. HalfWritten("trust") => HalfWritten("trust")'
  BY <1>2, KillLeaves DEF HalfWritten, Base, Calm
<1>4. \A d \in Calls : TrustCall(d) => TrustCall(d)'
  BY <1>1, <1>2, TrustCallStays DEF Base, Types, SharedOK
<1>5. \A d \in Calls : About(d, "trust")' <=> About(d, "trust")
  BY <1>2 DEF About
<1>6. Savers' \subseteq Savers
  BY <1>2, <1>5 DEF Savers
<1>7. Kept => Kept'
  BY <1>1, <1>2 DEF Kept, TrustStoreLoad, TrustedBy
<1> QED
  BY <1>1, <1>3, <1>4, <1>5, <1>6, <1>7 DEF TrustInv, OneSaver

(***************************************************************************)
(* A call reads the list.  No other has the file open, or it is disturbed; *)
(* a command that has nothing to change promises what is stored.           *)
(***************************************************************************)
LEMMA TrustReads ==
    ASSUME Base, Base', TrustInv, NEW c \in Calls, Step(c), Calm("trust")',
           NEW t \in Tasks, ChangeTrust(c, t) \/ VerifyArtifact(c, t)
    PROVE  TrustInv'
<1>1. /\ file' = file /\ Calm("trust") /\ ~ HalfWritten("trust")
      /\ pc[c] = "idle" /\ task[c] = None /\ task'[c] = t
      /\ t.kind \in {"add", "remove", "verify"}
  BY DisturbedStays DEF ChangeTrust, VerifyArtifact, Noting, Calm, Idle, Base, Types, Shape, CallOK
<1>2. Others(c)
  BY StepOthers DEF Base
<1>3. file["trust"].is # "empty" /\ Kept
  BY <1>1 DEF TrustInv
<1>4. pc'[c] \in {"open", "done"} /\ (pc'[c] = "open" => ChangeTrust(c, t) /\ promise' = promise)
  BY <1>1 DEF ChangeTrust, VerifyArtifact, Finish, Goto, Base, Types, Shape
<1>5. promise'.trusted = promise.trusted
  <2>1. CASE Changed(t) = TrustStoreLoad /\ t.kind \in {"add", "remove"}
    <3>1. Promised(t).trusted = promise.trusted
      BY <2>1, <1>3, ChangeIsPromised DEF Base, Kept
    <3> QED
      BY <3>1 DEF ChangeTrust, VerifyArtifact
  <2>2. CASE ~ (Changed(t) = TrustStoreLoad /\ t.kind \in {"add", "remove"})
    BY <2>2 DEF ChangeTrust, VerifyArtifact
  <2> QED
    BY <2>1, <2>2
<1>6. \A d \in Calls \ {c} : /\ About(d, "trust")' <=> About(d, "trust")
                             /\ TrustCall(d) => TrustCall(d)'
  BY <1>1, <1>2, <1>5, TrustCallStays DEF About, Others, Base, Types, SharedOK
<1>7. TrustCall(c)'
  <2>1. ASSUME pc'[c] = "open" PROVE buf'[c] = [keys |-> Changed(t)]
    BY <2>1, <1>4 DEF ChangeTrust, Finish, Goto, Base, Types, Shape
  <2>2. Changed(t)' = Changed(t)
    BY <1>1 DEF Changed, TrustStoreLoad
  <2> QED
    BY <1>1, <1>3, <1>4, <2>1, <2>2 DEF TrustCall
<1>8. Savers' \subseteq Savers
  BY <1>2, <1>4, <1>6 DEF Others, Savers
<1>9. Kept'
  BY <1>1, <1>3, <1>5 DEF Kept, TrustStoreLoad, TrustedBy
<1> QED
  BY <1>1, <1>3, <1>6, <1>7, <1>8, <1>9 DEF TrustInv, OneSaver

(***************************************************************************)
(* A call rewrites the list.  It opens the file alone, or disturbs it, and *)
(* what it then writes is what it promises.                                *)
(***************************************************************************)
LEMMA TrustWrites ==
    ASSUME Base, Base', TrustInv, NEW c \in Calls, Step(c), Calm("trust")',
           FileOf(task'[c]) = "trust", Truncate(c) \/ Write(c)
    PROVE  TrustInv'
<1>1. Calm("trust") /\ task' = task /\ Others(c)
  BY DisturbedStays, StepOthers DEF Calm, Write, Base, Truncate
<1>2. /\ About(c, "trust") /\ pc[c] \in {"open", "write"}
      /\ task[c] \in Tasks /\ task[c].kind \in {"add", "remove"}
  BY <1>1, Underway, TaskFields, KindFacts DEF Truncate, Write, Writing, About, Base, Types
<1>3. TrustCall(c)
  BY <1>1, <1>2 DEF TrustInv
<1>4. \A d \in Calls : About(d, "trust")' <=> About(d, "trust")
  BY <1>1 DEF About
<1>5. CASE Truncate(c)
  <2>1. On("trust") = {c} /\ pc[c] = "open"
    BY <1>1, <1>2, <1>5, DisturbedStays DEF Truncate, About, Calm
  <2>2. \A d \in Calls \ {c} : About(d, "trust") => pc'[d] \notin {"open", "write"}
    BY <1>1, <2>1 DEF On, Active, About, Others
  <2>3. /\ file'["trust"] = [is |-> "empty", doc |-> None]
        /\ pc'[c] = "write" /\ buf' = buf /\ promise' = promise
    BY <1>2, <1>5, <2>1 DEF Truncate, Goto, About, Base, Types, Shape, Files
  <2>4. HalfWritten("trust")'
    BY <1>1, <1>2, <2>3 DEF HalfWritten, Writing, About
  <2>5. TrustedBy(buf[c].keys) = Promised(task[c]).trusted
    BY <1>1, <1>2, <1>3, <2>1, ChangeIsPromised DEF TrustInv, TrustCall, Base
  <2>6. TrustCall(c)'
    BY <1>1, <2>3, <2>5 DEF TrustCall, TrustedBy, Promised
  <2>7. \A d \in Calls \ {c} : About(d, "trust") => TrustCall(d)'
    BY <2>2 DEF TrustCall
  <2>8. Savers' \subseteq {c}
    BY <1>4, <2>2 DEF Savers
  <2> QED
    BY <1>4, <2>3, <2>4, <2>6, <2>7, <2>8 DEF TrustInv, OneSaver
<1>6. CASE Write(c)
  <2>1. pc[c] = "write" /\ file["trust"].is = "empty"
    BY <1>2, <1>3, <1>6 DEF Write, Writing, TrustCall
  <2>2. file'["trust"] = [is |-> "whole", doc |-> buf[c]]
    BY <1>2, <1>6, <2>1 DEF Write, AfterWrite, About, Base, Types, Shape, Files
  <2>3. pc'[c] = "done" /\ promise' = Promised(task[c])
    BY <1>2, <1>6, <2>1 DEF Write, Written, Rewritten, Goto, Finish, Base, Types, Shape
  <2>4. \A d \in Calls \ {c} : About(d, "trust") => pc'[d] \notin {"open", "write"}
    <3>1. \A d \in Calls \ {c} : About(d, "trust") => pc[d] # "write"
      BY <1>1, <1>2, <2>1 DEF TrustInv, OneSaver, Savers
    <3>2. \A d \in Calls \ {c} : About(d, "trust") => pc[d] # "open"
      BY <1>1, <2>1 DEF TrustInv, TrustCall
    <3> QED
      BY <1>1, <3>1, <3>2 DEF Others
  <2>5. \A d \in Calls : About(d, "trust") => TrustCall(d)'
    BY <2>3, <2>4 DEF TrustCall
  <2>6. Kept'
    BY <1>3, <2>1, <2>2, <2>3 DEF TrustCall, Kept, TrustStoreLoad, TrustedBy
  <2>7. Savers' = {}
    BY <1>4, <2>3, <2>4 DEF Savers
  <2> QED
    BY <1>4, <2>2, <2>5, <2>6, <2>7 DEF TrustInv, OneSaver
<1> QED
  BY <1>5, <1>6

\* Every step keeps TrustInv.
LEMMA StepTrustInv == Base /\ TrustInv /\ [Next]_vars => TrustInv'
<1> SUFFICES ASSUME Base, TrustInv, [Next]_vars PROVE TrustInv'
  OBVIOUS
<1>0. Base'
  BY StepBase
<1>1. CASE Kill
  BY <1>1, TrustKill
<1>2. ASSUME NEW c \in Calls, Step(c) PROVE TrustInv'
  <2>1. CASE FileOf(task'[c]) # "trust"
    BY <1>0, <1>2, <2>1, TrustElsewhere
  <2>2. CASE FileOf(task'[c]) = "trust" /\ Calm("trust")'
    <3>1. ~ WriteFails(c)
      BY <1>2, <2>2, DisturbedStays DEF Calm
    <3> QED
      BY <1>0, <1>2, <2>2, <3>1, StepsOn, TrustReads, TrustWrites DEF Base
  <2> QED
    BY <2>1, <2>2 DEF TrustInv
<1>3. CASE UNCHANGED vars
  BY <1>3 DEF vars, TrustInv, OneSaver, Savers, TrustCall, Kept, TrustedBy, TrustStoreLoad,
     Changed, Promised, About, Calm, HalfWritten
<1> QED
  BY <1>1, <1>2, <1>3 DEF Next

(***************************************************************************)
(* While no two calls meet on the list and no write of it fails, whom the  *)
(* list trusts is what was acknowledged last of each key.                  *)
(***************************************************************************)
THEOREM TrustIsKept == Spec => []TrustKept
<1>1. Init => TrustInv
  <2> SUFFICES ASSUME Init PROVE TrustInv
    OBVIOUS
  <2>1. PICK list \in FirstTrust :
          /\ file = [f \in Files |-> IF f = "trust" /\ list # {}
                                     THEN [is |-> "whole", doc |-> [keys |-> list]]
                                     ELSE [is |-> "missing", doc |-> None]]
          /\ promise = [name    |-> None,
                        trusted |-> {e.key : e \in {x \in list : ~ x.revoked}}]
    BY DEF Init
  <2>2. TrustStoreLoad = list /\ file["trust"].is \notin {"garbled", "empty"}
    BY <2>1 DEF TrustStoreLoad, Files
  <2>3. list \subseteq Entries
    BY NodeFilesAssumption
  <2>4. Kept
    BY <2>1, <2>2, <2>3 DEF Kept, TrustedBy, IsTrusted, Entries
  <2> QED
    BY <2>2, <2>4 DEF Init, TrustInv, OneSaver, Savers, About
<1>2. TrustInv => TrustKept
  BY DEF TrustInv, TrustKept, Kept
<1> QED
  BY <1>1, <1>2, InitBase, StepBase, StepTrustInv, PTL DEF Spec
-----------------------------------------------------------------------------
(***************************************************************************)
(* win-identity.json.  While nothing disturbed it: before it is there, the *)
(* calls are about to create it; while one call has it open, all others    *)
(* are done, under the key that call writes back; and once it is there     *)
(* every call works with the key in it.                                    *)
(***************************************************************************)
IdentityCall(c) ==
    LET stored == file["identity"]
    IN  /\ pc[c] # "dead" => key[c] # None
        /\ stored.is = "missing" => pc[c] \in {"create", "dead"}
        /\ stored.is = "empty" => pc[c] \in {"creating", "write", "done", "dead"}
        /\ stored.is = "whole" => /\ pc[c] \in {"reread", "open", "done", "dead"}
                                  /\ pc[c] # "dead" => key[c] = stored.doc.key
        /\ pc[c] \in {"create", "creating"} => /\ buf[c] = [key |-> c, name |-> None]
                                               /\ key[c] = c
        /\ pc[c] = "reread" /\ buf[c] # None => buf[c].key = key[c]
        /\ pc[c] \in {"open", "write"} => buf[c] = [key |-> key[c], name |-> task[c].name]
        /\ pc[c] = "creating" => promise.name = None

\* A call that has the file open is alone, and the others used its key.
Alone(c, d) ==
    pc[c] \in Writing /\ d # c =>
        /\ pc[d] \in {"done", "dead"}
        /\ pc[d] = "done" => pc[c] = "write" /\ key[d] = key[c]

AllAlone == \A c, d \in Calls : About(c, "identity") /\ About(d, "identity") => Alone(c, d)

IdentityInv ==
    Calm("identity") =>
        /\ file["identity"].is # "garbled"
        /\ file["identity"].is = "missing" => promise.name = None
        /\ file["identity"].is = "empty" => HalfWritten("identity")
        /\ file["identity"].is = "whole" => /\ file["identity"].doc.key # None
                                            /\ file["identity"].doc.name = promise.name
        /\ AllAlone
        /\ \A c \in Calls : About(c, "identity") => IdentityCall(c)

\* Nobody has the file open who is not known to work on it.
LEMMA WritersAreAbout ==
    ASSUME Types, NEW f \in Files, HalfWritten(f)
    PROVE  \E d \in Calls : About(d, f) /\ pc[d] \in Writing
  BY Underway, TaskFields DEF HalfWritten, Writing, About, Types

\* The name that was promised is changed by a rename only.
LEMMA NameElsewhere ==
    ASSUME Types, NEW c \in Calls, Step(c), FileOf(task'[c]) # "identity"
    PROVE  promise'.name = promise.name
<1> USE DEF Promised
<1>1. CASE Write(c) \/ WriteFails(c)
  <2>1. PICK ok \in BOOLEAN : Written(c, ok)
    BY <1>1 DEF Write, WriteFails
  <2>2. task' = task /\ pc[c] \in {"create", "creating", "open", "write"}
    BY <1>1 DEF Write, WriteFails, Writing
  <2>3. pc[c] \in {"open", "write"} => task[c].kind \in {"add", "remove"}
    BY <2>2, Underway, KindFacts DEF Types
  <2> QED
    BY <2>1, <2>2, <2>3 DEF Written, Created, Rewritten, Types, SharedOK
<1>2. CASE \E t \in Tasks : ChangeTrust(c, t) \/ VerifyArtifact(c, t)
  BY <1>2 DEF ChangeTrust, VerifyArtifact, Types, SharedOK
<1> QED
  BY <1>1, <1>2 DEF Step, LoadIdentity, EnsureNode, RereadIdentity, LoadRegistry, WinFile,
     DesktopSeal, Truncate

\* A step on another file is nothing to the identity.
LEMMA IdentityElsewhere ==
    ASSUME Base, IdentityInv, NEW c \in Calls, Step(c), FileOf(task'[c]) # "identity"
    PROVE  IdentityInv'
<1> SUFFICES ASSUME Calm("identity")' PROVE IdentityInv'
  BY DEF IdentityInv
<1>1. file'["identity"] = file["identity"] /\ Calm("identity")
  BY StepElsewhere DEF Base, Calm, Files
<1>2. Others(c) /\ (task'[c] = task[c] \/ task[c] = None)
  BY StepOthers DEF Base
<1>3. ~ About(c, "identity")' /\ ~ About(c, "identity")
  BY <1>2 DEF About
<1>4. promise'.name = promise.name
  BY NameElsewhere DEF Base
<1>5. \A d \in Calls : About(d, "identity")' => d # c /\ About(d, "identity")
  BY <1>2, <1>3 DEF About, Others
<1>6. \A d \in Calls \ {c} : IdentityCall(d) => IdentityCall(d)'
  BY <1>1, <1>2, <1>4 DEF Others, IdentityCall
<1>7. \A d, e \in Calls \ {c} : Alone(d, e) => Alone(d, e)'
  BY <1>2 DEF Others, Alone
<1>8. HalfWritten("identity") => HalfWritten("identity")'
  <2> SUFFICES ASSUME HalfWritten("identity") PROVE HalfWritten("identity")'
    OBVIOUS
  <2>1. PICK d \in Calls : About(d, "identity") /\ pc[d] \in Writing
    BY WritersAreAbout DEF Base, Files
  <2> QED
    BY <2>1, <1>2, <1>3 DEF HalfWritten, Others, About
<1>9. AllAlone'
  BY <1>1, <1>5, <1>7 DEF IdentityInv, AllAlone
<1>10. \A d \in Calls : About(d, "identity")' => IdentityCall(d)'
  BY <1>1, <1>5, <1>6 DEF IdentityInv
<1> QED
  BY <1>1, <1>4, <1>8, <1>9, <1>10 DEF IdentityInv

\* A death leaves fewer writers, and the identity and its name as they were.
LEMMA IdentityKill ==
    ASSUME Base, IdentityInv, Kill
    PROVE  IdentityInv'
<1> SUFFICES ASSUME Calm("identity")' PROVE IdentityInv'
  BY DEF IdentityInv
<1>1. file'["identity"] = file["identity"] /\ Calm("identity")
  BY KillLeaves DEF Base, Calm, Files
<1>2. /\ \A d \in Calls : pc'[d] = pc[d] \/ pc'[d] = "dead"
      /\ UNCHANGED <<task, buf, key, answer, result, promise>>
  BY KillEffect DEF Base
<1>3. HalfWritten("identity") => HalfWritten("identity")'
  BY <1>2, KillLeaves DEF HalfWritten, Base, Calm
<1>4. \A d \in Calls : IdentityCall(d) => IdentityCall(d)'
  BY <1>1, <1>2 DEF IdentityCall
<1>5. \A d, e \in Calls : Alone(d, e) => Alone(d, e)'
  BY <1>2 DEF Alone, Writing
<1>6. \A d \in Calls : About(d, "identity")' <=> About(d, "identity")
  BY <1>2 DEF About
<1>7. AllAlone'
  BY <1>1, <1>5, <1>6 DEF IdentityInv, AllAlone
<1> QED
  BY <1>1, <1>2, <1>3, <1>4, <1>6, <1>7 DEF IdentityInv

(***************************************************************************)
(* A call reads the identity, for the first time or the second.  No other  *)
(* has the file open, or it is disturbed.                                  *)
(***************************************************************************)
LEMMA IdentityReads ==
    ASSUME Base, IdentityInv, NEW c \in Calls, Step(c), Calm("identity")',
           (\E t \in Tasks : LoadIdentity(c, t)) \/ RereadIdentity(c)
    PROVE  IdentityInv'
<1>1. /\ file' = file /\ promise' = promise /\ Calm("identity") /\ ~ HalfWritten("identity")
  BY DisturbedStays DEF LoadIdentity, RereadIdentity, Noting, Calm
<1>2. Others(c)
  BY StepOthers DEF Base
<1>3. file["identity"].is \in {"missing", "whole"}
  BY <1>1 DEF IdentityInv, Base, Types, FileOK, Files
<1>4. \A d \in Calls : About(d, "identity") => pc[d] \notin Writing
  BY <1>1 DEF HalfWritten, About
<1>5. \A d \in Calls \ {c} : /\ About(d, "identity")' <=> About(d, "identity")
                             /\ IdentityCall(d) => IdentityCall(d)'
                             /\ pc'[d] = pc[d]
  BY <1>1, <1>2 DEF About, Others, IdentityCall
<1>6. ASSUME pc'[c] \notin Writing, About(c, "identity")' => IdentityCall(c)'
      PROVE  IdentityInv'
  <2>1. \A d \in Calls : About(d, "identity")' => pc'[d] \notin Writing
    BY <1>4, <1>5, <1>6
  <2>2. AllAlone'
    BY <2>1 DEF AllAlone, Alone
  <2> QED
    BY <1>1, <1>3, <1>5, <1>6, <2>2 DEF IdentityInv
<1>7. ASSUME NEW t \in Tasks, LoadIdentity(c, t)
      PROVE  pc'[c] \notin Writing /\ IdentityCall(c)'
  <2>1. pc[c] = "idle" /\ buf[c] = None /\ c # None
    BY <1>7, NodeFilesAssumption DEF LoadIdentity, Idle, Base, Silent
  <2>2. CASE file["identity"].is = "missing"
    <3>1. ReadIdentity = [key |-> None, name |-> None]
      BY <2>2 DEF ReadIdentity
    <3>2. NewIdentity(c, t) = [key |-> c, name |-> None]
      BY <3>1 DEF NewIdentity
    <3>3. pc'[c] = "create" /\ key'[c] = c /\ buf'[c] = [key |-> c, name |-> None]
      BY <1>7, <3>1, <3>2 DEF LoadIdentity, Goto, Base, Types, Shape
    <3> QED
      BY <1>1, <2>1, <2>2, <3>3 DEF IdentityCall, Writing
  <2>3. CASE file["identity"].is = "whole"
    <3>1. ReadIdentity = file["identity"].doc /\ file["identity"].doc.key # None
      BY <1>1, <2>3 DEF ReadIdentity, IdentityInv
    <3>2. /\ pc'[c] \in {"done", "reread"}
          /\ key'[c] = file["identity"].doc.key /\ buf'[c] = None
      BY <1>7, <2>1, <3>1 DEF LoadIdentity, Finish, Goto, Base, Types, Shape
    <3> QED
      BY <1>1, <2>3, <3>1, <3>2 DEF IdentityCall, Writing
  <2> QED
    BY <1>3, <2>2, <2>3
<1>8. CASE RereadIdentity(c)
  <2>1. About(c, "identity") /\ IdentityCall(c)
    BY <1>1, <1>8, Underway, TaskFields, KindFacts DEF RereadIdentity, About, IdentityInv, Base, Types
  <2>2. file["identity"].is = "whole" /\ key[c] = file["identity"].doc.key /\ key[c] # None
    BY <1>3, <1>8, <2>1 DEF RereadIdentity, IdentityCall
  <2>3. file["identity"].doc = [key |-> file["identity"].doc.key, name |-> file["identity"].doc.name]
    BY <2>2 DEF Base, Types, FileOK, Files, Documents, Identities
  <2>4. [ReadIdentity EXCEPT !.name = task[c].name] = [key |-> key[c], name |-> task[c].name]
    BY <2>2, <2>3 DEF ReadIdentity
  <2>5. /\ pc'[c] = "open" /\ key' = key /\ task' = task
        /\ buf'[c] = [key |-> key[c], name |-> task[c].name]
    BY <1>8, <2>4 DEF RereadIdentity, Goto, Base, Types, Shape
  <2>6. IdentityCall(c)'
    BY <1>1, <2>1, <2>2, <2>5 DEF IdentityCall
  <2> QED
    BY <1>6, <2>5, <2>6 DEF Writing
<1> QED
  BY <1>6, <1>7, <1>8

(***************************************************************************)
(* A call rewrites the identity: it opens the file alone, or disturbs it,  *)
(* and writes back the key the others used.                                *)
(***************************************************************************)
LEMMA IdentityWrites ==
    ASSUME Base, IdentityInv, NEW c \in Calls, Step(c), Calm("identity")',
           FileOf(task'[c]) = "identity", Truncate(c) \/ Write(c)
    PROVE  IdentityInv'
<1>1. /\ Calm("identity") /\ task' = task /\ Others(c) /\ UNCHANGED <<buf, key>>
  BY DisturbedStays, StepOthers DEF Calm, Write, Base, Truncate
<1>2. /\ About(c, "identity") /\ task[c].kind \in {"use", "rename"}
      /\ pc[c] \in {"create", "creating", "open", "write"}
  BY <1>1, Underway, TaskFields, KindFacts DEF Truncate, Write, Writing, About, Base, Types
<1>3. IdentityCall(c) /\ key[c] # None
  BY <1>1, <1>2 DEF IdentityInv, IdentityCall
<1>4. \A d \in Calls : About(d, "identity")' <=> About(d, "identity")
  BY <1>1 DEF About
<1>5. CASE Truncate(c)
  <2>1. On("identity") = {c} /\ pc[c] \in {"create", "open"}
    BY <1>1, <1>2, <1>5, DisturbedStays DEF Truncate, About, Calm
  <2>2. \A d \in Calls \ {c} : About(d, "identity") => pc[d] \in {"done", "dead"} /\ pc'[d] = pc[d]
    BY <1>1, <2>1 DEF On, Active, About, Others, Base, Types, CallOK
  <2>3. /\ file'["identity"] = [is |-> "empty", doc |-> None] /\ promise' = promise
        /\ pc'[c] = IF pc[c] = "create" THEN "creating" ELSE "write"
    BY <1>2, <1>5 DEF Truncate, Goto, About, Base, Types, Shape, Files
  <2>4. HalfWritten("identity")'
    BY <1>1, <1>2, <2>3 DEF HalfWritten, Writing, About
  <2>5. pc[c] = "create" => file["identity"].is = "missing" /\ promise.name = None
    BY <1>1, <1>3 DEF IdentityCall, IdentityInv, Base, Types, FileOK, Files
  <2>6. pc[c] = "open" => file["identity"].is = "whole" /\ key[c] = file["identity"].doc.key
    BY <1>1, <1>3 DEF IdentityCall, IdentityInv, Base, Types, FileOK, Files
  <2>7. IdentityCall(c)'
    BY <1>1, <1>3, <2>1, <2>3, <2>5 DEF IdentityCall
  <2>8. \A d \in Calls \ {c} : About(d, "identity") =>
           /\ IdentityCall(d)
           /\ pc[d] = "done" => pc[c] = "open" /\ key[d] = key[c]
    <3>1. \A d \in Calls : About(d, "identity") => IdentityCall(d)
      BY <1>1 DEF IdentityInv
    <3> QED
      BY <2>1, <2>5, <2>6, <3>1 DEF IdentityCall
  <2>9. \A d \in Calls \ {c} : About(d, "identity") => IdentityCall(d)'
    BY <1>1, <2>2, <2>3, <2>8 DEF IdentityCall
  <2>10. AllAlone'
    BY <1>1, <1>4, <2>1, <2>2, <2>3, <2>8 DEF AllAlone, Alone, Writing
  <2> QED
    BY <1>4, <2>3, <2>4, <2>7, <2>9, <2>10 DEF IdentityInv
<1>6. CASE Write(c)
  <2>1. pc[c] \in Writing /\ file["identity"].is = "empty"
    BY <1>1, <1>2, <1>3, <1>6 DEF Write, Writing, IdentityCall, IdentityInv, Base, Types, FileOK, Files
  <2>2. file'["identity"] = [is |-> "whole", doc |-> buf[c]]
    BY <1>2, <1>6, <2>1 DEF Write, AfterWrite, About, Base, Types, Shape, Files
  <2>3. /\ pc'[c] \in {"done", "reread"}
        /\ buf[c].key = key[c] /\ buf[c].name = promise'.name
    <3>1. CASE pc[c] = "creating"
      <4>1. Created(c, TRUE)
        BY <1>6, <3>1 DEF Write, Written
      <4>2. pc'[c] \in {"done", "reread"} /\ promise' = promise
        BY <1>2, <4>1 DEF Created, Goto, Finish, Base, Types, Shape
      <4> QED
        BY <1>3, <3>1, <4>2 DEF IdentityCall
    <3>2. CASE pc[c] = "write"
      <4>1. task[c].kind = "rename" /\ promise \in [name : Names \cup {None}, trusted : SUBSET Friends]
        BY <1>2, <3>2, Underway DEF Base, Types, SharedOK
      <4> QED
        BY <1>3, <1>6, <3>2, <4>1 DEF Write, Written, Rewritten, Goto, Finish, IdentityCall, Base, Types, Shape
    <3> QED
      BY <2>1, <3>1, <3>2 DEF Writing
  <2>4. IdentityCall(c)'
    BY <1>1, <1>3, <2>2, <2>3 DEF IdentityCall
  <2>5. \A d \in Calls \ {c} : About(d, "identity") =>
           /\ pc'[d] = pc[d] /\ pc[d] \in {"done", "dead"} /\ (pc[d] = "done" => key[d] = key[c])
    BY <1>1, <1>2, <2>1 DEF IdentityInv, AllAlone, Alone, Others
  <2>6. \A d \in Calls \ {c} : About(d, "identity") => IdentityCall(d)'
    BY <1>1, <1>3, <2>2, <2>3, <2>5 DEF IdentityCall
  <2>7. AllAlone'
    BY <1>4, <2>3, <2>5 DEF AllAlone, Alone, Writing
  <2> QED
    BY <1>3, <1>4, <2>2, <2>3, <2>4, <2>6, <2>7 DEF IdentityInv
<1> QED
  BY <1>5, <1>6

\* Every step keeps IdentityInv.
LEMMA StepIdentityInv == Base /\ IdentityInv /\ [Next]_vars => IdentityInv'
<1> SUFFICES ASSUME Base, IdentityInv, [Next]_vars PROVE IdentityInv'
  OBVIOUS
<1>1. CASE Kill
  BY <1>1, IdentityKill
<1>2. ASSUME NEW c \in Calls, Step(c) PROVE IdentityInv'
  <2>1. CASE FileOf(task'[c]) # "identity"
    BY <1>2, <2>1, IdentityElsewhere
  <2>2. CASE FileOf(task'[c]) = "identity" /\ Calm("identity")'
    <3>1. ~ WriteFails(c)
      BY <1>2, <2>2, DisturbedStays DEF Calm
    <3> QED
      BY <1>2, <2>2, <3>1, StepsOn, IdentityReads, IdentityWrites DEF Base
  <2> QED
    BY <2>1, <2>2 DEF IdentityInv
<1>3. CASE UNCHANGED vars
  BY <1>3 DEF vars, IdentityInv, AllAlone, Alone, IdentityCall, About, Calm, HalfWritten
<1> QED
  BY <1>1, <1>2, <1>3 DEF Next

(***************************************************************************)
(* While no two calls meet on the identity and no write of it fails, every *)
(* key that was used is the stored one, and the name is the one set last.  *)
(***************************************************************************)
THEOREM IdentityIsKept == Spec => []IdentityKept
<1>1. Init => IdentityInv
  BY DEF Init, IdentityInv, AllAlone, About, Files
<1>2. Base /\ IdentityInv => IdentityKept
  <2> SUFFICES ASSUME Base, IdentityInv, Calm("identity")
               PROVE  /\ \A c \in Calls :
                            answer[c] = "ok" /\ task[c].kind \in {"use", "rename"} =>
                               /\ \A d \in Contents("identity") : d.key = key[c]
                               /\ file["identity"].is # "missing"
                      /\ file["identity"].is = "whole" => file["identity"].doc.name = promise.name
    BY DEF IdentityKept
  <2>1. ASSUME NEW c \in Calls, answer[c] = "ok", task[c].kind \in {"use", "rename"}
        PROVE  /\ \A d \in Contents("identity") : d.key = key[c]
               /\ file["identity"].is # "missing"
    <3>1. pc[c] = "done" /\ About(c, "identity") /\ IdentityCall(c)
      BY <2>1, NodeFilesAssumption, KindFacts
         DEF Base, Silent, Types, CallOK, About, IdentityInv
    <3>2. file["identity"].is = "whole" => file["identity"].doc.key = key[c]
      BY <3>1 DEF IdentityCall
    <3>3. ASSUME NEW d \in Calls, Active(d), FileOf(task[d]) = "identity", buf[d] # None
          PROVE  buf[d].key = key[c]
      <4>1. About(d, "identity") /\ IdentityCall(d) /\ d # c
        BY <3>1, <3>3, Underway, TaskFields DEF Active, About, IdentityInv, Base, Types
      <4>2. CASE file["identity"].is = "whole"
        BY <3>2, <3>3, <4>1, <4>2 DEF IdentityCall, Active
      <4>3. CASE file["identity"].is = "empty"
        <5>1. pc[d] \in Writing
          BY <3>3, <4>1, <4>3 DEF IdentityCall, Active, Writing
        <5>2. pc[d] = "write" /\ key[d] = key[c]
          BY <3>1, <4>1, <5>1 DEF IdentityInv, AllAlone, Alone
        <5> QED
          BY <4>1, <5>2 DEF IdentityCall
      <4> QED
        BY <3>1, <4>2, <4>3 DEF IdentityCall, IdentityInv, Base, Types, FileOK, Files
    <3> QED
      BY <3>1, <3>2, <3>3 DEF Contents, Pending, IdentityCall
  <2> QED
    BY <2>1 DEF IdentityInv
<1> QED
  BY <1>1, <1>2, InitBase, StepBase, StepIdentityInv, PTL DEF Spec
=============================================================================
