----------------------------- MODULE Governance -----------------------------
(***************************************************************************)
(* What governed transitions promise, without signatures, gates and file   *)
(* systems: which calls are allowed is settled by the rules before any of  *)
(* them starts; a file changes only on behalf of an allowed call that has  *)
(* not been answered yet; and every call is answered at most once, with    *)
(* Refused exactly when it was not allowed, and with Completed only when   *)
(* it had its effect.                                                      *)
(***************************************************************************)
CONSTANTS Calls, Targets, Absent, Values

VARIABLES
    allowed,    \* the calls that are allowed
    aim,        \* the file each call is about
    files,      \* what is in each file
    affected,   \* the calls that changed their file
    answer      \* what was sealed as the outcome of each call

vars == <<allowed, aim, files, affected, answer>>

Init ==
    /\ allowed \in SUBSET Calls
    /\ aim \in [Calls -> Targets]
    /\ files = [t \in Targets |-> Absent]
    /\ affected = {}
    /\ answer = [c \in Calls |-> "none"]

\* A change of the file of a call: it may take several.
Affect(c, v) ==
    /\ c \in allowed /\ answer[c] = "none"
    /\ files' = [files EXCEPT ![aim[c]] = v]
    /\ affected' = affected \cup {c}
    /\ UNCHANGED <<allowed, aim, answer>>

Answers(c) ==
    IF c \notin allowed THEN {"Refused"}
    ELSE IF c \in affected THEN {"Completed", "Failed"} ELSE {"Failed"}

Answer(c) ==
    /\ answer[c] = "none"
    /\ \E a \in Answers(c) : answer' = [answer EXCEPT ![c] = a]
    /\ UNCHANGED <<allowed, aim, files, affected>>

Next == \E c \in Calls : Answer(c) \/ \E v \in Values : Affect(c, v)

Spec == Init /\ [][Next]_vars
=============================================================================
