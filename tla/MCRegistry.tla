----------------------------- MODULE MCRegistry -----------------------------
EXTENDS InspectionProps

CONSTANTS h     \* the digest of the artifact

\* A token over the artifact whose certificates expire, and one over another.
Good  == [hash |-> h, defect |-> "none", not_before |-> 0, not_after |-> 1,
          root |-> "ca", gen_time |-> 0]
Wrong == [Good EXCEPT !.hash = "other"]

NoTokens  == {}
TwoTokens == {Good, Wrong}
=============================================================================
