---------------------------- MODULE MCNodeFiles ----------------------------
EXTENDS NodeFilesProps, TLC

CONSTANTS c1, c2, c3,   \* the calls
          ann           \* a friend

\* No list, or one in which a key that was official has been revoked.
Lists == {{}, {[key |-> ann, revoked |-> TRUE, official |-> TRUE]}}

\* An artifact of the friend that names nobody, one in which another key
\* speaks for it, and one that it named itself after a nameless assertion.
Forged == [AssertIdentity("eve", "Ann", "Persistent") EXCEPT !.key = ann]
Shown  == { <<ann, <<Forged>>>>,
            <<ann, <<Forged, AssertIdentity(ann, "Ann", "Ephemeral")>>>>,
            <<ann, <<AssertIdentity(ann, None, "Persistent"),
                     AssertIdentity(ann, "Ann", "Persistent")>>>> }

AnyCall == Permutations(Calls)
=============================================================================
