---------------------------- MODULE MCTransition ----------------------------
EXTENDS TransitionProps

PolicyProof(decision, key) ==
    LET proof == [decision |-> decision, policy_version |-> CURRENT_POLICY_VERSION,
                  context_hash |-> "context", evaluator |-> "policy"]
    IN  [decision |-> decision, policy_version |-> CURRENT_POLICY_VERSION,
         context_hash |-> "context", evaluator |-> "policy",
         signature |-> Sign(key, proof)]

Policies == {None, PolicyProof("Permit", "policy"), PolicyProof("Deny", "policy"),
             PolicyProof("Permit", "other")}

\* A proposer asks for a write or a publication; the grant is for it or not,
\* from the authorizer, the proposer itself or the executor, genuine or not.
Request(subject, asked, required, verb, granted, about, by, key, policy, content) ==
    [subject        |-> subject,
     proposer       |-> "ai",
     action         |-> [subject |-> asked, verb |-> verb, target |-> "file",
                         required |-> required],
     grant          |-> IssueGrant(by, key, granted, about),
     authorizer_key |-> "human",
     policy         |-> policy,
     policy_key     |-> IF policy = None THEN None ELSE "policy",
     content        |-> content]

Hostile ==
    {Request("s", asked, required, verb, granted, about, by, key, policy, "x") :
        asked \in {"s", "s2"}, required \in {"LocalWrite", "ExternalPublish"},
        verb \in {"create_file", "publish"},
        granted \in {"LocalWrite", "ExternalPublish"}, about \in {"s", "s2"},
        by \in {"human", "ai", "exec"}, key \in {"human", "ai"}, policy \in Policies}

Honest ==
    {Request("s", "s", "LocalWrite", "create_file", "LocalWrite", "s", "human", "human",
             None, "y"),
     Request("s", "s", "ExternalPublish", "publish", "LocalWrite", "s", "human", "human",
             None, "y")}

TwoCalls == {"c1", "c2"}

AllRequests == [c \in TwoCalls |-> IF c = "c1" THEN Hostile ELSE Honest]
=============================================================================
