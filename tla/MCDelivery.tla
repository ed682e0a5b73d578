----------------------------- MODULE MCDelivery -----------------------------
EXTENDS DeliveryProps

LOCAL INSTANCE TLC

CONSTANTS a, b, c1, c2

\* A name with a separator and a base as long as the cap, and one that is longer.
Nested  == [dir_len |-> 2, base |-> "r", len |-> NameCap, nul |-> FALSE]
TooLong == [dir_len |-> 0, base |-> "l", len |-> NameCap + 1, nul |-> FALSE]

TheNames == {Nested, TooLong}
OneName  == {Nested}

\* Two contents; the second one begins like a JSON text.
Files == {<<"x">>, <<"{", "y">>}

AnyCall == Permutations(Calls)
=============================================================================
