----------------------------- MODULE MCPlayout -----------------------------
\* Three assets, two of them in the collection, and two requests: each is any
\* of seven, with lists that keep, replace or shuffle what plays.
EXTENDS Playout, TLC

CONSTANTS a, b, c

The(x, m) == [asset |-> x, mode |-> m]
TwoLooping == <<The(a, "loop"), The(b, "loop")>>
Third == <<The(c, "loop"), The(c, "once"), The(a, "once")>>
Shuffled == <<The(b, "shuffle")>>

SomeRequests ==
    {[kind |-> "swap", list |-> Shuffled], [kind |-> "restart", list |-> Third],
     [kind |-> "replace", list |-> Third], [kind |-> "enqueue", asset |-> c]}
    \cup {[kind |-> "delete", asset |-> x, force |-> x # c] : x \in {a, b, c}}
=============================================================================
