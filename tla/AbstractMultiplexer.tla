------------------------- MODULE AbstractMultiplexer -------------------------
(***************************************************************************)
(* What a RequestMultiplexer promises its users (spec 4.3): it holds a     *)
(* multiset of requests, with no order among them, and its maximal request *)
(* is the merge of all of them starting from the default request.  An edit *)
(* adds one request, removes one, or replaces one by another, and says     *)
(* whether the maximal changed.  The list-based RequestMultiplexer is      *)
(* shown to implement this with the bag of its list as the refinement      *)
(* mapping.                                                                *)
(***************************************************************************)
EXTENDS Integers, Bags, BagsExt

CONSTANTS Requests, Merge(_, _), Equivalent(_, _), DefaultRequest, MaxRequests

VARIABLES
    bag,        \* the multiset of requests held
    maximal,    \* the maximal request handed to the platform
    changed     \* whether the last edit changed the maximal

vars == <<bag, maximal, changed>>

\* The merge of every request of the bag, in no particular order.
BagMaximal(b) == FoldBag(Merge, DefaultRequest, b)

Held == BagCardinality(bag)

\* An edit leaves the bag b; the new maximal is (equivalent to) the merge
\* of b, and the flag compares it with the old one.
EditTo(b) ==
    /\ bag' = b
    /\ Equivalent(maximal', BagMaximal(b))
    /\ changed' = ~Equivalent(BagMaximal(b), maximal)

Add(r) == Held < MaxRequests /\ EditTo(BagAdd(bag, r))

Remove(r) == BagIn(r, bag) /\ EditTo(BagRemove(bag, r))

Replace(r, s) == BagIn(r, bag) /\ EditTo(BagAdd(BagRemove(bag, r), s))

Init ==
    /\ bag = EmptyBag
    /\ maximal = DefaultRequest
    /\ changed = FALSE

\* The specification constrains the new maximal only up to equivalence,
\* which is all a user of the multiplexer can observe.
Next ==
    \/ \E r \in Requests : Add(r)
    \/ \E r \in BagToSet(bag) : Remove(r)
    \/ \E r \in BagToSet(bag), s \in Requests : Replace(r, s)

Spec == Init /\ [][Next]_vars

=============================================================================
