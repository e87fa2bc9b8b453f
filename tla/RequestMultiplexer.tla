-------------------------- MODULE RequestMultiplexer --------------------------
(***************************************************************************)
(* RequestMultiplexer<R> (spec 4.3; its header is not in src/, its         *)
(* behaviour is pinned by src/core/tests/request_multiplexer_test.cc): a   *)
(* list of requests and the cached maximal request, the fold of the merge  *)
(* over the list starting from a default-constructed R.  Every edit        *)
(* recomputes the maximal and reports whether it changed.                  *)
(***************************************************************************)
EXTENDS Integers, Sequences, SequencesExt, FiniteSets

CONSTANTS
    Requests,        \* the request values a client may submit
    Merge(_, _),     \* R::generateIntersectionOf
    Equivalent(_, _),\* R::isEquivalentTo
    DefaultRequest,  \* R()
    MaxRequests      \* bound: length of the request list

VARIABLES
    requests,   \* getRequests()
    maximal,    \* getCurrentMaximalRequest()
    changed     \* the maximalRequestChanged result of the last edit

vars == <<requests, maximal, changed>>

\* updateMaximalRequest(): fold the merge over the list from R().
MaximalOf(list) == FoldLeft(Merge, DefaultRequest, list)

\* The list after an edit, with the maximal recomputed and compared.
Edit(list) ==
    /\ requests' = list
    /\ maximal' = MaximalOf(list)
    /\ changed' = ~Equivalent(MaximalOf(list), maximal)

\* addRequest(request, &maximalRequestChanged).
AddRequest(r) ==
    /\ Len(requests) < MaxRequests
    /\ Edit(Append(requests, r))

\* removeRequest(index, &maximalRequestChanged).
RemoveRequest(i) == Edit(RemoveAt(requests, i))

\* updateRequest(index, request, &maximalRequestChanged).
UpdateRequest(i, r) == Edit([requests EXCEPT ![i] = r])

Init ==
    /\ requests = <<>>
    /\ maximal = DefaultRequest
    /\ changed = FALSE

Next ==
    \/ \E r \in Requests : AddRequest(r)
    \/ \E i \in DOMAIN requests : RemoveRequest(i)
    \/ \E i \in DOMAIN requests, r \in Requests : UpdateRequest(i, r)

Spec == Init /\ [][Next]_vars

\* The bag of the list is the abstract multiplexer's multiset of requests.
Abs == INSTANCE AbstractMultiplexer WITH bag <- ToBag(requests)

\* The list-based multiplexer implements the abstract one: every add,
\* remove and update of a list entry is an add, remove or replacement in
\* the multiset, the cached maximal is always the merge of the multiset
\* in whatever order, and the changed flag compares exactly those.  This
\* fails if updateMaximalRequest() depends on the position of a request,
\* if an edit forgets to recompute, or if the flag is computed against
\* the wrong old value.
ImplementsAbstractMultiplexer == Abs!Spec

=============================================================================
