-------------------------------- MODULE Egress --------------------------------
(***************************************************************************)
(* How an evaluation reaches its target: safePublicFetch and               *)
(* safeAuthorizedA2ASend of packages/adapters, on what packages/security   *)
(* validates.  A call touches nothing but its own variables, so it is a    *)
(* function of what the network does: one Hop for each request it makes.   *)
(*                                                                         *)
(* Time and bytes are counted in coarse units.  Bodies are represented by  *)
(* whether what the caller looks for is in them.                           *)
(***************************************************************************)
EXTENDS Integers, Sequences, SequencesExt

CONSTANTS
    Address,
    PublicAddress,  \* isPublicIp
    Longest,        \* bound of a lookup and of a request
    Largest         \* bound of a body

ASSUME EgressAssumption ==
    PublicAddress \subseteq Address /\ Longest \in Nat /\ Largest \in Nat

\* What one request meets: the answer of the resolver, the address of the
\* connected socket, the durations, and the response.
Hop ==
    [urlAllowed : BOOLEAN,
     resolved : SUBSET Address, peer : Address,
     lookup : 0..Longest, request : 0..Longest,
     status : {"success", "redirect", "error"}, location : BOOLEAN,
     bytes : 0..Largest]

\* validateTargetUrl: the form of the URL, then every address it resolves to.
Validated(hop) ==
    /\ hop.urlAllowed
    /\ hop.resolved # {} /\ hop.resolved \subseteq PublicAddress

\* The socket is destroyed on connection unless its peer was approved.
Approved(hop) == hop.peer \in PublicAddress /\ hop.peer \in hop.resolved

\* pinnedRequest resolves.
Answered(hop, time, bytes) ==
    Approved(hop) /\ hop.request <= time /\ hop.bytes <= bytes

-----------------------------------------------------------------------------
\* safePublicFetch

Limits == [timeout : Nat, bytes : Nat, redirects : Nat]

\* A call in its loop, with its limits and its BudgetGuard; then what it has
\* returned.
Started(limits) ==
    [limits |-> limits, outcome |-> "going", calls |-> 0, bytes |-> 0, clock |-> 0,
     lookup |-> 0, peers |-> {}]

Failed(call) == [call EXCEPT !.outcome = "failed"]

\* Mutant: every hop has the whole time.
RemainingAfresh(call) == call.limits.timeout

Remaining(call) == call.limits.timeout - call.clock

\* consume() of BudgetGuard, whose own time limit covers every hop.
WithinBudget(call) ==
    /\ call.calls <= call.limits.redirects + 1
    /\ call.bytes <= call.limits.bytes
    /\ call.clock <= call.limits.timeout * (call.limits.redirects + 1)

\* One request, and the clock and the budget after it.
Requested(call, hop) ==
    [call EXCEPT !.calls = @ + 1, !.bytes = @ + hop.bytes,
                 !.clock = @ + hop.lookup + hop.request, !.lookup = hop.lookup,
                 !.peers = @ \cup {hop.peer}]

FetchHop(call, hop) ==
    LET remaining == Remaining(call)
        after == Requested(call, hop)
    IN  IF call.outcome # "going" THEN call
        ELSE IF remaining <= 0 \/ ~Validated(hop) \/ ~Approved(hop) THEN Failed(call)
        ELSE IF \/ ~Answered(hop, remaining, call.limits.bytes - call.bytes)
                \/ ~WithinBudget(after)
             THEN Failed(after)
        ELSE IF hop.status # "redirect" THEN [after EXCEPT !.outcome = hop.status]
        ELSE IF ~hop.location \/ call.calls = call.limits.redirects THEN Failed(after)
        ELSE after

Fetch(hops, limits) == FoldLeft(FetchHop, Started(limits), hops)

\* Whatever the network does to a call that may follow so many redirects.
Fetches(limits, hops) ==
    {Fetch(path, limits) : path \in [1..(limits.redirects + 1) -> hops]}

-----------------------------------------------------------------------------
\* safeAuthorizedA2ASend, and the Agent Card it is sent by

\* validateAuthorizedA2ASelection, on what a card advertises: the skill and
\* the interface chosen are there once, anonymous, without extensions, and
\* speak text/plain.
Card == [anonymous : BOOLEAN, extensions : BOOLEAN, skills : 0..2, interfaces : 0..2,
         text : BOOLEAN]

Selectable(card) ==
    /\ card.anonymous /\ ~card.extensions
    /\ card.skills = 1 /\ card.interfaces = 1
    /\ card.text

\* The response: a message, or a task and the state it is in.
A2AResponse == {"message", "completed", "failed", "rejected", "working", "malformed"}

\* One request: no redirect is followed and nothing is sent again.
Send(hop, response, limits) ==
    IF \/ ~Validated(hop)
       \/ ~Answered(hop, limits.timeout, limits.bytes)
       \/ hop.status # "success"
       \/ response \in {"working", "malformed"}
    THEN "failed"
    ELSE IF response \in {"failed", "rejected"} THEN "capability_failed"
    ELSE "answered"

Sends(limits, hops) ==
    {Send(hop, response, limits) : hop \in hops, response \in A2AResponse}

-----------------------------------------------------------------------------
\* What a call that returned, or failed, has done: every address it sent a
\* request to is public; it made no more requests and accepted no more bytes
\* than its limits allow; and it was answered within the deadline of the whole
\* call, or within one DNS lookup of it, since the code measures the time that
\* is left before it resolves the name.
Bounded(call) ==
    /\ call.peers \subseteq PublicAddress
    /\ call.calls <= call.limits.redirects + 1
    /\ call.outcome # "failed" =>
           /\ call.bytes <= call.limits.bytes
           /\ call.clock <= call.limits.timeout + call.lookup
=============================================================================
