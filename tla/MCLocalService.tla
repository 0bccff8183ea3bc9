--------------------------- MODULE MCLocalService ---------------------------
\* Two addresses, one of them public, and ten things a request may meet.
EXTENDS LocalService
CONSTANTS public, private
Addresses == {public, private}
PublicAddresses == {public}
Answers(status, lookup, request, bytes) ==
    [urlAllowed |-> TRUE, resolved |-> {public}, peer |-> public, lookup |-> lookup,
     request |-> request, status |-> status, location |-> TRUE, bytes |-> bytes]
SomeHops ==
    {Answers("success", 0, 1, 1), Answers("success", 2, 1, 1), Answers("success", 0, 2, 1),
     Answers("error", 0, 1, 0), Answers("success", 0, 1, 2),
     Answers("redirect", 0, 1, 1),
     [Answers("redirect", 0, 1, 0) EXCEPT !.location = FALSE],
     [Answers("success", 0, 1, 1) EXCEPT !.urlAllowed = FALSE],
     [Answers("success", 0, 1, 1) EXCEPT !.resolved = {public, private}],
     [Answers("success", 0, 1, 1) EXCEPT !.peer = private]}
Deployments ==
    {<<"memory", "passive">>, <<"memory", "authorized">>, <<"directory", "passive">>}
Findings == {<<"claim_text_1", "claim_user_1">>}
=============================================================================
