------------------------------- MODULE Intake -------------------------------
(***************************************************************************)
(* Requests to create a run (apps/web/app/api/runs/route.ts), with or      *)
(* without one Idempotency-Key of one client.  Keys do not meet, so one is *)
(* enough.  The key is a row of agenttrial_idempotency, where every        *)
(* statement is a step, or, without a database, an entry of a map in one   *)
(* process, where reserving, finalizing and abandoning are each a step.    *)
(*                                                                         *)
(* Requests for an active evaluation ask for one authorization, of which   *)
(* this module knows what Grant says of it with a database, and nothing    *)
(* without one.  A run is named by the request that created it.            *)
(***************************************************************************)
EXTENDS Integers

CONSTANTS
    Post,       \* the requests
    Stores,     \* the deployments considered
    MaxFaults,  \* bound: failed statements, lost answers and crashes
    MaxLife     \* bound: lives of the key

ASSUME IntakeAssumption ==
    /\ Stores \subseteq {"database", "map"}
    /\ MaxFaults \in Nat /\ MaxLife \in Nat

VARIABLES
    store,      \* the deployment: never changes
    key,        \* the record of the key
    life,       \* the lives of the key that have begun: a lapse starts another
    post,       \* post[p]: the progress of one request
    created,    \* the requests that created a run
    open, given,    \* the authorization
    faults

vars == <<store, key, life, post, created, open, given, faults>>

Authorization == INSTANCE Grant WITH Caller <- Post

Body == {"fixture", "passive", "active"}

Deadline == {"none", "ahead", "passed"}

\* run is {} for NULL, or {p}.  A key nobody holds has no deadline.
KeyRecord == [deadline : Deadline, body : Body \cup {"none"}, run : SUBSET Post]

NoKey == [deadline |-> "none", body |-> "none", run |-> {}]

PostRecord ==
    [body : Body, keyed : BOOLEAN,
     pc : {"insert", "select", "delete", "serve", "finalize", "abandon", "done"},
     status : {0, 200, 201, 400, 401, 409, 422, 429},  \* 0 until answered
     run : SUBSET Post,     \* the run it was answered with, if any
     life : 0..MaxLife]     \* of the key, when it was reserved or replayed

Fresh(body, keyed) ==
    [body |-> body, keyed |-> keyed, pc |-> IF keyed THEN "insert" ELSE "serve",
     status |-> 0, run |-> {}, life |-> 0]

Init ==
    /\ store \in Stores
    /\ key = NoKey
    /\ life = 0
    /\ \E body \in [Post -> Body], keyed \in [Post -> BOOLEAN] :
           post = [p \in Post |-> Fresh(body[p], keyed[p])]
    /\ created = {}
    /\ Authorization!Init
    /\ faults = 0

-----------------------------------------------------------------------------
\* One request

At(p, pc) == post[p].pc = pc

Set(p, q) == post' = [post EXCEPT ![p] = q]

Goto(p, pc) == Set(p, [post[p] EXCEPT !.pc = pc])

Answer(p, status, run) ==
    Set(p, [post[p] EXCEPT !.pc = "done", !.status = status, !.run = run])

Reserve(p) ==
    /\ key' = [deadline |-> "ahead", body |-> post[p].body, run |-> {}]
    /\ Set(p, [post[p] EXCEPT !.pc = "serve", !.life = life])

Replay(p) ==
    Set(p, [post[p] EXCEPT !.pc = "done", !.status = 200, !.run = key.run, !.life = life])

\* Mutant: the request's hash is not compared.
MeetAnyone(p) == IF key.run # {} THEN Replay(p) ELSE Answer(p, 409, {})

\* Mutant: a key still pending is replayed.
MeetPending(p) == IF key.body # post[p].body THEN Answer(p, 422, {}) ELSE Replay(p)

\* The key is held: a conflict, a replay, or still pending.
Meet(p) ==
    IF key.body # post[p].body THEN Answer(p, 422, {})
    ELSE IF key.run # {} THEN Replay(p)
    ELSE Answer(p, 409, {})

Elsewhere == UNCHANGED <<store, life, created, open, given, faults>>

\* INSERT ... ON CONFLICT DO NOTHING
Insert(p) ==
    /\ store = "database" /\ At(p, "insert")
    /\ IF key = NoKey THEN Reserve(p) ELSE Goto(p, "select") /\ UNCHANGED key
    /\ Elsewhere

Select(p) ==
    /\ At(p, "select")
    /\ IF key.deadline = "ahead" THEN Meet(p) ELSE Goto(p, "delete")
    /\ UNCHANGED key /\ Elsewhere

\* Mutant: the DELETE forgets expires_at <= now().
UncheckedDelete(p) ==
    /\ At(p, "delete")
    /\ key' = NoKey
    /\ Goto(p, "insert")
    /\ Elsewhere

\* Mutant: a lapsed key is left in place.
RetryWithoutDelete(p) ==
    /\ At(p, "delete")
    /\ Goto(p, "insert")
    /\ UNCHANGED key /\ Elsewhere

\* A lapsed key is deleted, and the reservation tried again.
DeleteLapsed(p) ==
    /\ At(p, "delete")
    /\ key' = IF key.deadline = "passed" THEN NoKey ELSE key
    /\ Goto(p, "insert")
    /\ Elsewhere

\* Without a database the whole of reserveRunIdempotency.
ReserveInMap(p) ==
    /\ store = "map" /\ At(p, "insert")
    /\ IF key.deadline = "ahead" THEN Meet(p) /\ UNCHANGED key ELSE Reserve(p)
    /\ Elsewhere

Create(p) ==
    /\ created' = created \cup {p}
    /\ IF post[p].keyed THEN Goto(p, "finalize") ELSE Answer(p, 201, {p})

\* Mutant: an error leaves the reservation in place.
RefuseOnly(p) == Answer(p, 400, {}) /\ UNCHANGED created

\* An error: to the catch block.
Refuse(p) ==
    /\ IF post[p].keyed THEN Goto(p, "abandon") ELSE Answer(p, 400, {})
    /\ UNCHANGED created

\* An early return: the catch block is not reached.
Return(p, status) == Answer(p, status, {}) /\ UNCHANGED created

ServeFixture(p) ==
    /\ At(p, "serve") /\ post[p].body = "fixture"
    /\ Create(p)
    /\ UNCHANGED <<store, key, life, open, given, faults>>

\* A target over its limit, or that is not a public URL.
ServePassive(p) ==
    /\ At(p, "serve") /\ post[p].body = "passive"
    /\ Return(p, 429) \/ Refuse(p) \/ Create(p)
    /\ UNCHANGED <<store, key, life, open, given, faults>>

\* Without a token; with one that is refused; with the authorization consumed.
ServeActive(p) ==
    /\ At(p, "serve") /\ post[p].body = "active"
    /\ \/ (Return(p, 401) \/ Refuse(p)) /\ UNCHANGED <<open, given>>
       \/ store = "database" /\ Authorization!Give(p) /\ Create(p)
       \/ store = "map" /\ Create(p) /\ UNCHANGED <<open, given>>
    /\ UNCHANGED <<store, key, life, faults>>

\* The key is this request's kind, has no run yet and has not lapsed.
Pending(p) == key.deadline # "none" /\ key.body = post[p].body /\ key.run = {}

Finalize(p) ==
    /\ At(p, "finalize")
    /\ IF Pending(p) /\ (store = "database" => key.deadline = "ahead")
       THEN key' = [key EXCEPT !.run = {p}] /\ Answer(p, 201, {p})
       ELSE Goto(p, "abandon") /\ UNCHANGED key
    /\ Elsewhere

\* Mutant: the DELETE forgets run_id IS NULL.
AbandonAnyRun(p) ==
    /\ At(p, "abandon")
    /\ key' = IF key.body = post[p].body THEN NoKey ELSE key
    /\ Answer(p, 400, {})
    /\ Elsewhere

Abandon(p) ==
    /\ At(p, "abandon")
    /\ key' = IF Pending(p) THEN NoKey ELSE key
    /\ Answer(p, 400, {})
    /\ Elsewhere

Progress(p) ==
    \/ Insert(p) \/ Select(p) \/ DeleteLapsed(p) \/ ReserveInMap(p)
    \/ ServeFixture(p) \/ ServePassive(p) \/ ServeActive(p)
    \/ Finalize(p) \/ Abandon(p)

-----------------------------------------------------------------------------
\* What goes wrong with a database

Fault ==
    /\ store = "database"
    /\ faults < MaxFaults
    /\ faults' = faults + 1
    /\ UNCHANGED <<store, life, created>>

\* A statement fails without effect.  A controlled run is created without one.
StatementFails(p) ==
    /\ Fault
    /\ ~At(p, "done")
    /\ ~(At(p, "serve") /\ post[p].body = "fixture")
    /\ IF post[p].pc \in {"serve", "finalize"} /\ post[p].keyed
       THEN Goto(p, "abandon")
       ELSE Answer(p, 400, {})
    /\ UNCHANGED <<key, open, given>>

\* The process dies: the client has no answer, which is no run either.
Crash(p) ==
    /\ Fault
    /\ ~At(p, "done")
    /\ Answer(p, 400, {})
    /\ UNCHANGED <<key, open, given>>

\* A statement commits and its answer is lost.
InsertUnacknowledged(p) ==
    /\ Fault
    /\ At(p, "insert") /\ key = NoKey
    /\ key' = [deadline |-> "ahead", body |-> post[p].body, run |-> {}]
    /\ Answer(p, 400, {})
    /\ UNCHANGED <<open, given>>

ConsumeUnacknowledged(p) ==
    /\ Fault
    /\ At(p, "serve") /\ post[p].body = "active"
    /\ Authorization!Close
    /\ IF post[p].keyed THEN Goto(p, "abandon") ELSE Answer(p, 400, {})
    /\ UNCHANGED key

FinalizeUnacknowledged(p) ==
    /\ Fault
    /\ At(p, "finalize") /\ Pending(p) /\ key.deadline = "ahead"
    /\ key' = [key EXCEPT !.run = {p}]
    /\ Goto(p, "abandon")
    /\ UNCHANGED <<open, given>>

-----------------------------------------------------------------------------
\* Around the requests

Holders == {p \in Post : post[p].keyed /\ post[p].pc \in {"serve", "finalize", "abandon"}}

\* 24 hours after the reservation; no request lasts that long.
KeyLapses ==
    /\ key.deadline = "ahead" /\ Holders = {}
    /\ life < MaxLife
    /\ key' = [key EXCEPT !.deadline = "passed"]
    /\ life' = life + 1
    /\ UNCHANGED <<store, post, created, open, given, faults>>

\* cleanupExpiredDatabaseRecords
Cleanup ==
    /\ store = "database" /\ key.deadline = "passed"
    /\ key' = NoKey
    /\ UNCHANGED <<store, life, post, created, open, given, faults>>

\* The one process restarts: its map is gone.
Restart ==
    /\ store = "map"
    /\ life < MaxLife
    /\ key' = NoKey
    /\ life' = life + 1
    /\ post' = [p \in Post |-> IF post[p].pc \in {"insert", "done"} THEN post[p]
                               ELSE [post[p] EXCEPT !.pc = "done", !.status = 400]]
    /\ UNCHANGED <<store, created, open, given, faults>>

AuthorizationExpires ==
    /\ store = "database"
    /\ Authorization!Close
    /\ UNCHANGED <<store, key, life, post, created, faults>>

Next ==
    \/ \E p \in Post : Progress(p)
    \/ \E p \in Post : \/ StatementFails(p) \/ Crash(p)
                       \/ InsertUnacknowledged(p) \/ ConsumeUnacknowledged(p)
                       \/ FinalizeUnacknowledged(p)
    \/ KeyLapses \/ Cleanup \/ Restart \/ AuthorizationExpires

\* A server goes on with every request it has accepted.
Fairness == \A p \in Post : WF_vars(Progress(p))

Spec == Init /\ [][Next]_vars
FairSpec == Spec /\ Fairness

-----------------------------------------------------------------------------
\* PROPERTIES

\* Keys and requests have their types, a key names one run at most, and a
\* request is answered with a run exactly when its status says so.
TypeOK ==
    /\ store \in Stores
    /\ key \in KeyRecord
    /\ life \in 0..MaxLife
    /\ post \in [Post -> PostRecord]
    /\ created \subseteq Post /\ given \subseteq Post /\ open \in BOOLEAN
    /\ faults \in 0..MaxFaults
    /\ \A r, s \in key.run : r = s
    /\ \A p \in Post : post[p].run # {} <=> post[p].status \in {200, 201}

\* The key was sent with both requests, in the same 24 hours.
SameKey(p, q) == post[p].keyed /\ post[q].keyed /\ post[p].life = post[q].life

\* Whatever fails: the requests with one key that are told of a run are told of
\* the same one, and one of them at most is told that it is new and given the
\* capability to cancel it (docs/api.md, "returns the private cancellation
\* capability once").
OneAnswer ==
    \A p, q \in Post :
        SameKey(p, q) /\ post[p].run # {} /\ post[q].run # {} =>
            /\ post[p].run = post[q].run
            /\ post[p].status = 201 /\ post[q].status = 201 => p = q

\* A replayed run was created, and for the same request.
ReplayIsFaithful ==
    \A p \in Post : \A r \in post[p].run :
        r \in created /\ post[r].body = post[p].body

\* Two runs are not created for one key, unless a statement failed, nor, with a
\* database, on one authorization, whatever failed and however it is asked for.
OneRun ==
    \A p, q \in created : p # q =>
        /\ ~(SameKey(p, q) /\ faults = 0)
        /\ ~(store = "database" /\ post[p].body = "active" /\ post[q].body = "active")

\* A key is pending only while a request is creating its run, unless a statement
\* failed or a request returned early, which the route does without abandoning.
PendingIsBeingCreated ==
    /\ faults = 0
    /\ ~\E p \in Post : post[p].keyed /\ post[p].status \in {401, 429}
    /\ key.deadline = "ahead" /\ key.run = {}
    => \E p \in Holders : post[p].body = key.body /\ post[p].life = life

\* Every request is answered: the reservation's retry ends.
EveryPostAnswered == \A p \in Post : <>(post[p].pc = "done")
=============================================================================
