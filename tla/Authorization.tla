--------------------------- MODULE Authorization ---------------------------
(***************************************************************************)
(* One authorization of an active evaluation, from its issue on            *)
(* (packages/runtime/src/authorizations.ts): requests verify that the      *)
(* owner of the target published the proof, and consume the authorization  *)
(* for a run.                                                              *)
(*                                                                         *)
(* With a database every request loads the row and saves it with a         *)
(* compare-and-set; the process that saved it also keeps it in its map,    *)
(* which it then never reads.  Without one, a single process keeps the     *)
(* record in the map and, if a data directory is configured, in a file;    *)
(* there the code between two awaits is one step.  A record is represented *)
(* by its status.                                                          *)
(***************************************************************************)
EXTENDS Integers

CONSTANTS
    Request,    \* each makes one call of verify or consume
    Stores      \* the deployments considered

ASSUME AuthorizationAssumption == Stores \subseteq {"database", "directory", "memory"}

VARIABLES
    store,      \* the deployment: never changes
    row,        \* the status in agenttrial_authorizations
    memory,     \* the status in the map of the process that set it last
    file,       \* the status in the record's file
    temp,       \* the status in the temporary file of persist, of one name
    request,    \* request[r]: the progress of one call
    site,       \* what the owner serves: the proof, and the card as it was issued
    appLapsed,  \* expiresAt <= Date.now()
    dbLapsed,   \* expires_at <= now(): another machine, another clock
    proved      \* history: a verification has seen the proof and the card

vars == <<store, row, memory, file, temp, request, site, appLapsed, dbLapsed, proved>>

Status == {"absent", "issued", "verified", "expired", "consumed"}

RequestRecord ==
    [op : {"none", "verify", "consume"},
     pc : {"idle", "load", "cache", "proof", "card", "save", "write", "rename",
           "unlink", "done"},
     seen : Status,     \* as loaded
     next : Status,     \* as it is to be saved
     ok : BOOLEAN]      \* what the caller is told, once done

Idle == [op |-> "none", pc |-> "idle", seen |-> "absent", next |-> "absent", ok |-> FALSE]

\* issueAuthorizationChallenge has answered.
Init ==
    /\ store \in Stores
    /\ row = IF store = "database" THEN "issued" ELSE "absent"
    /\ memory = "issued"
    /\ file = IF store = "directory" THEN "issued" ELSE "absent"
    /\ temp = "absent"
    /\ request = [r \in Request |-> Idle]
    /\ site = {"card"}
    /\ appLapsed = FALSE
    /\ dbLapsed = FALSE
    /\ proved = FALSE

-----------------------------------------------------------------------------
\* One call

Set(r, q) == request' = [request EXCEPT ![r] = q]

Reply(q, ok) == [q EXCEPT !.pc = "done", !.ok = ok]

\* A record is answered with, unless it was saved to say that it expired.
Saved(q) == Reply(q, q.next # "expired")

\* Mutant: consume accepts an authorization nobody verified.
WantedAtLeast(q) == IF q.seen = "issued" THEN "issued" ELSE "verified"

\* The status a call starts from and, with a database, expects to replace.
Wanted(q) == IF q.op = "verify" THEN "issued" ELSE "verified"

\* Both calls, up to their first await after load.
Checked(q) ==
    IF q.seen # Wanted(q) THEN Reply(q, FALSE)
    ELSE IF appLapsed THEN [q EXCEPT !.pc = "save", !.next = "expired"]
    ELSE IF q.op = "verify" THEN [q EXCEPT !.pc = "proof"]
    ELSE [q EXCEPT !.pc = "save", !.next = "consumed"]

\* Mutant: persist goes on to the file although it has no directory.
ProceedToFile(r, q, cached) ==
    IF q.pc = "save" /\ store # "database"
    THEN memory' = q.next /\ Set(r, [q EXCEPT !.pc = "write"])
    ELSE memory' = cached /\ Set(r, q)

\* persist without a database sets the map before its first await.
Proceed(r, q, cached) ==
    IF q.pc = "save" /\ store # "database"
    THEN /\ memory' = q.next
         /\ Set(r, IF store = "directory" THEN [q EXCEPT !.pc = "write"] ELSE Saved(q))
    ELSE memory' = cached /\ Set(r, q)

Begin(r, op) ==
    /\ request[r].pc = "idle"
    /\ Set(r, [Idle EXCEPT !.op = op, !.pc = "load"])
    /\ UNCHANGED <<store, row, memory, file, temp, site, appLapsed, dbLapsed, proved>>

\* load from the row, or from the map.
Load(r) ==
    LET seen == IF store = "database" THEN row ELSE memory
    IN /\ request[r].pc = "load"
       /\ store = "directory" => memory # "absent"
       /\ Proceed(r, Checked([request[r] EXCEPT !.seen = seen]), memory)
       /\ UNCHANGED <<store, row, file, temp, site, appLapsed, dbLapsed, proved>>

\* load from the file, after a restart: the answer arrives later.
ReadFile(r) ==
    /\ request[r].pc = "load"
    /\ store = "directory" /\ memory = "absent"
    /\ Set(r, [request[r] EXCEPT !.pc = "cache", !.seen = file])
    /\ UNCHANGED <<store, row, memory, file, temp, site, appLapsed, dbLapsed, proved>>

\* It goes into the map, whatever the map has come to hold.
CacheFile(r) ==
    /\ request[r].pc = "cache"
    /\ Proceed(r, Checked(request[r]), request[r].seen)
    /\ UNCHANGED <<store, row, file, temp, site, appLapsed, dbLapsed, proved>>

\* verifyAuthorizationChallenge fetches the proof, then the card.
FetchProof(r) ==
    /\ request[r].pc = "proof"
    /\ Set(r, IF "proof" \in site THEN [request[r] EXCEPT !.pc = "card"]
              ELSE Reply(request[r], FALSE))
    /\ UNCHANGED <<store, row, memory, file, temp, site, appLapsed, dbLapsed, proved>>

FetchCard(r) ==
    LET same == "card" \in site
        q == request[r]
    IN /\ q.pc = "card"
       /\ Proceed(r, IF same THEN [q EXCEPT !.pc = "save", !.next = "verified"]
                     ELSE Reply(q, FALSE), memory)
       /\ proved' = (proved \/ same)
       /\ UNCHANGED <<store, row, file, temp, site, appLapsed, dbLapsed>>

\* Mutant: the UPDATE forgets status = expectedStatus.
LandsOnAny(q) == row # "absent" /\ ~dbLapsed

\* Mutant: the UPDATE forgets expires_at > now().
LandsLate(q) == row = Wanted(q)

\* The WHERE clause of transitionAuthorizationRecord.
Lands(q) == row = Wanted(q) /\ ~dbLapsed

\* persist with a database: the UPDATE and, once it has answered with the row,
\* the map, which with a database nothing reads.
Save(r) ==
    LET q == request[r]
    IN /\ q.pc = "save"
       /\ IF Lands(q)
          THEN row' = q.next /\ memory' = q.next /\ Set(r, Saved(q))
          ELSE UNCHANGED <<row, memory>> /\ Set(r, Reply(q, FALSE))
       /\ UNCHANGED <<store, file, temp, site, appLapsed, dbLapsed, proved>>

\* The UPDATE commits and its answer is lost: persist throws before the map.
SaveUnacknowledged(r) ==
    LET q == request[r]
    IN /\ q.pc = "save" /\ Lands(q)
       /\ row' = q.next
       /\ Set(r, Reply(q, FALSE))
       /\ UNCHANGED <<store, memory, file, temp, site, appLapsed, dbLapsed, proved>>

\* persist writes a temporary file, renames it and removes what is left of it.
\* Its name is that of the record and the process: calls share it.
WriteTemp(r) ==
    /\ request[r].pc = "write"
    /\ temp' = request[r].next
    /\ Set(r, [request[r] EXCEPT !.pc = "rename"])
    /\ UNCHANGED <<store, row, memory, file, site, appLapsed, dbLapsed, proved>>

RenameTemp(r) ==
    /\ request[r].pc = "rename"
    /\ file' = IF temp = "absent" THEN file ELSE temp
    /\ temp' = "absent"
    /\ Set(r, IF temp = "absent" THEN Reply(request[r], FALSE)
              ELSE [request[r] EXCEPT !.pc = "unlink"])
    /\ UNCHANGED <<store, row, memory, site, appLapsed, dbLapsed, proved>>

UnlinkTemp(r) ==
    /\ request[r].pc = "unlink"
    /\ temp' = "absent"
    /\ Set(r, Saved(request[r]))
    /\ UNCHANGED <<store, row, memory, file, site, appLapsed, dbLapsed, proved>>

\* A wrong token, an answer that cannot be used, a failed statement or write,
\* or the end of the process that served the request.
Fail(r) ==
    /\ request[r].pc \notin {"idle", "done"}
    /\ Set(r, Reply(request[r], FALSE))
    /\ UNCHANGED <<store, row, memory, file, temp, site, appLapsed, dbLapsed, proved>>

Call(r) ==
    \/ \E op \in {"verify", "consume"} : Begin(r, op)
    \/ Load(r) \/ ReadFile(r) \/ CacheFile(r) \/ FetchProof(r) \/ FetchCard(r)
    \/ Save(r) \/ SaveUnacknowledged(r)
    \/ WriteTemp(r) \/ RenameTemp(r) \/ UnlinkTemp(r)
    \/ Fail(r)

-----------------------------------------------------------------------------
\* Around the calls

\* A process restarts: map and calls are gone, and the next process uses another
\* temporary name.  With a database others may go on: Fail is for one call alone.
Restart ==
    /\ memory' = "absent"
    /\ temp' = "absent"
    /\ request' = [r \in Request |->
                     IF request[r].pc \in {"idle", "done"} THEN request[r]
                     ELSE Reply(request[r], FALSE)]
    /\ UNCHANGED <<store, row, file, site, appLapsed, dbLapsed, proved>>

\* The owner publishes or withdraws the proof, changes or restores the card.
OwnerEdits ==
    /\ site' \in SUBSET {"proof", "card"}
    /\ UNCHANGED <<store, row, memory, file, temp, request, appLapsed, dbLapsed, proved>>

Lapse ==
    /\ \/ appLapsed' = TRUE /\ UNCHANGED dbLapsed
       \/ store = "database" /\ dbLapsed' = TRUE /\ UNCHANGED appLapsed
    /\ UNCHANGED <<store, row, memory, file, temp, request, site, proved>>

\* cleanupExpiredDatabaseRecords, a day later on every clock.
Cleanup ==
    /\ store = "database" /\ appLapsed /\ dbLapsed
    /\ row' = "absent"
    /\ UNCHANGED <<store, memory, file, temp, request, site, appLapsed, dbLapsed, proved>>

Next ==
    \/ Restart \/ OwnerEdits \/ Lapse \/ Cleanup
    \/ \E r \in Request : Call(r)

Spec == Init /\ [][Next]_vars

-----------------------------------------------------------------------------
\* PROPERTIES

\* Rows, files, maps and calls have their types, and a deployment writes its own
\* stores only: no row without a database, no file without a directory (the
\* early returns of persist).
TypeOK ==
    /\ store \in Stores
    /\ {row, memory, file, temp} \subseteq Status
    /\ request \in [Request -> RequestRecord]
    /\ site \subseteq {"proof", "card"}
    /\ appLapsed \in BOOLEAN /\ dbLapsed \in BOOLEAN /\ proved \in BOOLEAN
    /\ store # "database" => row = "absent" /\ ~dbLapsed
    /\ store # "directory" => file = "absent" /\ temp = "absent"

\* The caller was given the authorization for a run.
Consumed(r) == request[r].op = "consume" /\ request[r].pc = "done" /\ request[r].ok

\* An authorization starts one run at most (docs/api.md, "atomically consumes
\* the authorization").
ConsumedOnce == \A r, s \in Request : Consumed(r) /\ Consumed(s) => r = s

\* With a database it is so, however the calls overlap, fail and lose their
\* answers (transitionAuthorizationRecord).
DurablyConsumedOnce == store = "database" => ConsumedOnce

\* In every deployment: a run is started only on an authorization whose proof
\* was seen on the owner's site, whatever was cached, saved or restored since.
ConsumedWasProved == (\E r \in Request : Consumed(r)) => proved

\* With a database: nothing replaces the record after it lapsed, although the
\* calls test its expiry before two fetches and save afterwards.
LapsedIsFinal == [][dbLapsed => (row' = row \/ row' = "absent")]_vars

\* Of a deployment with a database, what Grant speaks of; the others make it no
\* promise.
Promise == INSTANCE Grant WITH
    Caller <- Request,
    open <- (store = "database" => row \in {"issued", "verified"}),
    given <- IF store = "database" THEN {r \in Request : Consumed(r)} ELSE {}

\* With a database: a settled authorization is not reopened by a call that
\* loaded it earlier, and is given to one call or to none.
GrantSpec == Promise!Spec
=============================================================================
