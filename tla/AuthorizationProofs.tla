------------------------ MODULE AuthorizationProofs ------------------------
(***************************************************************************)
(* Theorems of Authorization, for every number of calls and in every       *)
(* deployment.                                                             *)
(*                                                                         *)
(* The argument: a call saves nothing but what its kind may save           *)
(* (GoodCall); wherever the record says that it was verified or consumed   *)
(* the proof has been seen (StoresBacked, and GoodCall of what a call      *)
(* holds); and with a database a call that was given the authorization     *)
(* left a row that no expected status matches (Spent).                     *)
(***************************************************************************)
EXTENDS Authorization, TLAPS

Granted == {"verified", "consumed"}

\* What a call that is saving may save.
Outcome(q) == IF q.op = "verify" THEN "verified" ELSE "consumed"

FileSteps == {"cache", "write", "rename", "unlink"}

GoodCall(q) ==
    /\ q \in RequestRecord
    /\ q.next \in {"absent", "expired", Outcome(q)}
    /\ q.ok => q.pc = "done" /\ q.next = Outcome(q)
    /\ q.pc \in {"save", "write", "rename", "unlink"} => q.next # "absent"
    /\ q.pc \in {"proof", "card"} => q.op = "verify"
    /\ q.pc \in FileSteps => store = "directory"
    /\ q.seen \in Granted \/ q.next \in Granted => proved

StoresBacked ==
    /\ row \in Granted => proved
    /\ memory \in Granted => proved
    /\ file \in Granted => proved
    /\ temp \in Granted => proved

\* With a database, a consumed authorization has a row no call expects.
Spent ==
    store = "database" =>
        \A r \in Request : Consumed(r) => row \in {"consumed", "absent"}

IInv ==
    /\ TypeOK
    /\ \A r \in Request : GoodCall(request[r])
    /\ StoresBacked
    /\ Spent
    /\ DurablyConsumedOnce

-----------------------------------------------------------------------------
\* Lemmas about one call

\* A refusal tells the caller nothing was granted.
LEMMA RefusalGood ==
    ASSUME NEW q, GoodCall(q)
    PROVE  GoodCall(Reply(q, FALSE)) /\ ~Reply(q, FALSE).ok
  BY DEF GoodCall, Reply, RequestRecord, Outcome, FileSteps, Granted

\* An answer after a save tells the caller what was saved.
LEMMA SavedGood ==
    ASSUME NEW q, GoodCall(q), q.next # "absent"
    PROVE  GoodCall(Saved(q)) /\ (Saved(q).ok <=> q.next = Outcome(q))
  BY DEF GoodCall, Saved, Reply, RequestRecord, Outcome, FileSteps, Granted

\* A call keeps to its kind while it checks what it loaded; it saves only what
\* it can name, and it grants nothing yet.
LEMMA CheckedGood ==
    ASSUME NEW q, GoodCall(q), q.pc \in {"load", "cache"}
    PROVE  /\ GoodCall(Checked(q))
           /\ Checked(q).pc \notin FileSteps
           /\ ~Checked(q).ok
           /\ Checked(q).pc = "save" => Checked(q).next \in {"expired", "consumed"}
  <1>1. q.seen \in Status /\ ~q.ok
    BY DEF GoodCall, RequestRecord
  <1>2. q.op = "none" \/ q.op = "verify" \/ q.op = "consume"
    BY DEF GoodCall, RequestRecord
  <1>3. CASE q.seen # Wanted(q)
    <2>1. Checked(q) = Reply(q, FALSE) /\ Reply(q, FALSE).pc = "done"
      BY <1>3 DEF Checked, Reply, GoodCall, RequestRecord
    <2>2. QED
      BY <2>1, RefusalGood DEF FileSteps
  <1>4. CASE q.seen = Wanted(q)
    BY <1>1, <1>2, <1>4
    DEF Checked, Wanted, GoodCall, RequestRecord, Outcome, FileSteps, Granted, Status
  <1>5. QED
    BY <1>3, <1>4

-----------------------------------------------------------------------------
\* Lemmas about one step

\* TypeOK without the calls.
OthersTyped ==
    /\ store \in Stores
    /\ {row, memory, file, temp} \subseteq Status
    /\ site \subseteq {"proof", "card"}
    /\ appLapsed \in BOOLEAN /\ dbLapsed \in BOOLEAN /\ proved \in BOOLEAN
    /\ store # "database" => row = "absent" /\ ~dbLapsed
    /\ store # "directory" => file = "absent" /\ temp = "absent"

\* What is good of a call stays so: what was seen stays seen.
LEMMA GoodLater ==
    ASSUME NEW q, GoodCall(q), store' = store, proved => proved'
    PROVE  GoodCall(q)'
  BY DEF GoodCall

\* A step that changes one call, and leaves it good, leaves all calls good.
LEMMA KeepsCalls ==
    ASSUME IInv, NEW r \in Request, NEW q, Set(r, q), GoodCall(q)',
           store' = store, proved => proved'
    PROVE  /\ request' \in [Request -> RequestRecord]
           /\ \A s \in Request : GoodCall(request[s])'
           /\ request'[r] = q
           /\ \A s \in Request : s # r => request'[s] = request[s]
  BY DEF IInv, TypeOK, Set, GoodCall

\* A step that grants nothing with a database, and leaves the row alone.
LEMMA QuietStep ==
    ASSUME IInv, NEW r \in Request, NEW q, Set(r, q), GoodCall(q)',
           store' = store, row' = row, proved => proved',
           OthersTyped', StoresBacked', store = "database" => ~q.ok
    PROVE  IInv'
  <1>1. /\ request' \in [Request -> RequestRecord]
        /\ \A s \in Request : GoodCall(request[s])'
        /\ request'[r] = q
        /\ \A s \in Request : s # r => request'[s] = request[s]
    BY KeepsCalls
  <1>2. TypeOK'
    BY <1>1 DEF TypeOK, OthersTyped
  <1>3. ASSUME store = "database", NEW s \in Request, Consumed(s)' PROVE Consumed(s)
    BY <1>1, <1>3 DEF Consumed
  <1>4. Spent' /\ DurablyConsumedOnce'
    BY <1>3 DEF IInv, Spent, DurablyConsumedOnce, ConsumedOnce
  <1>5. QED
    BY <1>1, <1>2, <1>4 DEF IInv

\* A step that ends in a refusal or goes on without a save.
LEMMA CallStep ==
    ASSUME IInv, NEW r \in Request, NEW q, Set(r, q), GoodCall(q), ~q.ok,
           UNCHANGED <<store, row, memory, file, temp, site, appLapsed, dbLapsed, proved>>
    PROVE  IInv'
  <1>1. GoodCall(q)'
    BY GoodLater
  <1>2. OthersTyped' /\ StoresBacked'
    BY DEF IInv, TypeOK, OthersTyped, StoresBacked
  <1>3. QED
    BY <1>1, <1>2, QuietStep

\* A step that goes on to persist: what is set in the map has been proved.
LEMMA ProceedStep ==
    ASSUME IInv, NEW r \in Request, NEW q, NEW cached \in Status, Proceed(r, q, cached),
           GoodCall(q)', ~q.ok, q.pc \notin FileSteps,
           cached \in Granted => proved',
           UNCHANGED <<store, row, file, temp, site, appLapsed, dbLapsed>>,
           proved => proved', proved' \in BOOLEAN
    PROVE  IInv'
  <1>1. q \in RequestRecord /\ q.next \in Status
    BY DEF GoodCall, RequestRecord
  <1>2. CASE q.pc = "save" /\ store # "database"
    <2>1. memory' = q.next
      BY <1>2 DEF Proceed
    <2>2. OthersTyped' /\ StoresBacked'
      BY <1>1, <1>2, <2>1 DEF IInv, TypeOK, OthersTyped, StoresBacked, GoodCall
    <2>3. CASE store = "directory"
      <3>1. Set(r, [q EXCEPT !.pc = "write"])
        BY <1>2, <2>3 DEF Proceed
      <3>2. GoodCall([q EXCEPT !.pc = "write"])'
        BY <1>1, <1>2, <2>3 DEF GoodCall, RequestRecord, Outcome, FileSteps
      <3>3. QED
        BY <2>2, <2>3, <3>1, <3>2, QuietStep
    <2>4. CASE store # "directory"
      <3>1. Set(r, Saved(q))
        BY <1>2, <2>4 DEF Proceed
      <3>2. GoodCall(Saved(q))'
        BY <1>1, <1>2 DEF GoodCall, Saved, Reply, RequestRecord, Outcome, FileSteps, Granted
      <3>3. QED
        BY <1>2, <2>2, <3>1, <3>2, QuietStep
    <2>5. QED
      BY <2>3, <2>4
  <1>3. CASE ~(q.pc = "save" /\ store # "database")
    <2>1. memory' = cached /\ Set(r, q)
      BY <1>3 DEF Proceed
    <2>2. OthersTyped' /\ StoresBacked'
      BY <2>1 DEF IInv, TypeOK, OthersTyped, StoresBacked
    <2>3. QED
      BY <2>1, <2>2, QuietStep
  <1>4. QED
    BY <1>2, <1>3

-----------------------------------------------------------------------------
\* The invariant

\* The challenge was issued and nobody has called yet.
LEMMA InitIInv == Init => IInv
  <1> SUFFICES ASSUME Init PROVE IInv
    OBVIOUS
  <1>1. Idle \in RequestRecord
    BY DEF Idle, RequestRecord, Status
  <1>2. TypeOK
    BY <1>1, AuthorizationAssumption DEF Init, TypeOK, Status
  <1>3. \A r \in Request : request[r] = Idle
    BY DEF Init
  <1>4. GoodCall(Idle)
    BY <1>1 DEF GoodCall, Idle, Outcome, FileSteps, Granted
  <1>5. StoresBacked
    BY DEF Init, StoresBacked, Granted
  <1>6. \A r \in Request : ~Consumed(r)
    <2>1. Idle.pc = "idle"
      BY DEF Idle
    <2>2. QED
      BY <1>3, <2>1 DEF Consumed
  <1>7. Spent /\ DurablyConsumedOnce
    BY <1>6 DEF Spent, DurablyConsumedOnce, ConsumedOnce
  <1>8. QED
    BY <1>2, <1>3, <1>4, <1>5, <1>7 DEF IInv

\* A call that saves with a database: the compare-and-set, answered or not.
LEMMA SaveKeeps ==
    ASSUME IInv, NEW r \in Request, Save(r) \/ SaveUnacknowledged(r)
    PROVE  IInv'
  <1>0. PICK q : q = request[r]
    OBVIOUS
  <1>1. GoodCall(q) /\ q \in RequestRecord /\ q.pc = "save" /\ q.next \in Status
    BY <1>0 DEF IInv, TypeOK, GoodCall, RequestRecord, Save, SaveUnacknowledged
  <1>2. CASE Save(r) /\ ~Lands(q)
    <2>1. Set(r, Reply(q, FALSE)) /\ row' = row
      BY <1>0, <1>2 DEF Save
    <2>2. QED
      BY <1>0, <1>1, <1>2, <2>1, RefusalGood, CallStep DEF Save
  <1>3. CASE Lands(q)
    <2>1. /\ UNCHANGED <<store, file, temp, site, appLapsed, dbLapsed, proved>>
          /\ row' = q.next /\ memory' \in {memory, q.next}
      BY <1>0, <1>3 DEF Save, SaveUnacknowledged
    <2>2. store = "database"
      <3>1. row # "absent"
        BY <1>0, <1>3 DEF Lands, Wanted
      <3>2. QED
        BY <3>1 DEF IInv, TypeOK
    <2>3. \A s \in Request : ~Consumed(s)
      BY <1>0, <1>3, <2>2 DEF IInv, Spent, Lands, Wanted
    <2>4. PICK p : Set(r, p) /\ (p = Saved(q) \/ p = Reply(q, FALSE))
      BY <1>0, <1>3 DEF Save, SaveUnacknowledged
    <2>5. GoodCall(p)'
      <3>1. q.next # "absent"
        BY <1>1 DEF GoodCall
      <3>2. GoodCall(p)
        BY <1>1, <2>4, <3>1, RefusalGood, SavedGood
      <3>3. QED
        BY <2>1, <3>2, GoodLater
    <2>6. /\ request' \in [Request -> RequestRecord]
          /\ \A s \in Request : GoodCall(request[s])'
          /\ request'[r] = p
          /\ \A s \in Request : s # r => request'[s] = request[s]
      BY <2>1, <2>4, <2>5, KeepsCalls
    <2>7. TypeOK' /\ StoresBacked'
      BY <1>1, <2>1, <2>2, <2>6 DEF IInv, TypeOK, StoresBacked, GoodCall
    <2>8. ASSUME NEW s \in Request, Consumed(s)' PROVE s = r
      BY <2>3, <2>6, <2>8 DEF Consumed
    <2>9. Consumed(r)' => row' = "consumed"
      <3>1. p.next = q.next
        BY <1>1, <2>4 DEF Saved, Reply, RequestRecord
      <3>2. p.op = "consume" /\ p.ok => p.next = "consumed"
        BY <2>5 DEF GoodCall, Outcome
      <3>3. QED
        BY <2>1, <2>6, <3>1, <3>2 DEF Consumed
    <2>10. Spent' /\ DurablyConsumedOnce'
      BY <2>8, <2>9 DEF Spent, DurablyConsumedOnce, ConsumedOnce
    <2>11. QED
      BY <2>6, <2>7, <2>10 DEF IInv
  <1>4. QED
    BY <1>0, <1>2, <1>3 DEF SaveUnacknowledged

\* A step of the persist of a data directory.
LEMMA FileKeeps ==
    ASSUME IInv, NEW r \in Request, WriteTemp(r) \/ RenameTemp(r) \/ UnlinkTemp(r)
    PROVE  IInv'
  <1>0. PICK q : q = request[r]
    OBVIOUS
  <1>1. /\ GoodCall(q) /\ q \in RequestRecord /\ q.next \in Status /\ ~q.ok
        /\ store = "directory" /\ q.pc \in {"write", "rename", "unlink"}
    BY <1>0 DEF IInv, TypeOK, GoodCall, RequestRecord, FileSteps, WriteTemp, RenameTemp, UnlinkTemp
  <1>2. UNCHANGED <<store, row, memory, site, appLapsed, dbLapsed, proved>>
    BY DEF WriteTemp, RenameTemp, UnlinkTemp
  <1>3. CASE WriteTemp(r)
    <2>1. Set(r, [q EXCEPT !.pc = "rename"]) /\ temp' = q.next /\ file' = file /\ q.pc = "write"
      BY <1>0, <1>3 DEF WriteTemp
    <2>2. GoodCall([q EXCEPT !.pc = "rename"])' /\ ~[q EXCEPT !.pc = "rename"].ok
      BY <1>0, <1>1, <1>2, <2>1 DEF GoodCall, RequestRecord, Outcome, FileSteps
    <2>3. OthersTyped' /\ StoresBacked'
      BY <1>0, <1>1, <1>2, <2>1 DEF IInv, TypeOK, OthersTyped, StoresBacked, GoodCall
    <2>4. QED
      BY <1>0, <1>1, <1>2, <2>1, <2>2, <2>3, QuietStep
  <1>4. CASE RenameTemp(r)
    <2>1. OthersTyped' /\ StoresBacked'
      BY <1>0, <1>1, <1>2, <1>4
      DEF RenameTemp, IInv, TypeOK, OthersTyped, StoresBacked, Status, Granted
    <2>2. CASE temp = "absent"
      <3>1. Set(r, Reply(q, FALSE))
        BY <1>0, <1>4, <2>2 DEF RenameTemp
      <3>2. GoodCall(Reply(q, FALSE))'
        BY <1>0, <1>1, <1>2, RefusalGood, GoodLater
      <3>3. QED
        BY <1>0, <1>1, <1>2, <2>1, <3>1, <3>2, QuietStep
    <2>3. CASE temp # "absent"
      <3>1. Set(r, [q EXCEPT !.pc = "unlink"]) /\ q.pc = "rename"
        BY <1>0, <1>4, <2>3 DEF RenameTemp
      <3>2. GoodCall([q EXCEPT !.pc = "unlink"])'
        BY <1>0, <1>1, <1>2, <3>1 DEF GoodCall, RequestRecord, Outcome, FileSteps
      <3>3. QED
        BY <1>0, <1>1, <1>2, <2>1, <3>1, <3>2, QuietStep
    <2>4. QED
      BY <2>2, <2>3
  <1>5. CASE UnlinkTemp(r)
    <2>1. Set(r, Saved(q)) /\ temp' = "absent" /\ file' = file
      BY <1>0, <1>5 DEF UnlinkTemp
    <2>2. GoodCall(Saved(q))'
      BY <1>0, <1>1, <1>2, SavedGood, GoodLater DEF GoodCall
    <2>3. OthersTyped' /\ StoresBacked'
      BY <1>0, <1>1, <1>2, <2>1 DEF IInv, TypeOK, OthersTyped, StoresBacked, Status, Granted
    <2>4. QED
      BY <1>0, <1>1, <1>2, <2>1, <2>2, <2>3, QuietStep
  <1>6. QED
    BY <1>3, <1>4, <1>5

\* Every step of a call.
LEMMA CallKeeps ==
    ASSUME IInv, NEW r \in Request, Call(r)
    PROVE  IInv'
  <1>0. PICK q : q = request[r]
    OBVIOUS
  <1>1. GoodCall(q) /\ q \in RequestRecord /\ (q.ok => q.pc = "done")
    BY <1>0 DEF IInv, GoodCall
  <1>2. ASSUME NEW op \in {"verify", "consume"}, Begin(r, op) PROVE IInv'
    <2> DEFINE p == [Idle EXCEPT !.op = op, !.pc = "load"]
    <2>1. GoodCall(p) /\ ~p.ok
      BY DEF GoodCall, Idle, RequestRecord, Status, Outcome, FileSteps, Granted
    <2>2. QED
      BY <1>0, <1>2, <2>1, CallStep DEF Begin
  <1>3. CASE Load(r)
    <2>0. PICK seen : seen = IF store = "database" THEN row ELSE memory
      OBVIOUS
    <2> DEFINE p == [q EXCEPT !.seen = seen]
    <2>1. GoodCall(p) /\ p.pc = "load"
      BY <1>0, <1>1, <1>3, <2>0
      DEF Load, IInv, TypeOK, StoresBacked, GoodCall, RequestRecord, Outcome, FileSteps
    <2>9. PICK c : c = Checked(p)
      OBVIOUS
    <2>2. GoodCall(c) /\ c.pc \notin FileSteps /\ ~c.ok
      BY <2>1, <2>9, CheckedGood
    <2>3. Proceed(r, c, memory)
      BY <1>0, <1>3, <2>0, <2>9 DEF Load
    <2>4. GoodCall(c)'
      BY <1>0, <1>3, <2>2, GoodLater DEF Load
    <2>5. /\ memory \in Status /\ proved \in BOOLEAN
          /\ memory \in Granted => proved
      BY DEF IInv, TypeOK, StoresBacked
    <2>6. QED
      BY <1>0, <1>3, <2>2, <2>3, <2>4, <2>5, ProceedStep DEF Load
  <1>4. CASE ReadFile(r)
    <2>0. PICK seen : seen = file
      OBVIOUS
    <2> DEFINE p == [q EXCEPT !.pc = "cache", !.seen = seen]
    <2>3. /\ q.pc = "load" /\ store = "directory" /\ seen \in Status
          /\ seen \in Granted => proved
      BY <1>0, <1>4, <2>0 DEF ReadFile, IInv, TypeOK, StoresBacked
    <2>4. /\ p \in RequestRecord /\ p.pc = "cache" /\ p.seen = seen
          /\ p.op = q.op /\ p.next = q.next /\ p.ok = q.ok
      BY <1>1, <2>3 DEF RequestRecord
    <2>1. GoodCall(p) /\ ~p.ok
      BY <1>1, <2>3, <2>4 DEF GoodCall, Outcome, FileSteps
    <2>2. QED
      BY <1>0, <1>4, <2>0, <2>1, CallStep DEF ReadFile
  <1>5. CASE CacheFile(r)
    <2>1. q.pc = "cache" /\ q.seen \in Status /\ store = "directory"
      BY <1>0, <1>1, <1>5 DEF CacheFile, GoodCall, RequestRecord, FileSteps
    <2>9. PICK c : c = Checked(q)
      OBVIOUS
    <2>2. GoodCall(c) /\ c.pc \notin FileSteps /\ ~c.ok
      BY <1>1, <2>1, <2>9, CheckedGood
    <2>3. GoodCall(c)'
      BY <1>0, <1>5, <2>2, GoodLater DEF CacheFile
    <2>4. proved \in BOOLEAN /\ (q.seen \in Granted => proved)
      BY <1>1 DEF IInv, TypeOK, GoodCall
    <2>5. Proceed(r, c, q.seen)
      BY <1>0, <1>5, <2>9 DEF CacheFile
    <2>6. QED
      BY <1>5, <2>1, <2>2, <2>3, <2>4, <2>5, ProceedStep DEF CacheFile
  <1>6. CASE FetchProof(r)
    <2>1. q.pc = "proof" /\ ~q.ok
      BY <1>0, <1>1, <1>6 DEF FetchProof
    <2>2. GoodCall([q EXCEPT !.pc = "card"]) /\ ~[q EXCEPT !.pc = "card"].ok
      BY <1>1, <2>1 DEF GoodCall, RequestRecord, Outcome, FileSteps
    <2>3. QED
      BY <1>0, <1>1, <1>6, <2>2, RefusalGood, CallStep DEF FetchProof
  <1>7. CASE FetchCard(r)
    <2> DEFINE v == [q EXCEPT !.pc = "save", !.next = "verified"]
    <2>0. q.pc = "card" /\ q.op = "verify" /\ ~q.ok /\ memory \in Status
      BY <1>0, <1>1, <1>7 DEF FetchCard, GoodCall, IInv, TypeOK
    <2>1. /\ proved' \in BOOLEAN /\ (proved => proved')
          /\ memory \in Granted => proved'
      BY <1>7 DEF FetchCard, IInv, TypeOK, StoresBacked
    <2>2. CASE "card" \in site
      <3>1. Proceed(r, v, memory) /\ proved'
        BY <1>0, <1>7, <2>2 DEF FetchCard
      <3>2. GoodCall(v)' /\ ~v.ok /\ v.pc \notin FileSteps
        BY <1>1, <2>0, <3>1 DEF GoodCall, RequestRecord, Outcome, FileSteps, Status
      <3>3. QED
        BY <1>7, <2>0, <2>1, <3>1, <3>2, ProceedStep DEF FetchCard
    <2>3. CASE "card" \notin site
      <3>1. Proceed(r, Reply(q, FALSE), memory) /\ Reply(q, FALSE).pc = "done"
        BY <1>0, <1>1, <1>7, <2>3 DEF FetchCard, Reply, RequestRecord
      <3>2. GoodCall(Reply(q, FALSE))' /\ ~Reply(q, FALSE).ok
        BY <1>1, <1>7, <2>1, RefusalGood, GoodLater DEF FetchCard
      <3>3. QED
        BY <1>7, <2>0, <2>1, <3>1, <3>2, ProceedStep DEF FetchCard, FileSteps
    <2>4. QED
      BY <2>2, <2>3
  <1>8. CASE Fail(r)
    BY <1>0, <1>1, <1>8, RefusalGood, CallStep DEF Fail
  <1>9. QED
    BY <1>0, <1>2, <1>3, <1>4, <1>5, <1>6, <1>7, <1>8, SaveKeeps, FileKeeps DEF Call

\* A restart ends calls, with nothing given to any.
LEMMA RestartGivesNothing ==
    ASSUME IInv, Restart, NEW r \in Request
    PROVE  Consumed(r)' <=> Consumed(r)
  <1>0. PICK q : q = request[r]
    OBVIOUS
  <1>1. q \in RequestRecord /\ (q.ok => q.pc = "done")
    BY <1>0 DEF IInv, GoodCall
  <1>2. ~Reply(q, FALSE).ok
    BY <1>0, RefusalGood DEF IInv
  <1>3. request'[r] = q \/ (q.pc # "done" /\ request'[r] = Reply(q, FALSE))
    BY <1>0 DEF Restart
  <1>4. QED
    BY <1>0, <1>1, <1>2, <1>3 DEF Consumed

\* Restarts, the owner's site, the clocks and the cleanup.
LEMMA AroundKeeps ==
    ASSUME IInv, Restart \/ OwnerEdits \/ Lapse \/ Cleanup
    PROVE  IInv'
  <1>1. CASE Restart
    <2>1. \A r \in Request : GoodCall(request[r])' /\ request'[r] \in RequestRecord
      <3>1. ASSUME NEW r \in Request PROVE GoodCall(request[r])' /\ request'[r] \in RequestRecord
        <4>1. PICK q : q = request[r]
          OBVIOUS
        <4>2. GoodCall(q) /\ GoodCall(Reply(q, FALSE))
          BY <4>1, RefusalGood DEF IInv
        <4>3. request'[r] = q \/ request'[r] = Reply(q, FALSE)
          BY <1>1, <4>1 DEF Restart
        <4>4. PICK p : p = request'[r]
          OBVIOUS
        <4>5. GoodCall(p)'
          BY <1>1, <4>2, <4>3, <4>4, GoodLater DEF Restart
        <4>6. QED
          BY <4>4, <4>5 DEF GoodCall
      <3>2. QED
        BY <3>1
    <2>2. \A r \in Request : Consumed(r)' <=> Consumed(r)
      BY <1>1, RestartGivesNothing
    <2>3. TypeOK' /\ StoresBacked'
      BY <1>1, <2>1 DEF Restart, IInv, TypeOK, StoresBacked, Status, Granted
    <2>4. QED
      BY <1>1, <2>1, <2>2, <2>3 DEF Restart, IInv, Spent, DurablyConsumedOnce, ConsumedOnce
  <1>2. CASE OwnerEdits \/ Lapse
    <2>1. UNCHANGED <<store, row, memory, file, temp, request, proved>>
      BY <1>2 DEF OwnerEdits, Lapse
    <2>2. TypeOK'
      <3>1. site' \subseteq {"proof", "card"}
        BY <1>2 DEF OwnerEdits, Lapse, IInv, TypeOK
      <3>2. appLapsed' \in BOOLEAN /\ dbLapsed' \in BOOLEAN /\ (store # "database" => ~dbLapsed')
        <4>1. appLapsed \in BOOLEAN /\ dbLapsed \in BOOLEAN /\ (store # "database" => ~dbLapsed)
          BY DEF IInv, TypeOK
        <4>2. \/ appLapsed' = appLapsed /\ dbLapsed' = dbLapsed
              \/ appLapsed' = TRUE /\ dbLapsed' = dbLapsed
              \/ store = "database" /\ dbLapsed' = TRUE /\ appLapsed' = appLapsed
          BY <1>2 DEF OwnerEdits, Lapse
        <4>3. appLapsed' \in BOOLEAN
          BY <4>1, <4>2
        <4>4. dbLapsed' \in BOOLEAN
          BY <4>1, <4>2
        <4>5. store # "database" => ~dbLapsed'
          BY <4>1, <4>2, Zenon
        <4>6. QED
          BY <4>3, <4>4, <4>5
      <3>3. QED
        BY <2>1, <3>1, <3>2 DEF IInv, TypeOK
    <2>3. QED
      BY <2>1, <2>2
      DEF IInv, GoodCall, StoresBacked, Spent, DurablyConsumedOnce, ConsumedOnce, Consumed
  <1>3. CASE Cleanup
    <2>1. UNCHANGED <<store, memory, file, temp, request, proved>> /\ row' = "absent"
      BY <1>3 DEF Cleanup
    <2>2. TypeOK'
      BY <1>3, <2>1 DEF Cleanup, IInv, TypeOK, Status
    <2>3. QED
      BY <2>1, <2>2
      DEF IInv, GoodCall, StoresBacked, Granted, Spent, DurablyConsumedOnce, ConsumedOnce, Consumed
  <1>4. QED
    BY <1>1, <1>2, <1>3

\* The invariant is inductive.
LEMMA Invariance == Spec => []IInv
  <1>1. IInv /\ [Next]_vars => IInv'
    <2> SUFFICES ASSUME IInv, [Next]_vars PROVE IInv'
      OBVIOUS
    <2>1. CASE Next
      BY <2>1, CallKeeps, AroundKeeps DEF Next
    <2>2. CASE UNCHANGED vars
      BY <2>2
      DEF vars, IInv, TypeOK, GoodCall, StoresBacked, Spent, DurablyConsumedOnce, ConsumedOnce,
          Consumed
    <2>3. QED
      BY <2>1, <2>2
  <1>2. QED
    BY <1>1, InitIInv, PTL DEF Spec

-----------------------------------------------------------------------------
\* Theorems

\* Types, and each deployment's stores: no row without a database and no file
\* without a data directory, whatever a call goes through (the returns of persist).
THEOREM TypeCorrect == Spec => []TypeOK
  <1>1. IInv => TypeOK
    BY DEF IInv
  <1>2. QED
    BY <1>1, Invariance, PTL

\* With a database an authorization is given for one run at most, for any number
\* of overlapping calls, lost answers and clocks that disagree
\* (transitionAuthorizationRecord).
THEOREM OneRun == Spec => []DurablyConsumedOnce
  <1>1. IInv => DurablyConsumedOnce
    BY DEF IInv
  <1>2. QED
    BY <1>1, Invariance, PTL

\* In every deployment, a call is given only an authorization whose proof was
\* seen (verifyAuthorizationChallenge, consumeAuthorization).
THEOREM ProvedBeforeUse == Spec => []ConsumedWasProved
  <1>1. IInv => ConsumedWasProved
    <2> SUFFICES ASSUME IInv, NEW r \in Request, Consumed(r) PROVE proved
      BY DEF ConsumedWasProved
    <2>1. GoodCall(request[r])
      BY DEF IInv
    <2>2. QED
      BY <2>1 DEF Consumed, GoodCall, Outcome, Granted
  <1>2. QED
    BY <1>1, Invariance, PTL

\* After the record lapsed on the database's clock, no call replaces it, however
\* long its fetches took (transitionAuthorizationRecord).
THEOREM NothingAfterLapse == Spec => LapsedIsFinal
  <1>1. [Next]_vars => (dbLapsed => (row' = row \/ row' = "absent"))
    BY DEF Next, vars, Call, Begin, Load, ReadFile, CacheFile, FetchProof, FetchCard, Save,
           SaveUnacknowledged, WriteTemp, RenameTemp, UnlinkTemp, Fail, Restart, OwnerEdits,
           Lapse, Cleanup, Lands
  <1>2. QED
    BY <1>1, PTL DEF Spec, LapsedIsFinal

-----------------------------------------------------------------------------
\* The refinement of Grant

\* A step that ends no consumption gives nothing.
LEMMA GivesNothing ==
    ASSUME IInv, NEW r \in Request, NEW p, Set(r, p), ~p.ok, request[r].pc # "done",
           UNCHANGED <<store, row>>
    PROVE  UNCHANGED Promise!vars
  <1>1. request \in [Request -> RequestRecord]
    BY DEF IInv, TypeOK
  <1>2. \A s \in Request : s # r => request'[s] = request[s]
    BY <1>1 DEF Set
  <1>3. request'[r] = p
    BY <1>1 DEF Set
  <1>4. \A s \in Request : Consumed(s)' <=> Consumed(s)
    BY <1>2, <1>3 DEF Consumed
  <1>5. QED
    BY <1>4 DEF Promise!vars

\* With a database, the steps of a call before it saves give nothing.
LEMMA PreparationGivesNothing ==
    ASSUME IInv, store = "database", NEW r \in Request,
           NEW op \in {"verify", "consume"},
           Begin(r, op) \/ Load(r) \/ FetchProof(r) \/ FetchCard(r) \/ Fail(r)
    PROVE  UNCHANGED Promise!vars
  <1>0. PICK q : q = request[r]
    OBVIOUS
  <1>1. GoodCall(q) /\ q \in RequestRecord /\ (q.ok => q.pc = "done")
    BY <1>0 DEF IInv, GoodCall
  <1>2. UNCHANGED <<store, row>> /\ q.pc # "done"
    BY <1>0 DEF Begin, Load, FetchProof, FetchCard, Fail
  <1>3. \E p : Set(r, p) /\ ~p.ok
    <2>1. CASE Begin(r, op)
      <3>1. ~[Idle EXCEPT !.op = op, !.pc = "load"].ok
        BY DEF Idle
      <3>2. QED
        BY <2>1, <3>1 DEF Begin
    <2>2. CASE Load(r)
      <3> DEFINE p == [q EXCEPT !.seen = row]
      <3>1. GoodCall(p) /\ p.pc = "load"
        BY <1>0, <1>1, <2>2
        DEF Load, IInv, TypeOK, StoresBacked, GoodCall, RequestRecord, Outcome, FileSteps
      <3>2. PICK c : c = Checked(p)
        OBVIOUS
      <3>3. ~c.ok
        BY <3>1, <3>2, CheckedGood
      <3>4. Proceed(r, c, memory)
        BY <1>0, <2>2, <3>2 DEF Load
      <3>5. QED
        BY <3>3, <3>4 DEF Proceed
    <2>3. CASE FetchProof(r)
      <3>1. ~[q EXCEPT !.pc = "card"].ok /\ ~Reply(q, FALSE).ok
        BY <1>1, <1>2, RefusalGood DEF RequestRecord
      <3>2. QED
        BY <1>0, <2>3, <3>1 DEF FetchProof
    <2>4. CASE FetchCard(r)
      <3>1. /\ ~[q EXCEPT !.pc = "save", !.next = "verified"].ok
            /\ ~Reply(q, FALSE).ok
        BY <1>1, <1>2, RefusalGood DEF RequestRecord
      <3>2. QED
        BY <1>0, <2>4, <3>1 DEF FetchCard, Proceed
    <2>5. CASE Fail(r)
      BY <1>0, <1>1, <2>5, RefusalGood DEF Fail
    <2>6. QED
      BY <2>1, <2>2, <2>3, <2>4, <2>5
  <1>4. QED
    BY <1>0, <1>2, <1>3, GivesNothing

\* A save gives the authorization to its caller, closes it, or leaves it open.
LEMMA SaveImplements ==
    ASSUME IInv, store = "database", NEW r \in Request, Save(r) \/ SaveUnacknowledged(r)
    PROVE  [Promise!Next]_(Promise!vars)
  <1>0. PICK q : q = request[r]
    OBVIOUS
  <1>1. /\ GoodCall(q) /\ q \in RequestRecord /\ q.pc = "save" /\ ~q.ok
        /\ request \in [Request -> RequestRecord] /\ store' = store
    BY <1>0 DEF IInv, TypeOK, GoodCall, Save, SaveUnacknowledged
  <1>2. CASE ~Lands(q)
    <2>1. Set(r, Reply(q, FALSE)) /\ row' = row
      BY <1>0, <1>2 DEF Save, SaveUnacknowledged
    <2>2. QED
      BY <1>0, <1>1, <2>1, RefusalGood, GivesNothing
  <1>3. CASE Lands(q)
    <2>1. PICK p : Set(r, p) /\ (p = Saved(q) \/ p = Reply(q, FALSE))
      BY <1>0, <1>3 DEF Save, SaveUnacknowledged
    <2>2. row' = q.next /\ row \in {"issued", "verified"}
      BY <1>0, <1>3 DEF Save, SaveUnacknowledged, Lands, Wanted
    <2>3. \A s \in Request : s # r => request'[s] = request[s]
      BY <1>1, <2>1 DEF Set
    <2>4. request'[r] = p
      BY <1>1, <2>1 DEF Set
    <2>5. ~Consumed(r) /\ \A s \in Request : s # r => (Consumed(s)' <=> Consumed(s))
      BY <1>0, <1>1, <2>3 DEF Consumed
    <2>6. p.op = q.op /\ p.pc = "done" /\ (p.ok => q.next = Outcome(q))
      <3>1. q.next # "absent"
        BY <1>1 DEF GoodCall
      <3>2. QED
        BY <1>1, <2>1, <3>1, SavedGood, RefusalGood DEF Saved, Reply, RequestRecord
    <2>7. q.next \in {"expired", "verified", "consumed"}
      BY <1>1 DEF GoodCall, Outcome
    <2>8. CASE Consumed(r)'
      <3>1. q.next = "consumed"
        BY <2>4, <2>6, <2>8 DEF Consumed, Outcome
      <3>2. Promise!Give(r)
        BY <1>1, <2>2, <2>5, <2>8, <3>1 DEF Promise!Give
      <3>3. QED
        BY <3>2 DEF Promise!Next
    <2>9. CASE ~Consumed(r)'
      <3>1. \A s \in Request : Consumed(s)' <=> Consumed(s)
        BY <2>5, <2>9
      <3>2. CASE q.next = "verified"
        BY <1>1, <2>2, <3>1, <3>2 DEF Promise!vars
      <3>3. CASE q.next # "verified"
        BY <1>1, <2>2, <2>7, <3>1, <3>3 DEF Promise!Next, Promise!Close
      <3>4. QED
        BY <3>2, <3>3
    <2>10. QED
      BY <2>8, <2>9
  <1>4. QED
    BY <1>2, <1>3

\* Every step is one of Grant or a stutter.
LEMMA StepImplements ==
    ASSUME IInv, [Next]_vars
    PROVE  [Promise!Next]_(Promise!vars)
  <1>1. store' = store
    BY DEF Next, vars, Call, Begin, Load, ReadFile, CacheFile, FetchProof, FetchCard, Save,
           SaveUnacknowledged, WriteTemp, RenameTemp, UnlinkTemp, Fail, Restart, OwnerEdits,
           Lapse, Cleanup
  <1>2. CASE store # "database"
    BY <1>1, <1>2 DEF Promise!vars
  <1>3. CASE store = "database"
    <2>1. ASSUME NEW r \in Request, Call(r) PROVE [Promise!Next]_(Promise!vars)
      <3>1. GoodCall(request[r])
        BY DEF IInv
      <3>2. ~(ReadFile(r) \/ CacheFile(r) \/ WriteTemp(r) \/ RenameTemp(r) \/ UnlinkTemp(r))
        BY <1>3, <3>1
        DEF GoodCall, FileSteps, ReadFile, CacheFile, WriteTemp, RenameTemp, UnlinkTemp
      <3>3. QED
        BY <1>3, <2>1, <3>2, SaveImplements, PreparationGivesNothing DEF Call
    <2>2. CASE Restart
      <3>1. \A r \in Request : Consumed(r)' <=> Consumed(r)
        BY <2>2, RestartGivesNothing
      <3>2. QED
        BY <2>2, <3>1 DEF Restart, Promise!vars
    <2>3. CASE OwnerEdits \/ Lapse
      <3>1. UNCHANGED <<store, row, request>>
        BY <2>3 DEF OwnerEdits, Lapse
      <3>2. QED
        BY <3>1 DEF Promise!vars, Consumed
    <2>4. CASE Cleanup
      <3>1. store' = store /\ request' = request /\ row' = "absent"
        BY <2>4 DEF Cleanup
      <3>2. CASE row \in {"issued", "verified"}
        BY <1>3, <3>1, <3>2 DEF Consumed, Promise!Next, Promise!Close
      <3>3. CASE row \notin {"issued", "verified"}
        BY <1>3, <3>1, <3>3 DEF Consumed, Promise!vars
      <3>4. QED
        BY <3>2, <3>3
    <2>5. CASE UNCHANGED vars
      BY <2>5 DEF vars, Promise!vars, Consumed
    <2>6. QED
      BY <2>1, <2>2, <2>3, <2>4, <2>5 DEF Next
  <1>4. QED
    BY <1>2, <1>3

\* With a database an authorization is a Grant: given to one call or to none, and
\* not reopened by a call that loaded it before it was consumed or had expired
\* (transitionAuthorizationRecord).
THEOREM ImplementsGrant == Spec => GrantSpec
  <1>1. Init => Promise!Init
    <2> SUFFICES ASSUME Init PROVE Promise!Init
      OBVIOUS
    <2>1. \A r \in Request : request[r] = Idle /\ Idle.pc = "idle"
      BY DEF Init, Idle
    <2>2. \A r \in Request : ~Consumed(r)
      BY <2>1 DEF Consumed
    <2>3. store = "database" => row = "issued"
      BY DEF Init
    <2>4. QED
      BY <2>2, <2>3 DEF Promise!Init
  <1>2. IInv /\ [Next]_vars => [Promise!Next]_(Promise!vars)
    BY StepImplements
  <1>3. QED
    BY <1>1, <1>2, Invariance, PTL DEF Spec, GrantSpec, Promise!Spec
=============================================================================
