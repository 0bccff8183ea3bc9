---------------------------- MODULE IntakeProofs ----------------------------
(***************************************************************************)
(* Theorems of Intake, for every number of requests, faults and lives of   *)
(* the key, and in both deployments.                                       *)
(*                                                                         *)
(* The argument: of the requests with the key, one at most is past its     *)
(* reservation, and while it is the key is its own (Owns).  Nothing but    *)
(* a lapse or a restart takes a run from the key, so all that were told of *)
(* a run in the present life of the key were told of the one it names      *)
(* (ToldNow), and that is the only one created in it (CreatedNow).         *)
(***************************************************************************)
EXTENDS Intake, TLAPS

\* A holder has the key to itself, and has created its run once it finalizes.
Owns ==
    \A p \in Holders :
        /\ key.deadline = "ahead" /\ key.body = post[p].body /\ post[p].life = life
        /\ key.run \subseteq {p}
        /\ post[p].pc # "abandon" => key.run = {}
        /\ post[p].pc = "finalize" => p \in created
        /\ \A q \in Holders : p = q

\* The run a key names was created, for what the key stands for.
Recorded == \A r \in key.run : r \in created /\ post[r].body = key.body

\* Whoever was told of a run has been answered; in this life of the key, the run
\* is the one it names.
ToldNow ==
    \A p \in Post : post[p].run # {} =>
        /\ post[p].pc = "done"
        /\ post[p].keyed /\ post[p].life = life =>
               key.deadline = "ahead" /\ post[p].run = key.run

LivesBegun == \A p \in Post : post[p].life <= life

\* Only with the key does a request do more than be served.
KeyedOnly == \A p \in Post : post[p].pc \in {"serve", "done"} \/ post[p].keyed

\* Unless something failed, a run created in this life of the key is the one it
\* names, or is about to be.
CreatedNow ==
    \A p \in created :
        /\ post[p].pc \in {"finalize", "abandon", "done"}
        /\ faults = 0 /\ post[p].keyed /\ post[p].life = life =>
               \/ post[p].pc = "finalize"
               \/ key.deadline = "ahead" /\ key.run = {p}
        /\ store = "database" /\ post[p].body = "active" => ~open

IInv ==
    /\ TypeOK
    /\ Owns /\ Recorded /\ ToldNow /\ LivesBegun /\ KeyedOnly /\ CreatedNow
    /\ OneAnswer /\ ReplayIsFaithful /\ OneRun

-----------------------------------------------------------------------------
\* Lemmas about how one request changes

\* Request p changes to this, and no other does.
Changes(p, pc, status, run, l) ==
    /\ post' \in [Post -> PostRecord]
    /\ \A q \in Post : q # p => post'[q] = post[q]
    /\ post'[p].body = post[p].body /\ post'[p].keyed = post[p].keyed
    /\ post'[p].pc = pc /\ post'[p].status = status
    /\ post'[p].run = run /\ post'[p].life = l

\* A record of the request in place of its record.
LEMMA SetChanges ==
    ASSUME TypeOK, NEW p \in Post, NEW q \in PostRecord, Set(p, q),
           q.body = post[p].body, q.keyed = post[p].keyed
    PROVE  Changes(p, q.pc, q.status, q.run, q.life)
  BY DEF TypeOK, Set, Changes

\* Going on changes the position only.
LEMMA GotoChanges ==
    ASSUME TypeOK, NEW p \in Post,
           NEW pc \in {"insert", "select", "delete", "serve", "finalize", "abandon", "done"},
           Goto(p, pc)
    PROVE  Changes(p, pc, post[p].status, post[p].run, post[p].life)
  BY DEF TypeOK, Goto, Set, Changes, PostRecord

\* An answer ends the request.
LEMMA AnswerChanges ==
    ASSUME TypeOK, NEW p \in Post, NEW status \in {200, 201, 400, 401, 409, 422, 429},
           NEW run \in SUBSET Post, Answer(p, status, run)
    PROVE  Changes(p, "done", status, run, post[p].life)
  <1>1. PICK r : r = post[p]
    OBVIOUS
  <1>2. PICK q : q = [r EXCEPT !.pc = "done", !.status = status, !.run = run]
    OBVIOUS
  <1>3. r \in PostRecord
    BY <1>1 DEF TypeOK
  <1>4. q \in PostRecord
    <2>1. q = [body |-> r.body, keyed |-> r.keyed, pc |-> "done", status |-> status,
               run |-> run, life |-> r.life]
      <3>1. r = [body |-> r.body, keyed |-> r.keyed, pc |-> r.pc, status |-> r.status,
                 run |-> r.run, life |-> r.life]
        BY <1>3 DEF PostRecord
      <3>2. QED
        BY <1>2, <3>1
    <2>2. /\ q.body \in Body /\ q.keyed \in BOOLEAN
          /\ q.pc \in {"insert", "select", "delete", "serve", "finalize", "abandon", "done"}
      BY <1>3, <2>1 DEF PostRecord
    <2>3. /\ q.status \in {0, 200, 201, 400, 401, 409, 422, 429}
          /\ q.run \in SUBSET Post /\ q.life \in 0..MaxLife
      BY <1>3, <2>1 DEF PostRecord
    <2>4. QED
      BY <2>1, <2>2, <2>3 DEF PostRecord
  <1>5. /\ q.body = r.body /\ q.keyed = r.keyed
        /\ q.pc = "done" /\ q.status = status /\ q.run = run /\ q.life = r.life
    BY <1>2, <1>3 DEF PostRecord
  <1>6. Set(p, q)
    BY <1>1, <1>2 DEF Answer
  <1>7. QED
    BY <1>1, <1>4, <1>5, <1>6, SetChanges

\* A replay is an answer in the present life of the key.
LEMMA ReplayChanges ==
    ASSUME TypeOK, NEW p \in Post, Replay(p)
    PROVE  Changes(p, "done", 200, key.run, life)
  <1>1. PICK r : r = post[p]
    OBVIOUS
  <1>2. PICK q : q = [r EXCEPT !.pc = "done", !.status = 200, !.run = key.run, !.life = life]
    OBVIOUS
  <1>3. r \in PostRecord /\ key.run \in SUBSET Post /\ life \in 0..MaxLife
    BY <1>1 DEF TypeOK, KeyRecord
  <1>4. q \in PostRecord
    <2>1. q = [body |-> r.body, keyed |-> r.keyed, pc |-> "done", status |-> 200,
               run |-> key.run, life |-> life]
      <3>1. r = [body |-> r.body, keyed |-> r.keyed, pc |-> r.pc, status |-> r.status,
                 run |-> r.run, life |-> r.life]
        BY <1>3 DEF PostRecord
      <3>2. QED
        BY <1>2, <3>1
    <2>2. /\ q.body \in Body /\ q.keyed \in BOOLEAN
          /\ q.pc \in {"insert", "select", "delete", "serve", "finalize", "abandon", "done"}
      BY <1>3, <2>1 DEF PostRecord
    <2>3. /\ q.status \in {0, 200, 201, 400, 401, 409, 422, 429}
          /\ q.run \in SUBSET Post /\ q.life \in 0..MaxLife
      BY <1>3, <2>1 DEF PostRecord
    <2>4. QED
      BY <2>1, <2>2, <2>3 DEF PostRecord
  <1>5. /\ q.body = r.body /\ q.keyed = r.keyed
        /\ q.pc = "done" /\ q.status = 200 /\ q.run = key.run /\ q.life = life
    BY <1>2, <1>3 DEF PostRecord
  <1>6. Set(p, q)
    BY <1>1, <1>2 DEF Replay
  <1>7. QED
    BY <1>1, <1>4, <1>5, <1>6, SetChanges

\* A reservation begins to serve the request.
LEMMA ReserveChanges ==
    ASSUME TypeOK, NEW p \in Post, Reserve(p)
    PROVE  Changes(p, "serve", post[p].status, post[p].run, life)
  <1>1. PICK r : r = post[p]
    OBVIOUS
  <1>2. PICK q : q = [r EXCEPT !.pc = "serve", !.life = life]
    OBVIOUS
  <1>3. r \in PostRecord /\ life \in 0..MaxLife
    BY <1>1 DEF TypeOK
  <1>4. q \in PostRecord
    <2>1. q = [body |-> r.body, keyed |-> r.keyed, pc |-> "serve", status |-> r.status,
               run |-> r.run, life |-> life]
      <3>1. r = [body |-> r.body, keyed |-> r.keyed, pc |-> r.pc, status |-> r.status,
                 run |-> r.run, life |-> r.life]
        BY <1>3 DEF PostRecord
      <3>2. QED
        BY <1>2, <3>1
    <2>2. /\ q.body \in Body /\ q.keyed \in BOOLEAN
          /\ q.pc \in {"insert", "select", "delete", "serve", "finalize", "abandon", "done"}
      BY <1>3, <2>1 DEF PostRecord
    <2>3. /\ q.status \in {0, 200, 201, 400, 401, 409, 422, 429}
          /\ q.run \in SUBSET Post /\ q.life \in 0..MaxLife
      BY <1>3, <2>1 DEF PostRecord
    <2>4. QED
      BY <2>1, <2>2, <2>3 DEF PostRecord
  <1>5. /\ q.body = r.body /\ q.keyed = r.keyed
        /\ q.pc = "serve" /\ q.status = r.status /\ q.run = r.run /\ q.life = life
    BY <1>2, <1>3 DEF PostRecord
  <1>6. Set(p, q)
    BY <1>1, <1>2 DEF Reserve
  <1>7. QED
    BY <1>1, <1>4, <1>5, <1>6, SetChanges

\* Nobody who has not been answered was told of a run.
LEMMA NotTold ==
    ASSUME IInv, NEW p \in Post, post[p].pc # "done"
    PROVE  post[p].run = {} /\ post[p].status \notin {200, 201}
  BY DEF IInv, ToldNow, TypeOK

-----------------------------------------------------------------------------
\* Lemmas about the steps, by what they do to the key

\* The request goes on, or is answered without a run.  The key stays, or p was its
\* last holder and leaves it without a run.
LEMMA MoveKeeps ==
    ASSUME IInv, NEW p \in Post, NEW pc, NEW status,
           Changes(p, pc, status, {}, post[p].life), TypeOK',
           post[p].pc # "done", status \notin {200, 201},
           pc \in {"select", "delete", "insert", "abandon", "done"},
           pc # "done" => post[p].keyed,
           pc = "abandon" => p \in Holders,
           p \in created => pc \in {"abandon", "done"},
           faults' = 0 => faults = 0 /\ (post[p].keyed => post[p].pc # "finalize"),
           open' => open,
           \/ key' = key
           \/ /\ key'.run = {} /\ (key.run = {} \/ key.deadline # "ahead")
              /\ Holders \subseteq {p} /\ pc # "abandon",
           UNCHANGED <<store, life, created>>
    PROVE  IInv'
  <1>0. post[p].run = {}
    BY NotTold
  <1>1. Holders' \subseteq Holders /\ \A q \in Holders' : q # p => post'[q] = post[q]
    BY DEF Holders, Changes
  <1>2. p \in Holders' => pc = "abandon"
    BY DEF Holders, Changes
  <1>3. \A q \in Post : post'[q].body = post[q].body /\ post'[q].keyed = post[q].keyed
                        /\ post'[q].life = post[q].life /\ post'[q].run = post[q].run
    BY <1>0 DEF Changes
  <1>4. ASSUME key' = key PROVE Owns' /\ Recorded' /\ ToldNow' /\ CreatedNow'
    <2>1. Owns'
      BY <1>1, <1>2, <1>3, <1>4 DEF IInv, Owns, Changes, Holders
    <2>2. Recorded'
      BY <1>3, <1>4 DEF IInv, Recorded, TypeOK, KeyRecord
    <2>3. ToldNow'
      BY <1>0, <1>3, <1>4 DEF IInv, ToldNow, Changes
    <2>4. CreatedNow'
      BY <1>3, <1>4 DEF IInv, CreatedNow, Changes, TypeOK
    <2>5. QED
      BY <2>1, <2>2, <2>3, <2>4
  <1>5. ASSUME key'.run = {}, key.run = {} \/ key.deadline # "ahead",
               Holders \subseteq {p}, pc # "abandon"
        PROVE  Owns' /\ Recorded' /\ ToldNow' /\ CreatedNow'
    <2>1. Holders' = {}
      BY <1>1, <1>2, <1>5
    <2>2. Owns' /\ Recorded'
      BY <1>5, <2>1 DEF Owns, Recorded
    <2>3. ToldNow'
      BY <1>0, <1>3, <1>5 DEF IInv, ToldNow, Changes
    <2>4. ASSUME NEW q \in created, faults' = 0, post[q].keyed, post[q].life = life PROVE FALSE
      <3>1. q \in Post /\ post[q].pc = "finalize"
        BY <1>5, <2>4 DEF IInv, CreatedNow, TypeOK
      <3>2. q = p
        BY <1>5, <2>4, <3>1 DEF Holders
      <3>3. QED
        BY <2>4, <3>1, <3>2
    <2>5. CreatedNow'
      BY <1>3, <2>4 DEF IInv, CreatedNow, Changes, TypeOK
    <2>6. QED
      BY <2>2, <2>3, <2>5
  <1>6. ReplayIsFaithful' /\ LivesBegun' /\ KeyedOnly'
    BY <1>3 DEF IInv, ReplayIsFaithful, LivesBegun, KeyedOnly, Changes, TypeOK, PostRecord
  <1>7. OneAnswer'
    BY <1>0, <1>3 DEF IInv, OneAnswer, SameKey, Changes
  <1>8. OneRun'
    BY <1>3 DEF IInv, OneRun, SameKey, TypeOK
  <1>9. QED
    BY <1>4, <1>5, <1>6, <1>7, <1>8 DEF IInv

\* What a step leaves of the types when it changes one request and the key.
OthersTyped ==
    /\ store \in Stores
    /\ key \in KeyRecord /\ \A r, s \in key.run : r = s
    /\ life \in 0..MaxLife
    /\ created \subseteq Post /\ given \subseteq Post /\ open \in BOOLEAN
    /\ faults \in 0..MaxFaults

\* An answer without a run.
LEMMA RefusalKeeps ==
    ASSUME IInv, NEW p \in Post, NEW status \in {400, 401, 409, 422, 429}, Answer(p, status, {}),
           post[p].pc # "done", OthersTyped',
           faults' = 0 => faults = 0 /\ (post[p].keyed => post[p].pc # "finalize"),
           open' => open,
           \/ key' = key
           \/ key'.run = {} /\ (key.run = {} \/ key.deadline # "ahead") /\ Holders \subseteq {p},
           UNCHANGED <<store, life, created>>
    PROVE  IInv'
  <1>1. Changes(p, "done", status, {}, post[p].life)
    BY AnswerChanges DEF IInv
  <1>2. TypeOK'
    BY <1>1 DEF IInv, TypeOK, OthersTyped, Changes
  <1>3. QED
    BY <1>1, <1>2, MoveKeeps

\* A step to another position, which is not one of serving.
LEMMA GoKeeps ==
    ASSUME IInv, NEW p \in Post, NEW pc \in {"select", "delete", "insert", "abandon"}, Goto(p, pc),
           post[p].pc # "done", OthersTyped',
           post[p].keyed,
           pc = "abandon" => p \in Holders,
           p \in created => pc = "abandon",
           faults' = 0 => faults = 0 /\ (post[p].keyed => post[p].pc # "finalize"),
           open' => open,
           \/ key' = key
           \/ /\ key'.run = {} /\ (key.run = {} \/ key.deadline # "ahead")
              /\ Holders \subseteq {p} /\ pc # "abandon",
           UNCHANGED <<store, life, created>>
    PROVE  IInv'
  <1>1. Changes(p, pc, post[p].status, post[p].run, post[p].life)
    BY GotoChanges DEF IInv
  <1>2. post[p].run = {} /\ post[p].status \notin {200, 201}
    BY NotTold
  <1>3. TypeOK'
    BY <1>1, <1>2 DEF IInv, TypeOK, OthersTyped, Changes
  <1>4. Changes(p, pc, post[p].status, {}, post[p].life)
    BY <1>1, <1>2
  <1>5. QED
    BY <1>2, <1>3, <1>4, MoveKeeps

\* A key that nobody can be told a run of is reserved by p.
LEMMA ReserveKeeps ==
    ASSUME IInv, NEW p \in Post, Reserve(p), At(p, "insert"),
           key.deadline # "ahead", Elsewhere
    PROVE  IInv'
  <1>0. Changes(p, "serve", post[p].status, post[p].run, life)
    BY ReserveChanges DEF IInv
  <1>1. key' = [deadline |-> "ahead", body |-> post[p].body, run |-> {}]
    BY DEF Reserve
  <1>2. post[p].run = {} /\ p \notin created /\ post[p].status \notin {200, 201}
    BY NotTold DEF At, IInv, CreatedNow
  <1>3. Holders = {}
    BY DEF IInv, Owns
  <1>4. Holders' = {p}
    BY <1>0, <1>3 DEF Holders, Changes, At, IInv, KeyedOnly
  <1>5. TypeOK'
    BY <1>0, <1>1, <1>2 DEF IInv, TypeOK, Changes, KeyRecord, Deadline, PostRecord, Elsewhere
  <1>6. Owns' /\ Recorded'
    BY <1>0, <1>1, <1>4 DEF Owns, Recorded, Changes, Elsewhere
  <1>7. ToldNow' /\ LivesBegun' /\ KeyedOnly'
    BY <1>0, <1>2 DEF IInv, TypeOK, ToldNow, LivesBegun, KeyedOnly, Changes, Elsewhere
  <1>8. CreatedNow'
    <2>1. \A q \in created : q \in Post /\ post'[q] = post[q]
      BY <1>0, <1>2 DEF Changes, IInv, TypeOK
    <2>2. \A q \in created : post[q].keyed => post[q].pc # "finalize"
      BY <1>3, <2>1 DEF Holders
    <2>3. QED
      BY <2>1, <2>2 DEF IInv, CreatedNow, Elsewhere
  <1>9. OneAnswer' /\ ReplayIsFaithful'
    <2>1. \A q \in Post : post'[q].body = post[q].body /\ post'[q].run = post[q].run
      BY <1>0 DEF Changes
    <2>2. \A q \in Post : post[q].run # {} => post'[q] = post[q]
      BY <1>0, <1>2 DEF Changes
    <2>3. OneAnswer'
      BY <2>1, <2>2 DEF IInv, OneAnswer, SameKey
    <2>4. ReplayIsFaithful'
      <3>1. \A q \in Post : post[q].run \subseteq Post
        BY DEF IInv, TypeOK, PostRecord
      <3>2. QED
        BY <2>1, <3>1 DEF IInv, ReplayIsFaithful, Elsewhere
    <2>5. QED
      BY <2>3, <2>4
  <1>10. OneRun'
    BY <1>0, <1>2 DEF IInv, OneRun, SameKey, Changes, Elsewhere, TypeOK
  <1>11. QED
    BY <1>5, <1>6, <1>7, <1>8, <1>9, <1>10 DEF IInv

\* A request is told of the run the key names.
LEMMA ReplayKeeps ==
    ASSUME IInv, NEW p \in Post, Replay(p), post[p].pc \in {"insert", "select"},
           key.deadline = "ahead", key.body = post[p].body, key.run # {},
           UNCHANGED key, Elsewhere
    PROVE  IInv'
  <1>0. Changes(p, "done", 200, key.run, life)
    BY ReplayChanges DEF IInv
  <1>2. post[p].run = {} /\ p \notin created
    BY NotTold DEF IInv, CreatedNow
  <1>3. Holders' = Holders /\ p \notin Holders
    BY <1>0 DEF Holders, Changes
  <1>4. \A q \in Post : post'[q].body = post[q].body /\ post'[q].keyed = post[q].keyed
    BY <1>0 DEF Changes
  <1>5. TypeOK'
    BY <1>0 DEF IInv, TypeOK, Changes, Elsewhere
  <1>6. Owns' /\ Recorded'
    BY <1>0, <1>3, <1>4 DEF IInv, Owns, Recorded, Changes, Elsewhere, TypeOK, KeyRecord, Holders
  <1>7. ToldNow' /\ LivesBegun' /\ KeyedOnly'
    BY <1>0 DEF IInv, TypeOK, ToldNow, LivesBegun, KeyedOnly, Changes, Elsewhere
  <1>8. CreatedNow'
    BY <1>0, <1>2 DEF IInv, CreatedNow, Changes, Elsewhere, TypeOK
  <1>9. OneAnswer'
    BY <1>0 DEF IInv, OneAnswer, ToldNow, SameKey, Changes, Elsewhere
  <1>10. ReplayIsFaithful'
    <2>1. \A q \in Post : \A r \in post[q].run : r \in Post
      BY DEF IInv, TypeOK, PostRecord
    <2>2. \A r \in key.run : r \in Post /\ r \in created /\ post[r].body = post[p].body
      BY DEF IInv, Recorded, TypeOK, KeyRecord
    <2>3. QED
      BY <1>0, <1>4, <2>1, <2>2 DEF IInv, ReplayIsFaithful, Changes, Elsewhere
  <1>11. OneRun'
    BY <1>0, <1>2 DEF IInv, OneRun, SameKey, Changes, Elsewhere, TypeOK
  <1>12. QED
    BY <1>5, <1>6, <1>7, <1>8, <1>9, <1>10, <1>11 DEF IInv

\* A run is created.
LEMMA CreateKeeps ==
    ASSUME IInv, NEW p \in Post, At(p, "serve"), Create(p),
           store = "database" /\ post[p].body = "active" => open /\ ~open',
           open' => open, given' \subseteq Post, open' \in BOOLEAN,
           UNCHANGED <<store, key, life, faults>>
    PROVE  IInv'
  <1>1. created' = created \cup {p}
    BY DEF Create
  <1>2. post[p].run = {} /\ p \notin created /\ post[p].status \notin {200, 201}
    BY NotTold DEF At, IInv, CreatedNow
  <1>3. \A q \in created : store = "database" /\ post[q].body = "active" => post[p].body # "active"
    BY DEF IInv, CreatedNow
  <1>4. CASE post[p].keyed
    <2>1. Changes(p, "finalize", post[p].status, post[p].run, post[p].life)
      BY <1>4, GotoChanges DEF Create, IInv
    <2>2. p \in Holders /\ key.run = {} /\ post[p].life = life
      BY <1>4 DEF Holders, At, IInv, Owns
    <2>3. \A q \in created : ~(faults = 0 /\ post[q].keyed /\ post[q].life = life)
      <3>1. ASSUME NEW q \in created, faults = 0, post[q].keyed, post[q].life = life PROVE FALSE
        <4>1. q \in Post /\ post[q].pc = "finalize"
          BY <2>2, <3>1 DEF IInv, CreatedNow, TypeOK
        <4>2. q \in Holders
          BY <3>1, <4>1 DEF Holders
        <4>3. QED
          BY <1>2, <2>2, <4>2 DEF IInv, Owns
      <3>2. QED
        BY <3>1
    <2>4. Holders' = Holders
      BY <1>4, <2>1 DEF Holders, Changes, At
    <2>5. TypeOK'
      BY <1>1, <1>2, <2>1 DEF IInv, TypeOK, Changes
    <2>6. Owns'
      BY <1>1, <2>1, <2>2, <2>4 DEF IInv, Owns, Changes, Holders
    <2>7. Recorded' /\ ToldNow' /\ LivesBegun' /\ KeyedOnly'
      <3>1. Recorded'
        BY <2>2 DEF Recorded
      <3>2. ToldNow'
        BY <1>2, <2>1 DEF IInv, ToldNow, Changes
      <3>3. LivesBegun' /\ KeyedOnly'
        BY <1>4, <2>1 DEF IInv, LivesBegun, KeyedOnly, Changes
      <3>4. QED
        BY <3>1, <3>2, <3>3
    <2>8. CreatedNow'
      BY <1>1, <1>2, <2>1 DEF IInv, CreatedNow, Changes, TypeOK
    <2>9. OneAnswer' /\ ReplayIsFaithful'
      <3>1. \A q \in Post : post'[q].body = post[q].body /\ post'[q].keyed = post[q].keyed
                /\ post'[q].life = post[q].life /\ post'[q].run = post[q].run
                /\ post'[q].status = post[q].status
        BY <1>2, <2>1 DEF Changes
      <3>2. OneAnswer'
        BY <3>1 DEF IInv, OneAnswer, SameKey
      <3>3. ReplayIsFaithful'
        BY <1>1, <3>1 DEF IInv, ReplayIsFaithful, TypeOK, PostRecord
      <3>4. QED
        BY <3>2, <3>3
    <2>10. OneRun'
      BY <1>1, <1>2, <1>3, <2>1, <2>2, <2>3 DEF IInv, OneRun, SameKey, Changes, TypeOK
    <2>11. QED
      BY <2>5, <2>6, <2>7, <2>8, <2>9, <2>10 DEF IInv
  <1>5. CASE ~post[p].keyed
    <2>1. Changes(p, "done", 201, {p}, post[p].life)
      BY <1>5, AnswerChanges DEF Create, IInv
    <2>2. Holders' = Holders /\ p \notin Holders
      BY <1>5, <2>1 DEF Holders, Changes
    <2>3. TypeOK'
      <3>1. post' \in [Post -> PostRecord] /\ created' \subseteq Post
        BY <1>1, <2>1 DEF IInv, TypeOK, Changes
      <3>2. \A q \in Post : post'[q].run # {} <=> post'[q].status \in {200, 201}
        BY <2>1 DEF IInv, TypeOK, Changes
      <3>3. QED
        BY <3>1, <3>2 DEF IInv, TypeOK
    <2>4. Owns' /\ Recorded' /\ ToldNow' /\ LivesBegun' /\ KeyedOnly'
      <3>1. \A q \in Post : post'[q].body = post[q].body /\ post'[q].keyed = post[q].keyed
                            /\ post'[q].life = post[q].life
        BY <2>1 DEF Changes
      <3>2. Owns'
        BY <1>1, <2>1, <2>2 DEF IInv, Owns, Changes, Holders
      <3>3. Recorded'
        BY <1>1, <3>1 DEF IInv, Recorded, TypeOK, KeyRecord
      <3>4. ToldNow' /\ LivesBegun' /\ KeyedOnly'
        BY <1>5, <2>1, <3>1 DEF IInv, ToldNow, LivesBegun, KeyedOnly, Changes
      <3>5. QED
        BY <3>2, <3>3, <3>4
    <2>5. CreatedNow'
      BY <1>1, <1>2, <1>5, <2>1 DEF IInv, CreatedNow, Changes, TypeOK
    <2>6. OneAnswer'
      BY <1>5, <2>1 DEF IInv, OneAnswer, SameKey, Changes
    <2>7. ReplayIsFaithful'
      BY <1>1, <2>1 DEF IInv, ReplayIsFaithful, Changes, TypeOK, PostRecord
    <2>8. OneRun'
      BY <1>1, <1>2, <1>3, <1>5, <2>1 DEF IInv, OneRun, SameKey, Changes, TypeOK
    <2>9. QED
      BY <2>3, <2>4, <2>5, <2>6, <2>7, <2>8 DEF IInv
  <1>6. QED
    BY <1>4, <1>5

\* The key is given its run: its holder is answered, or goes to the catch block.
LEMMA NameKeeps ==
    ASSUME IInv, NEW p \in Post, At(p, "finalize"),
           key' = [key EXCEPT !.run = {p}],
           Answer(p, 201, {p}) \/ (Goto(p, "abandon") /\ faults' # 0),
           faults' \in 0..MaxFaults, faults' = 0 => faults = 0,
           UNCHANGED <<store, life, created, open, given>>
    PROVE  IInv'
  <1>1. PICK pc, status, run :
            /\ Changes(p, pc, status, run, post[p].life)
            /\ \/ pc = "done" /\ status = 201 /\ run = {p}
               \/ pc = "abandon" /\ status = post[p].status /\ run = post[p].run /\ faults' # 0
    BY GotoChanges, AnswerChanges DEF IInv
  <1>2. p \in Holders
    BY DEF Holders, At, IInv, KeyedOnly
  <1>3. /\ key.run = {} /\ key.deadline = "ahead" /\ key.body = post[p].body
        /\ post[p].life = life /\ p \in created
    BY <1>2 DEF IInv, Owns, At
  <1>4. post[p].run = {} /\ post[p].status \notin {200, 201}
    BY NotTold DEF At
  <1>5. key'.run = {p} /\ key'.deadline = "ahead" /\ key'.body = post[p].body /\ key' \in KeyRecord
    BY <1>3 DEF IInv, TypeOK, KeyRecord
  <1>6. Holders' \subseteq {p} /\ (p \in Holders' => pc = "abandon")
    BY <1>1, <1>2 DEF IInv, Owns, Holders, Changes
  <1>7. \A q \in Post : post'[q].body = post[q].body /\ post'[q].keyed = post[q].keyed
                        /\ post'[q].life = post[q].life
    BY <1>1 DEF Changes
  <1>8. TypeOK'
    BY <1>1, <1>4, <1>5 DEF IInv, TypeOK, Changes
  <1>9. Owns' /\ Recorded' /\ LivesBegun' /\ KeyedOnly'
    <2>1. Owns'
      BY <1>1, <1>3, <1>5, <1>6, <1>7 DEF Owns, Changes
    <2>2. Recorded'
      BY <1>3, <1>5, <1>7 DEF Recorded
    <2>3. LivesBegun'
      BY <1>7 DEF IInv, LivesBegun
    <2>4. post[p].keyed
      BY <1>2 DEF Holders
    <2>5. KeyedOnly'
      BY <1>1, <2>4 DEF IInv, KeyedOnly, Changes
    <2>6. QED
      BY <2>1, <2>2, <2>3, <2>5
  <1>10. \A q \in Post : post[q].keyed /\ post[q].life = life => post[q].run = {}
    BY <1>3 DEF IInv, ToldNow
  <1>11. ToldNow'
    BY <1>1, <1>4, <1>5, <1>7, <1>10 DEF IInv, ToldNow, Changes
  <1>12. CreatedNow'
    <2>1. ASSUME NEW q \in created, faults' = 0, post[q].keyed, post[q].life = life PROVE q = p
      <3>1. q \in Post /\ post[q].pc = "finalize"
        BY <1>3, <2>1 DEF IInv, CreatedNow, TypeOK
      <3>2. QED
        BY <1>2, <2>1, <3>1 DEF IInv, Owns, Holders
    <2>2. \A q \in created : q \in Post
      BY DEF IInv, TypeOK
    <2>3. QED
      BY <1>1, <1>3, <1>5, <1>7, <2>1, <2>2 DEF IInv, CreatedNow, Changes
  <1>13. OneAnswer'
    BY <1>1, <1>3, <1>4, <1>7, <1>10 DEF IInv, OneAnswer, SameKey, Changes
  <1>14. ReplayIsFaithful'
    BY <1>1, <1>3, <1>4, <1>7 DEF IInv, ReplayIsFaithful, Changes, TypeOK, PostRecord
  <1>15. OneRun'
    BY <1>7 DEF IInv, OneRun, SameKey, TypeOK
  <1>16. QED
    BY <1>8, <1>9, <1>11, <1>12, <1>13, <1>14, <1>15 DEF IInv

\* The cleanup removes a key that lapsed.
LEMMA CleanupKeeps ==
    ASSUME IInv, Cleanup
    PROVE  IInv'
  <1>1. key' \in KeyRecord /\ key'.run = {} /\ key.deadline = "passed"
    BY DEF Cleanup, NoKey, KeyRecord, Deadline
  <1>2. Holders = {} /\ Holders' = {}
    BY <1>1 DEF IInv, Owns, Cleanup, Holders
  <1>3. TypeOK' /\ Owns' /\ Recorded' /\ LivesBegun' /\ KeyedOnly'
    BY <1>1, <1>2 DEF Cleanup, IInv, TypeOK, Owns, Recorded, LivesBegun, KeyedOnly
  <1>4. ToldNow'
    BY <1>1 DEF Cleanup, IInv, ToldNow
  <1>5. \A p \in created : p \in Post /\ (post[p].keyed => post[p].pc # "finalize")
    BY <1>2 DEF IInv, TypeOK, Holders
  <1>6. CreatedNow'
    BY <1>1, <1>5 DEF Cleanup, IInv, CreatedNow
  <1>7. OneAnswer' /\ ReplayIsFaithful' /\ OneRun'
    BY DEF Cleanup, IInv, OneAnswer, ReplayIsFaithful, OneRun, SameKey
  <1>8. QED
    BY <1>3, <1>4, <1>6, <1>7 DEF IInv

\* A request's life of the key is a number, no greater than that of the key.
LEMMA LifeBegun ==
    ASSUME IInv, NEW p \in Post
    PROVE  post[p].life \in Nat /\ post[p].life <= life
  <1>1. post[p] \in PostRecord
    BY DEF IInv, TypeOK
  <1>2. post[p].life \in 0..MaxLife
    BY <1>1 DEF PostRecord
  <1>3. QED
    BY <1>2, IntakeAssumption DEF IInv, LivesBegun

\* Another life of the key begins with nobody in it: after a lapse, or a restart.
LEMMA NewLifeKeeps ==
    ASSUME IInv, KeyLapses \/ Restart
    PROVE  IInv'
  <1>1. /\ life' = life + 1 /\ life \in Nat /\ life' \in 0..MaxLife
        /\ key' \in KeyRecord /\ (key'.run = {} \/ (key'.run = key.run /\ key'.body = key.body))
        /\ UNCHANGED <<store, created, open, given, faults>>
    <2>1. life < MaxLife /\ MaxLife \in Nat /\ life \in 0..MaxLife
      BY IntakeAssumption DEF KeyLapses, Restart, IInv, TypeOK
    <2>2. key' = [key EXCEPT !.deadline = "passed"] \/ key' = NoKey
      BY DEF KeyLapses, Restart
    <2>3. key' \in KeyRecord /\ (key'.run = {} \/ (key'.run = key.run /\ key'.body = key.body))
      <3>1. key \in KeyRecord
        BY DEF IInv, TypeOK
      <3>2. CASE key' = [key EXCEPT !.deadline = "passed"]
        BY <3>1, <3>2 DEF KeyRecord, Deadline
      <3>3. CASE key' = NoKey
        BY <3>3 DEF KeyRecord, Deadline, NoKey
      <3>4. QED
        BY <2>2, <3>2, <3>3
    <2>4. life' = life + 1 /\ UNCHANGED <<store, created, open, given, faults>>
      BY DEF KeyLapses, Restart
    <2>5. life \in Nat /\ life' \in 0..MaxLife
      BY <2>1, <2>4
    <2>6. QED
      BY <2>3, <2>4, <2>5
  <1>2. ASSUME NEW p \in Post
        PROVE  /\ post'[p] \in PostRecord /\ post'[p].body = post[p].body
               /\ post'[p].keyed = post[p].keyed /\ post'[p].life = post[p].life
               /\ post'[p].run = post[p].run
               /\ post'[p].status \in {200, 201} => post'[p].status = post[p].status
               /\ post[p].status \in {200, 201} => post'[p].status = post[p].status
               /\ post'[p].pc = "done" \/ post'[p].pc = post[p].pc
               /\ Restart => post'[p].pc \in {"insert", "done"}
    <2>0. PICK r : r = post[p]
      OBVIOUS
    <2>1. r \in PostRecord
      BY <2>0 DEF IInv, TypeOK
    <2>2. \/ post'[p] = r /\ (Restart => r.pc \in {"insert", "done"})
          \/ r.pc # "done" /\ post'[p] = [r EXCEPT !.pc = "done", !.status = 400]
      <3>1. CASE Restart
        BY <2>0, <3>1 DEF Restart
      <3>2. CASE KeyLapses /\ ~Restart
        BY <2>0, <3>2 DEF KeyLapses
      <3>3. QED
        BY <3>1, <3>2
    <2>3. CASE post'[p] = r /\ (Restart => r.pc \in {"insert", "done"})
      BY <2>0, <2>1, <2>3
    <2>4. CASE r.pc # "done" /\ post'[p] = [r EXCEPT !.pc = "done", !.status = 400]
      <3>1. PICK q : q = [r EXCEPT !.pc = "done", !.status = 400]
        OBVIOUS
      <3>2. q = [body |-> r.body, keyed |-> r.keyed, pc |-> "done", status |-> 400,
                 run |-> r.run, life |-> r.life]
        <4>1. r = [body |-> r.body, keyed |-> r.keyed, pc |-> r.pc, status |-> r.status,
                   run |-> r.run, life |-> r.life]
          BY <2>1 DEF PostRecord
        <4>2. QED
          BY <3>1, <4>1
      <3>3. q \in PostRecord
        <4>1. /\ r.body \in Body /\ r.keyed \in BOOLEAN
              /\ r.run \in SUBSET Post /\ r.life \in 0..MaxLife
          BY <2>1 DEF PostRecord
        <4>2. QED
          BY <3>2, <4>1 DEF PostRecord
      <3>4. r.status \notin {200, 201}
        BY <2>0, <2>4, NotTold
      <3>5. QED
        BY <2>0, <2>4, <3>1, <3>2, <3>3, <3>4
    <2>5. QED
      BY <2>2, <2>3, <2>4
  <1>3. post' \in [Post -> PostRecord]
    <2>1. CASE KeyLapses
      BY <2>1 DEF KeyLapses, IInv, TypeOK
    <2>2. CASE Restart
      <3>1. post' = [p \in Post |-> post'[p]]
        BY <2>2 DEF Restart
      <3>2. QED
        BY <1>2, <3>1
    <2>3. QED
      BY <2>1, <2>2
  <1>4. Holders' = {}
    <2>1. CASE KeyLapses
      BY <2>1 DEF KeyLapses, Holders
    <2>2. CASE Restart
      BY <1>2, <2>2 DEF Holders
    <2>3. QED
      BY <2>1, <2>2
  <1>5. \A p \in Post : post'[p].life # life'
    BY <1>1, <1>2, LifeBegun
  <1>6. TypeOK'
    BY <1>1, <1>2, <1>3 DEF IInv, TypeOK
  <1>7. Owns' /\ Recorded' /\ KeyedOnly'
    <2>1. Owns' /\ Recorded'
      BY <1>1, <1>2, <1>4 DEF IInv, Owns, Recorded, TypeOK, KeyRecord
    <2>2. KeyedOnly'
      BY <1>2 DEF IInv, KeyedOnly
    <2>3. QED
      BY <2>1, <2>2
  <1>8. LivesBegun'
    BY <1>1, <1>2, LifeBegun DEF LivesBegun
  <1>9. ToldNow'
    BY <1>2, <1>5 DEF IInv, ToldNow
  <1>10. CreatedNow'
    BY <1>1, <1>2, <1>5 DEF IInv, CreatedNow, TypeOK
  <1>11. OneAnswer'
    BY <1>2 DEF IInv, OneAnswer, SameKey
  <1>12. ReplayIsFaithful'
    BY <1>1, <1>2 DEF IInv, ReplayIsFaithful, TypeOK, PostRecord
  <1>13. OneRun'
    BY <1>1, <1>2 DEF IInv, OneRun, SameKey, TypeOK
  <1>14. QED
    BY <1>6, <1>7, <1>8, <1>9, <1>10, <1>11, <1>12, <1>13 DEF IInv

-----------------------------------------------------------------------------
\* The invariant

\* Nobody has asked yet.
LEMMA InitIInv == Init => IInv
  <1> SUFFICES ASSUME Init PROVE IInv
    OBVIOUS
  <1>1. PICK body \in [Post -> Body], keyed \in [Post -> BOOLEAN] :
            post = [p \in Post |-> Fresh(body[p], keyed[p])]
    BY DEF Init
  <1>2. ASSUME NEW p \in Post
        PROVE  post[p] \in PostRecord /\ post[p].run = {} /\ post[p].status = 0
               /\ post[p].life = 0 /\ (post[p].pc = "serve" \/ (post[p].keyed /\ post[p].pc = "insert"))
               /\ (post[p].pc = "serve" => ~post[p].keyed)
    <2>1. post[p] = Fresh(body[p], keyed[p]) /\ body[p] \in Body /\ keyed[p] \in BOOLEAN
      BY <1>1
    <2>2. 0 \in 0..MaxLife
      BY IntakeAssumption
    <2>3. CASE keyed[p]
      BY <2>1, <2>2, <2>3 DEF Fresh, PostRecord
    <2>4. CASE ~keyed[p]
      <3>1. keyed[p] = FALSE
        BY <2>1, <2>4, Zenon
      <3>2. post[p] = [body |-> body[p], keyed |-> FALSE, pc |-> "serve", status |-> 0,
                       run |-> {}, life |-> 0]
        BY <2>1, <3>1 DEF Fresh
      <3>3. post[p] \in PostRecord
        BY <2>1, <2>2, <3>2 DEF PostRecord
      <3>4. post[p].run = {} /\ post[p].status = 0 /\ post[p].life = 0 /\ post[p].pc = "serve"
        BY <3>2
      <3>5. ~post[p].keyed
        BY <3>2
      <3>6. QED
        BY <3>3, <3>4, <3>5, Zenon
    <2>5. QED
      BY <2>1, <2>3, <2>4
  <1>3. TypeOK
    <2>1. post \in [Post -> PostRecord]
      BY <1>1, <1>2
    <2>2. key \in KeyRecord /\ key.run = {}
      BY DEF Init, NoKey, KeyRecord, Deadline
    <2>3. store \in Stores /\ life \in 0..MaxLife /\ faults \in 0..MaxFaults /\ created = {}
          /\ open \in BOOLEAN /\ given = {}
      BY IntakeAssumption DEF Init, Authorization!Init
    <2>4. QED
      BY <1>2, <2>1, <2>2, <2>3 DEF TypeOK
  <1>4. Holders = {}
    BY <1>2 DEF Holders
  <1>5. Owns /\ Recorded /\ ToldNow /\ LivesBegun /\ KeyedOnly /\ CreatedNow
    BY <1>2, <1>4 DEF Init, NoKey, Owns, Recorded, ToldNow, LivesBegun, KeyedOnly, CreatedNow
  <1>6. OneAnswer /\ ReplayIsFaithful /\ OneRun
    BY <1>2 DEF Init, OneAnswer, ReplayIsFaithful, OneRun
  <1>7. QED
    BY <1>3, <1>5, <1>6 DEF IInv

\* The key is held by another request: refused, or told of its run.
LEMMA MeetKeeps ==
    ASSUME IInv, NEW p \in Post, Meet(p), post[p].pc \in {"insert", "select"},
           key.deadline = "ahead", UNCHANGED key, Elsewhere
    PROVE  IInv'
  <1>1. CASE key.body = post[p].body /\ key.run # {}
    BY <1>1, ReplayKeeps DEF Meet
  <1>2. CASE ~(key.body = post[p].body /\ key.run # {})
    <2>1. PICK status \in {409, 422} : Answer(p, status, {})
      BY <1>2 DEF Meet
    <2>2. QED
      BY <2>1, RefusalKeeps DEF Elsewhere, IInv, TypeOK, OthersTyped
  <1>3. QED
    BY <1>1, <1>2

\* The statements of a reservation.
LEMMA ReservationKeeps ==
    ASSUME IInv, NEW p \in Post, Insert(p) \/ Select(p) \/ DeleteLapsed(p) \/ ReserveInMap(p)
    PROVE  IInv'
  <1>0. OthersTyped
    BY DEF IInv, TypeOK, OthersTyped
  <1>1. p \notin created
    BY DEF Insert, Select, DeleteLapsed, ReserveInMap, At, IInv, CreatedNow
  <1>2. post[p].pc \in {"insert", "select", "delete"} /\ post[p].keyed /\ Elsewhere
    BY DEF Insert, Select, DeleteLapsed, ReserveInMap, At, IInv, KeyedOnly
  <1>3. CASE Insert(p)
    <2>1. CASE key = NoKey
      BY <1>3, <2>1, ReserveKeeps DEF Insert, NoKey
    <2>2. CASE key # NoKey
      BY <1>0, <1>1, <1>2, <1>3, <2>2, GoKeeps DEF Insert, Elsewhere, OthersTyped
    <2>3. QED
      BY <2>1, <2>2
  <1>4. CASE Select(p)
    <2>1. CASE key.deadline = "ahead"
      BY <1>2, <1>4, <2>1, MeetKeeps DEF Select, At
    <2>2. CASE key.deadline # "ahead"
      BY <1>0, <1>1, <1>2, <1>4, <2>2, GoKeeps DEF Select, Elsewhere, OthersTyped
    <2>3. QED
      BY <2>1, <2>2
  <1>5. CASE DeleteLapsed(p)
    <2>1. CASE key.deadline = "passed"
      <3>1. Holders = {}
        BY <2>1 DEF IInv, Owns
      <3>2. key' = NoKey /\ Goto(p, "insert")
        BY <1>5, <2>1 DEF DeleteLapsed
      <3>3. key'.run = {} /\ key' \in KeyRecord
        BY <3>2 DEF NoKey, KeyRecord, Deadline
      <3>4. OthersTyped'
        BY <1>0, <1>2, <3>3 DEF OthersTyped, Elsewhere
      <3>5. QED
        BY <1>1, <1>2, <2>1, <3>1, <3>2, <3>3, <3>4, GoKeeps DEF Elsewhere
    <2>2. CASE key.deadline # "passed"
      BY <1>0, <1>1, <1>2, <1>5, <2>2, GoKeeps DEF DeleteLapsed, Elsewhere, OthersTyped
    <2>3. QED
      BY <2>1, <2>2
  <1>6. CASE ReserveInMap(p)
    <2>1. CASE key.deadline = "ahead"
      BY <1>2, <1>6, <2>1, MeetKeeps DEF ReserveInMap, At
    <2>2. CASE key.deadline # "ahead"
      BY <1>6, <2>2, ReserveKeeps DEF ReserveInMap
    <2>3. QED
      BY <2>1, <2>2
  <1>7. QED
    BY <1>3, <1>4, <1>5, <1>6

\* What a request does once it may create its run.
LEMMA ServiceKeeps ==
    ASSUME IInv, NEW p \in Post, ServeFixture(p) \/ ServePassive(p) \/ ServeActive(p)
    PROVE  IInv'
  <1>0. OthersTyped /\ open \in BOOLEAN /\ given \subseteq Post
    BY DEF IInv, TypeOK, OthersTyped
  <1>1. At(p, "serve") /\ UNCHANGED <<store, key, life, faults>>
    BY DEF ServeFixture, ServePassive, ServeActive
  <1>2. p \notin created
    BY <1>1 DEF At, IInv, CreatedNow
  <1>3. ASSUME UNCHANGED <<open, given>>, Refuse(p) \/ \E status \in {401, 429} : Return(p, status)
        PROVE  IInv'
    <2>1. OthersTyped'
      BY <1>0, <1>1, <1>3 DEF OthersTyped, Refuse, Return
    <2>2. CASE Answer(p, 400, {}) /\ UNCHANGED created
      BY <1>1, <1>3, <2>1, <2>2, RefusalKeeps DEF At
    <2>3. CASE \E status \in {401, 429} : Return(p, status)
      <3>1. PICK status \in {401, 429} : Answer(p, status, {}) /\ UNCHANGED created
        BY <2>3 DEF Return
      <3>2. QED
        BY <1>1, <1>3, <2>1, <3>1, RefusalKeeps DEF At
    <2>4. CASE Refuse(p) /\ post[p].keyed
      <3>1. p \in Holders /\ Goto(p, "abandon") /\ UNCHANGED created
        BY <1>1, <2>4 DEF Holders, At, Refuse
      <3>2. QED
        BY <1>1, <1>2, <1>3, <2>1, <2>4, <3>1, GoKeeps DEF At
    <2>5. QED
      BY <1>3, <2>2, <2>3, <2>4 DEF Refuse
  <1>4. CASE ServeFixture(p)
    BY <1>0, <1>1, <1>4, CreateKeeps DEF ServeFixture
  <1>5. CASE ServePassive(p)
    BY <1>0, <1>1, <1>3, <1>5, CreateKeeps DEF ServePassive
  <1>6. CASE ServeActive(p)
    <2>1. CASE UNCHANGED <<open, given>> /\ (Return(p, 401) \/ Refuse(p))
      BY <1>3, <2>1
    <2>2. CASE store = "database" /\ Authorization!Give(p) /\ Create(p)
      <3>1. open /\ open' = FALSE /\ given' \subseteq Post
        BY <1>0, <2>2 DEF Authorization!Give
      <3>2. QED
        BY <1>1, <2>2, <3>1, CreateKeeps
    <2>3. CASE store = "map" /\ Create(p) /\ UNCHANGED <<open, given>>
      BY <1>0, <1>1, <2>3, CreateKeeps
    <2>4. QED
      BY <1>6, <2>1, <2>2, <2>3 DEF ServeActive
  <1>7. QED
    BY <1>4, <1>5, <1>6

\* The end of a request that reserved the key, answered or not.
LEMMA EndKeeps ==
    ASSUME IInv, NEW p \in Post, Finalize(p) \/ FinalizeUnacknowledged(p) \/ Abandon(p)
    PROVE  IInv'
  <1>0. OthersTyped
    BY DEF IInv, TypeOK, OthersTyped
  <1>1. post[p].keyed /\ p \in Holders /\ Holders \subseteq {p}
    BY DEF Finalize, FinalizeUnacknowledged, Abandon, At, IInv, KeyedOnly, Owns, Holders
  <1>2. key.deadline = "ahead" /\ key.body = post[p].body /\ (At(p, "finalize") => key.run = {})
    BY <1>1 DEF IInv, Owns, At
  <1>3. CASE Finalize(p)
    <2>1. Pending(p)
      BY <1>2, <1>3 DEF Finalize, Pending
    <2>2. key' = [key EXCEPT !.run = {p}] /\ Answer(p, 201, {p})
      BY <1>2, <1>3, <2>1 DEF Finalize
    <2>3. At(p, "finalize") /\ UNCHANGED <<store, life, created, open, given, faults>>
      BY <1>3 DEF Finalize, Elsewhere
    <2>4. faults' \in 0..MaxFaults /\ (faults' = 0 => faults = 0)
      BY <1>0, <2>3 DEF OthersTyped
    <2>5. QED
      BY <2>2, <2>3, <2>4, NameKeeps
  <1>4. CASE FinalizeUnacknowledged(p)
    <2>1. faults \in Nat /\ faults < MaxFaults /\ faults' = faults + 1 /\ MaxFaults \in Nat
      BY <1>0, <1>4, IntakeAssumption DEF FinalizeUnacknowledged, Fault, OthersTyped
    <2>2. faults' \in 0..MaxFaults /\ faults' # 0
      BY <2>1
    <2>3. QED
      BY <1>4, <2>2, NameKeeps DEF FinalizeUnacknowledged, Fault
  <1>5. CASE Abandon(p)
    <2>1. CASE Pending(p)
      <3>1. key' = NoKey /\ key.run = {}
        BY <1>5, <2>1 DEF Abandon, Pending
      <3>2. key'.run = {} /\ key' \in KeyRecord
        BY <3>1 DEF NoKey, KeyRecord, Deadline
      <3>3. OthersTyped'
        BY <1>0, <1>5, <3>2 DEF Abandon, Elsewhere, OthersTyped
      <3>4. QED
        BY <1>1, <1>5, <3>1, <3>2, <3>3, RefusalKeeps DEF Abandon, Elsewhere, At
    <2>2. CASE ~Pending(p)
      BY <1>0, <1>5, <2>2, RefusalKeeps DEF Abandon, Elsewhere, At, OthersTyped
    <2>3. QED
      BY <2>1, <2>2
  <1>6. QED
    BY <1>3, <1>4, <1>5

\* What goes wrong with a database.
LEMMA FaultKeeps ==
    ASSUME IInv, NEW p \in Post,
           \/ StatementFails(p) \/ Crash(p)
           \/ InsertUnacknowledged(p) \/ ConsumeUnacknowledged(p)
    PROVE  IInv'
  <1>0. OthersTyped
    BY DEF IInv, TypeOK, OthersTyped
  <1>1. UNCHANGED <<store, life, created>> /\ faults' \in 0..MaxFaults /\ faults' # 0
    <2>1. Fault /\ faults \in 0..MaxFaults /\ MaxFaults \in Nat
      BY <1>0, IntakeAssumption
      DEF StatementFails, Crash, InsertUnacknowledged, ConsumeUnacknowledged, OthersTyped
    <2>2. QED
      BY <2>1 DEF Fault
  <1>2. (open' => open) /\ open' \in BOOLEAN /\ given' \subseteq Post /\ post[p].pc # "done"
    <2>1. post[p].pc # "done"
      BY DEF StatementFails, Crash, InsertUnacknowledged, ConsumeUnacknowledged, At
    <2>2. UNCHANGED <<open, given>> \/ (open' = FALSE /\ UNCHANGED given)
      BY DEF StatementFails, Crash, InsertUnacknowledged, ConsumeUnacknowledged,
             Authorization!Close
    <2>3. open \in BOOLEAN /\ given \subseteq Post
      BY <1>0 DEF OthersTyped
    <2>4. CASE UNCHANGED <<open, given>>
      BY <2>1, <2>3, <2>4
    <2>5. CASE open' = FALSE /\ UNCHANGED given
      BY <2>1, <2>3, <2>5
    <2>6. QED
      BY <2>2, <2>4, <2>5
  <1>3. ASSUME UNCHANGED key, Answer(p, 400, {}) PROVE IInv'
    <2>1. OthersTyped'
      BY <1>0, <1>1, <1>2, <1>3 DEF OthersTyped
    <2>2. QED
      BY <1>1, <1>2, <1>3, <2>1, RefusalKeeps
  <1>4. ASSUME UNCHANGED key, Goto(p, "abandon"), post[p].pc \in {"serve", "finalize"},
               post[p].keyed
        PROVE  IInv'
    <2>1. OthersTyped'
      BY <1>0, <1>1, <1>2, <1>4 DEF OthersTyped
    <2>2. p \in Holders
      BY <1>4 DEF Holders
    <2>3. QED
      BY <1>1, <1>2, <1>4, <2>1, <2>2, GoKeeps
  <1>5. CASE StatementFails(p)
    BY <1>3, <1>4, <1>5 DEF StatementFails
  <1>6. CASE Crash(p)
    BY <1>3, <1>6 DEF Crash
  <1>7. CASE ConsumeUnacknowledged(p)
    BY <1>3, <1>4, <1>7 DEF ConsumeUnacknowledged, At
  <1>8. CASE InsertUnacknowledged(p)
    <2>1. /\ key = NoKey /\ Answer(p, 400, {})
          /\ key' = [deadline |-> "ahead", body |-> post[p].body, run |-> {}]
      BY <1>8 DEF InsertUnacknowledged
    <2>2. key'.run = {} /\ key.run = {} /\ key.deadline # "ahead"
      BY <2>1 DEF NoKey
    <2>3. post[p].body \in Body
      BY DEF IInv, TypeOK, PostRecord
    <2>4. OthersTyped'
      BY <1>0, <1>1, <1>2, <2>1, <2>3 DEF OthersTyped, KeyRecord, Deadline
    <2>5. Holders = {}
      BY <2>2 DEF IInv, Owns
    <2>6. QED
      BY <1>1, <1>2, <2>1, <2>2, <2>4, <2>5, RefusalKeeps
  <1>9. QED
    BY <1>5, <1>6, <1>7, <1>8

\* The authorization expires.
LEMMA ExpiryKeeps ==
    ASSUME IInv, AuthorizationExpires
    PROVE  IInv'
  <1>1. UNCHANGED <<store, key, life, post, created, faults, given>> /\ open' = FALSE
    BY DEF AuthorizationExpires, Authorization!Close
  <1>2. TypeOK'
    <2>1. /\ post' \in [Post -> PostRecord] /\ open' \in BOOLEAN
          /\ created' \subseteq Post /\ given' \subseteq Post
      BY <1>1 DEF IInv, TypeOK
    <2>2. /\ store' \in Stores /\ key' \in KeyRecord /\ life' \in 0..MaxLife
          /\ faults' \in 0..MaxFaults
      BY <1>1 DEF IInv, TypeOK
    <2>3. \A r, s \in key'.run : r = s
      BY <1>1 DEF IInv, TypeOK
    <2>4. \A p \in Post : post'[p].run # {} <=> post'[p].status \in {200, 201}
      BY <1>1 DEF IInv, TypeOK
    <2>5. QED
      BY <2>1, <2>2, <2>3, <2>4 DEF TypeOK
  <1>3. Owns' /\ Recorded' /\ ToldNow' /\ LivesBegun' /\ KeyedOnly'
    BY <1>1 DEF IInv, Owns, Recorded, ToldNow, LivesBegun, KeyedOnly, Holders
  <1>4. CreatedNow'
    BY <1>1 DEF IInv, CreatedNow
  <1>5. OneAnswer' /\ ReplayIsFaithful' /\ OneRun'
    BY <1>1 DEF IInv, OneAnswer, ReplayIsFaithful, OneRun, SameKey
  <1>6. QED
    BY <1>2, <1>3, <1>4, <1>5 DEF IInv

\* The invariant is inductive.
LEMMA Invariance == Spec => []IInv
  <1>1. IInv /\ [Next]_vars => IInv'
    <2> SUFFICES ASSUME IInv, [Next]_vars PROVE IInv'
      OBVIOUS
    <2>1. ASSUME NEW p \in Post, Progress(p) PROVE IInv'
      BY <2>1, ReservationKeeps, ServiceKeeps, EndKeeps DEF Progress
    <2>2. CASE Next
      BY <2>1, <2>2, EndKeeps, FaultKeeps, CleanupKeeps, NewLifeKeeps, ExpiryKeeps DEF Next
    <2>3. CASE UNCHANGED vars
      BY <2>3
      DEF vars, IInv, TypeOK, Owns, Recorded, ToldNow, LivesBegun, KeyedOnly, CreatedNow,
          OneAnswer, ReplayIsFaithful, OneRun, SameKey, Holders
    <2>4. QED
      BY <2>2, <2>3
  <1>2. QED
    BY <1>1, InitIInv, PTL DEF Spec

-----------------------------------------------------------------------------
\* A pending key, from the invariant

\* A status is given with the end.
Answered == \A p \in Post : post[p].status # 0 => post[p].pc = "done"

Quiet ==
    /\ faults = 0
    /\ ~\E p \in Post : post[p].keyed /\ post[p].status \in {401, 429}

\* PendingIsBeingCreated, but for what Owns says of the holder.
Held == Quiet /\ key.deadline = "ahead" /\ key.run = {} => Holders # {}

\* A request moves that holds the key no less than before, or returns early.
LEMMA MoveHolds ==
    ASSUME TypeOK, Answered, Held, NEW p \in Post, post[p].pc # "done",
           NEW pc, NEW status, NEW run, NEW l, Changes(p, pc, status, run, l),
           status # 0 => pc = "done",
           faults' = 0 => faults = 0,
           \/ faults' # 0
           \/ key'.deadline # "ahead"
           \/ key'.run # {}
           \/ pc \in {"serve", "finalize", "abandon"} /\ post[p].keyed
           \/ key' = key /\ (p \in Holders => status \in {401, 429})
    PROVE  Answered' /\ Held'
  <1>1. Answered'
    BY DEF Answered, Changes
  <1>2. Held'
    <2> SUFFICES ASSUME Quiet', key'.deadline = "ahead", key'.run = {}
                 PROVE  \E h \in Post : h \in Holders'
      BY DEF Held, Holders
    <2>1. CASE pc \in {"serve", "finalize", "abandon"} /\ post[p].keyed
      BY <2>1 DEF Holders, Changes
    <2>2. CASE key' = key /\ (p \in Holders => status \in {401, 429})
      <3>1. Quiet
        BY DEF Quiet, Changes, Answered
      <3>2. PICK h \in Holders : TRUE
        BY <2>2, <3>1 DEF Held
      <3>3. h # p
        BY <2>2, <3>2 DEF Quiet, Changes, Holders
      <3> QED BY <3>2, <3>3 DEF Holders, Changes
    <2> QED BY <2>1, <2>2 DEF Quiet
  <1> QED BY <1>1, <1>2

\* The statements of a reservation.
LEMMA ReservationHolds ==
    ASSUME IInv, Answered, Held, NEW p \in Post,
           Insert(p) \/ Select(p) \/ DeleteLapsed(p) \/ ReserveInMap(p)
    PROVE  Answered' /\ Held'
  <1>0. /\ TypeOK /\ post[p].pc \in {"insert", "select", "delete"} /\ post[p].keyed
        /\ p \notin Holders /\ UNCHANGED faults /\ post[p].status = 0
    BY DEF Insert, Select, DeleteLapsed, ReserveInMap, At, IInv, KeyedOnly, Elsewhere,
           Answered, Holders
  <1>1. ASSUME Reserve(p) PROVE Answered' /\ Held'
    BY <1>0, <1>1, ReserveChanges, MoveHolds
  <1>2. ASSUME NEW pc \in {"select", "delete", "insert"}, Goto(p, pc),
               key' = key \/ key'.deadline # "ahead"
        PROVE  Answered' /\ Held'
    BY <1>0, <1>2, GotoChanges, MoveHolds
  <1>3. ASSUME Meet(p), key' = key PROVE Answered' /\ Held'
    <2>1. CASE Replay(p)
      BY <1>0, <1>3, <2>1, ReplayChanges, MoveHolds
    <2>2. CASE Answer(p, 409, {})
      BY <1>0, <1>3, <2>2, AnswerChanges, MoveHolds
    <2>3. CASE Answer(p, 422, {})
      BY <1>0, <1>3, <2>3, AnswerChanges, MoveHolds
    <2> QED BY <1>3, <2>1, <2>2, <2>3 DEF Meet
  <1>4. CASE Insert(p)
    BY <1>1, <1>2, <1>4 DEF Insert
  <1>5. CASE Select(p)
    BY <1>2, <1>3, <1>5 DEF Select
  <1>6. CASE DeleteLapsed(p)
    BY <1>2, <1>6 DEF DeleteLapsed, NoKey
  <1>7. CASE ReserveInMap(p)
    BY <1>1, <1>3, <1>7 DEF ReserveInMap
  <1> QED BY <1>4, <1>5, <1>6, <1>7

\* From the reservation to the catch block.
LEMMA ServiceHolds ==
    ASSUME IInv, Answered, Held, NEW p \in Post,
           ServeFixture(p) \/ ServePassive(p) \/ ServeActive(p)
    PROVE  Answered' /\ Held'
  <1>0. /\ TypeOK /\ post[p].pc = "serve" /\ UNCHANGED <<key, faults>>
        /\ post[p].status = 0 /\ (~post[p].keyed => p \notin Holders)
    BY DEF ServeFixture, ServePassive, ServeActive, At, IInv, Answered, Holders
  <1>1. ASSUME NEW pc \in {"finalize", "abandon"}, Goto(p, pc), post[p].keyed
        PROVE  Answered' /\ Held'
    BY <1>0, <1>1, GotoChanges, MoveHolds
  <1>2. ASSUME NEW status \in {201, 400}, NEW run \in SUBSET Post, Answer(p, status, run),
               ~post[p].keyed
        PROVE  Answered' /\ Held'
    BY <1>0, <1>2, AnswerChanges, MoveHolds
  <1>3. ASSUME NEW status \in {401, 429}, Return(p, status) PROVE Answered' /\ Held'
    BY <1>0, <1>3, AnswerChanges, MoveHolds DEF Return
  <1>4. ASSUME Refuse(p) PROVE Answered' /\ Held'
    BY <1>1, <1>2, <1>4 DEF Refuse
  <1>5. ASSUME Create(p) PROVE Answered' /\ Held'
    BY <1>1, <1>2, <1>5 DEF Create
  <1> QED BY <1>3, <1>4, <1>5 DEF ServeFixture, ServePassive, ServeActive

\* The statements that end a reservation: what they leave has a run or no deadline.
LEMMA EndHolds ==
    ASSUME IInv, Answered, Held, NEW p \in Post, Finalize(p) \/ Abandon(p)
    PROVE  Answered' /\ Held'
  <1>0. /\ TypeOK /\ post[p].pc \in {"finalize", "abandon"} /\ post[p].keyed
        /\ p \in Holders /\ UNCHANGED faults /\ post[p].status = 0
    BY DEF Finalize, Abandon, At, IInv, KeyedOnly, Elsewhere, Answered, Holders
  <1>1. key \in KeyRecord /\ key.deadline = "ahead" /\ key.body = post[p].body
    BY <1>0 DEF IInv, Owns, TypeOK
  <1>2. CASE Finalize(p)
    <2>1. CASE key' = [key EXCEPT !.run = {p}] /\ Answer(p, 201, {p})
      <3>1. key'.run # {}
        BY <1>1, <2>1 DEF KeyRecord
      <3> QED BY <1>0, <2>1, <3>1, AnswerChanges, MoveHolds
    <2>2. CASE Goto(p, "abandon") /\ UNCHANGED key
      BY <1>0, <2>2, GotoChanges, MoveHolds
    <2> QED BY <1>2, <2>1, <2>2 DEF Finalize
  <1>3. CASE Abandon(p)
    <2>1. key'.deadline # "ahead" \/ key'.run # {}
      BY <1>1, <1>3 DEF Abandon, Pending, NoKey
    <2> QED BY <1>0, <1>3, <2>1, AnswerChanges, MoveHolds DEF Abandon
  <1> QED BY <1>2, <1>3

\* After a fault nothing is claimed but that whoever has a status has ended.
LEMMA FaultHolds ==
    ASSUME IInv, Answered, Held, NEW p \in Post,
           \/ StatementFails(p) \/ Crash(p) \/ InsertUnacknowledged(p)
           \/ ConsumeUnacknowledged(p) \/ FinalizeUnacknowledged(p)
    PROVE  Answered' /\ Held'
  <1>0. TypeOK /\ post[p].pc # "done" /\ post[p].status = 0 /\ Fault
    BY DEF StatementFails, Crash, InsertUnacknowledged, ConsumeUnacknowledged,
           FinalizeUnacknowledged, At, IInv, Answered
  <1>1. faults' # 0
    BY <1>0, IntakeAssumption DEF Fault, TypeOK
  <1>2. Goto(p, "abandon") \/ Answer(p, 400, {})
    BY DEF StatementFails, Crash, InsertUnacknowledged, ConsumeUnacknowledged,
           FinalizeUnacknowledged
  <1>3. CASE Goto(p, "abandon")
    BY <1>0, <1>1, <1>3, GotoChanges, MoveHolds
  <1>4. CASE Answer(p, 400, {})
    BY <1>0, <1>1, <1>4, AnswerChanges, MoveHolds
  <1> QED BY <1>2, <1>3, <1>4

\* Around the requests: a key that lapses, or is gone, is not pending.
LEMMA AroundHolds ==
    ASSUME IInv, Answered, Held, KeyLapses \/ Cleanup \/ Restart \/ AuthorizationExpires
    PROVE  Answered' /\ Held'
  <1>0. key \in KeyRecord /\ post \in [Post -> PostRecord]
    BY DEF IInv, TypeOK
  <1>1. CASE KeyLapses \/ Cleanup
    BY <1>0, <1>1 DEF KeyLapses, Cleanup, Answered, Held, NoKey, KeyRecord
  <1>2. CASE Restart
    <2>1. Held'
      BY <1>2 DEF Restart, Held, NoKey
    <2>2. Answered'
      <3> SUFFICES ASSUME NEW p \in Post, post'[p].status # 0 PROVE post'[p].pc = "done"
        BY DEF Answered
      <3>1. post'[p] = post[p] \/ post'[p] = [post[p] EXCEPT !.pc = "done", !.status = 400]
        BY <1>2 DEF Restart
      <3>2. CASE post'[p] = post[p]
        BY <3>2 DEF Answered
      <3>3. CASE post'[p] = [post[p] EXCEPT !.pc = "done", !.status = 400]
        BY <1>0, <3>3 DEF PostRecord
      <3> QED BY <3>1, <3>2, <3>3
    <2> QED BY <2>1, <2>2
  <1>3. CASE AuthorizationExpires
    BY <1>3 DEF AuthorizationExpires, Answered, Held, Quiet, Holders
  <1> QED BY <1>1, <1>2, <1>3

LEMMA HeldInvariance == Spec => [](Answered /\ Held)
  <1>1. Init => Answered /\ Held
    BY DEF Init, Answered, Held, Fresh, NoKey
  <1>2. IInv /\ Answered /\ Held /\ [Next]_vars => (Answered /\ Held)'
    <2> SUFFICES ASSUME IInv, Answered, Held, [Next]_vars PROVE Answered' /\ Held'
      OBVIOUS
    <2>1. ASSUME NEW p \in Post, Progress(p) PROVE Answered' /\ Held'
      BY <2>1, ReservationHolds, ServiceHolds, EndHolds DEF Progress
    <2>2. CASE Next
      BY <2>1, <2>2, FaultHolds, AroundHolds DEF Next
    <2>3. CASE UNCHANGED vars
      BY <2>3 DEF vars, Answered, Held, Quiet, Holders
    <2> QED BY <2>2, <2>3
  <1> QED BY <1>1, <1>2, Invariance, PTL DEF Spec

-----------------------------------------------------------------------------
\* Theorems

\* Types, for any number of requests; a key names one run at most, and a status
\* says whether a run is named (the answers of POST).
THEOREM TypeCorrect == Spec => []TypeOK
  <1>1. IInv => TypeOK
    BY DEF IInv
  <1>2. QED
    BY <1>1, Invariance, PTL

\* In one life of the key everybody is told of the same run, and one request at
\* most is given the capability to cancel it, whatever fails (reserve, finalize
\* and abandon).
THEOREM OneAnswerPerKey == Spec => []OneAnswer
  <1>1. IInv => OneAnswer
    BY DEF IInv
  <1>2. QED
    BY <1>1, Invariance, PTL

\* A replayed run was created, and for the same request (reserve).
THEOREM FaithfulReplay == Spec => []ReplayIsFaithful
  <1>1. IInv => ReplayIsFaithful
    BY DEF IInv
  <1>2. QED
    BY <1>1, Invariance, PTL

\* One run for a key unless a statement failed, and with a database one on an
\* authorization whatever failed (POST).
THEOREM RunsAreOne == Spec => []OneRun
  <1>1. IInv => OneRun
    BY DEF IInv
  <1>2. QED
    BY <1>1, Invariance, PTL

\* A key is pending only while its run is being created, unless a statement failed
\* or a request returned early (the catch block of POST, finalize and abandon).
THEOREM PendingHasCreator == Spec => []PendingIsBeingCreated
  <1>1. IInv /\ Held => PendingIsBeingCreated
    BY DEF IInv, Owns, Held, Quiet, PendingIsBeingCreated, Holders
  <1>2. QED
    BY <1>1, Invariance, HeldInvariance, PTL
=============================================================================
