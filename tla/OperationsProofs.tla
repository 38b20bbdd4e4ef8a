--------------------------- MODULE OperationsProofs ---------------------------
(***************************************************************************)
(* Proofs about StorageStartup and BackupRecovery, for any number of       *)
(* replicas, versions, backups and troubles.                               *)
(***************************************************************************)
EXTENDS MCOperations, SequenceTheorems, WellFoundedInduction, TLAPS

-----------------------------------------------------------------------------
(* One start *)

Places == {"down", "waiting", "reading", "migrating", "unlocking", "committing",
           "importing", "marking", "failed", "rejected", "postgres", "json", "refused"}

LEMMA StartFields ==
  ASSUME NEW s \in Start
  PROVE  /\ s.release \in Versions /\ s.seen \in SUBSET Versions /\ s.mine \in SUBSET Versions
         /\ s.release \in Nat /\ 1 <= s.release /\ s.release <= Latest
         /\ s.pc \in Places /\ s.lost \in BOOLEAN
  <1>1. s.release \in Versions /\ s.seen \in SUBSET Versions /\ s.mine \in SUBSET Versions
        /\ s.pc \in Places /\ s.lost \in BOOLEAN
    BY DEF Start, Places
  <1> QED BY <1>1, StartupAssumption DEF Versions

LEMMA Moved ==
  ASSUME NEW s \in Start, NEW pc \in Places
  PROVE  /\ [s EXCEPT !.pc = pc] \in Start /\ [s EXCEPT !.pc = pc, !.mine = {}] \in Start
         /\ [s EXCEPT !.pc = pc].pc = pc /\ [s EXCEPT !.pc = pc, !.mine = {}].pc = pc
         /\ [s EXCEPT !.pc = pc].release = s.release /\ [s EXCEPT !.pc = pc].seen = s.seen
         /\ [s EXCEPT !.pc = pc].mine = s.mine /\ [s EXCEPT !.pc = pc].lost = s.lost
         /\ [s EXCEPT !.pc = pc, !.mine = {}].release = s.release
         /\ [s EXCEPT !.pc = pc, !.mine = {}].seen = s.seen
         /\ [s EXCEPT !.pc = pc, !.mine = {}].mine = {}
         /\ [s EXCEPT !.pc = pc, !.mine = {}].lost = s.lost
  BY DEF Start, Places

\* What a start that is so far may rely on: its ledger was read, its migrations
\* are made, or they are committed.  A database d only grows, so it stays so.
Sound(s, d) ==
    /\ s.mine \subseteq 1..s.release
    /\ s.pc = "migrating" => s.seen \subseteq d.ledger
    /\ s.pc \in {"unlocking", "committing"} =>
         /\ Expected(s.release) \subseteq d.tables \cup s.mine
         /\ 1..s.release \subseteq d.ledger \cup s.mine
    /\ s.pc \in {"importing", "marking", "postgres"} /\ ~s.lost =>
         /\ Expected(s.release) \subseteq d.tables
         /\ 1..s.release \subseteq d.ledger

LEMMA SoundGrows ==
  ASSUME NEW s, NEW d, NEW e, Sound(s, d), d.ledger \subseteq e.ledger, d.tables \subseteq e.tables
  PROVE  Sound(s, e)
  BY DEF Sound

LEMMA SoundIdle ==
  ASSUME NEW s, NEW d, s.mine \subseteq 1..s.release,
         s.pc \in {"down", "waiting", "reading", "failed", "rejected", "json", "refused"}
  PROVE  Sound(s, d)
  BY DEF Sound

-----------------------------------------------------------------------------
(* The startup *)

\* The ledger has no gaps: migrations commit up to a release.
NoGaps == \E n \in 0..Latest : db.ledger = 1..n
AllSound == \A r \in DOMAIN starts : Sound(starts[r], db)
StartInv == StartupTypeOK /\ AllSound /\ NoGaps

Grown == db.ledger \subseteq db'.ledger /\ db.tables \subseteq db'.tables
Db == [ledger : SUBSET Versions, tables : SUBSET (0..Latest), marker : BOOLEAN]

\* One start goes on, and the database grows if it changes.
LEMMA StartGoesOn ==
  ASSUME StartInv, NEW r \in DOMAIN starts, NEW new \in Start,
         starts' = [starts EXCEPT ![r] = new], Sound(new, db'),
         db' \in Db, Grown, NoGaps',
         lock' \in Replicas \cup {Nobody}, files' \subseteq Replicas, down' \in BOOLEAN,
         troubles' \in Nat
  PROVE  StartInv'
  <1>1. /\ DOMAIN starts' = DOMAIN starts /\ starts'[r] = new
        /\ \A q \in DOMAIN starts \ {r} : starts'[q] = starts[q]
    OBVIOUS
  <1>2. AllSound'
    BY <1>1, SoundGrows DEF StartInv, AllSound, Grown
  <1> QED BY <1>1, <1>2 DEF StartInv, StartupTypeOK, Db

LEMMA DbFields ==
  ASSUME NEW d \in Db
  PROVE  d.ledger \in SUBSET Versions /\ d.tables \in SUBSET (0..Latest) /\ d.marker \in BOOLEAN
  BY Zenon DEF Db

\* The commit of a start whose schema was found whole.
LEMMA CommitFills ==
  ASSUME StartInv, NEW r \in DOMAIN starts, starts[r].pc = "committing", db' = Committed(r)
  PROVE  /\ db' \in Db /\ Grown /\ NoGaps'
         /\ Expected(starts[r].release) \subseteq db'.tables
         /\ 1..starts[r].release \subseteq db'.ledger
  <1> DEFINE l == db.ledger \cup starts[r].mine
             t == db.tables \cup starts[r].mine
             k == starts[r].release
  <1>1. /\ starts[r] \in Start /\ db \in Db
        /\ starts[r].mine \subseteq 1..k
        /\ Expected(k) \subseteq t /\ 1..k \subseteq l
    BY DEF StartInv, StartupTypeOK, AllSound, Db, Sound
  <1>2. db.ledger \in SUBSET Versions /\ db.tables \in SUBSET (0..Latest)
        /\ k \in 1..Latest /\ starts[r].mine \in SUBSET Versions
    BY <1>1, StartFields, DbFields DEF Versions
  <1>3. l \in SUBSET Versions /\ t \in SUBSET (0..Latest)
    BY <1>2, StartupAssumption DEF Versions
  <1>4. db' = [db EXCEPT !.ledger = l, !.tables = t]
    BY DEF Committed
  <1>5. db.ledger \subseteq l /\ db.tables \subseteq t
    OBVIOUS
  <1>6. \E m \in 0..Latest : l = 1..m
    <2>1. PICK n \in 0..Latest : db.ledger = 1..n
      BY DEF StartInv, NoGaps
    <2> DEFINE m == IF n < k THEN k ELSE n
    <2>2. m \in 0..Latest
      BY <1>2, StartupAssumption
    <2>3. l = 1..m
      BY <1>1, <1>2, <2>1, StartupAssumption
    <2> QED BY <2>2, <2>3
  <1> HIDE DEF l, t, k
  <1>7. db' \in Db /\ db'.ledger = l /\ db'.tables = t
    <2>1. db \in Db
      BY <1>1
    <2>2. /\ [db EXCEPT !.ledger = l, !.tables = t] \in Db
          /\ [db EXCEPT !.ledger = l, !.tables = t].ledger = l
          /\ [db EXCEPT !.ledger = l, !.tables = t].tables = t
      BY <1>3, <2>1 DEF Db
    <2> QED BY <1>4, <2>2
  <1> QED BY <1>1, <1>5, <1>6, <1>7 DEF Grown, NoGaps, k

\* What a step leaves beside the starts and the database.
RestTyped == /\ lock' \in Replicas \cup {Nobody} /\ files' \subseteq Replicas
             /\ down' \in BOOLEAN /\ troubles' \in Nat
DbSafe == db' \in Db /\ Grown /\ NoGaps'

LEMMA DbStays ==
  ASSUME StartInv, UNCHANGED db
  PROVE  DbSafe
  BY DEF StartInv, StartupTypeOK, Db, DbSafe, Grown, NoGaps

LEMMA RestStays ==
  ASSUME StartInv
  PROVE  /\ UNCHANGED <<lock, files, down, troubles>> => RestTyped
         /\ (Trouble /\ UNCHANGED <<lock, files, down>>) => RestTyped
         /\ \A r \in Replicas : (lock' = r \/ lock' = Nobody \/ lock' = Closed(r)) =>
              /\ UNCHANGED <<files, down, troubles>> => RestTyped
              /\ (Trouble /\ UNCHANGED <<files, down>>) => RestTyped
  BY DEF StartInv, StartupTypeOK, RestTyped, Trouble, Closed

\* Goto and Abort lead to an invariant state when what the place stands for is so.
LEMMA GotoSound ==
  ASSUME StartInv, NEW r \in DOMAIN starts, NEW pc \in Places, Goto(r, pc), DbSafe, RestTyped,
         pc = "migrating" => starts[r].seen \subseteq db'.ledger,
         pc \in {"unlocking", "committing"} =>
           /\ Expected(starts[r].release) \subseteq db'.tables \cup starts[r].mine
           /\ 1..starts[r].release \subseteq db'.ledger \cup starts[r].mine,
         pc \in {"importing", "marking", "postgres"} /\ ~starts[r].lost =>
           /\ Expected(starts[r].release) \subseteq db'.tables
           /\ 1..starts[r].release \subseteq db'.ledger
  PROVE  StartInv'
  <1> DEFINE new == [starts[r] EXCEPT !.pc = pc]
  <1>1. starts[r] \in Start /\ starts[r].mine \subseteq 1..starts[r].release
    BY DEF StartInv, StartupTypeOK, AllSound, Sound
  <1>2. starts' = [starts EXCEPT ![r] = new]
    BY DEF Goto
  <1>3. /\ new \in Start /\ new.pc = pc /\ new.release = starts[r].release
        /\ new.seen = starts[r].seen /\ new.mine = starts[r].mine
        /\ new.lost = starts[r].lost
    BY <1>1, Moved
  <1> HIDE DEF new
  <1>4. Sound(new, db')
    BY <1>1, <1>3 DEF Sound
  <1> QED BY <1>2, <1>3, <1>4, StartGoesOn DEF DbSafe, RestTyped

LEMMA AbortSound ==
  ASSUME StartInv, NEW r \in DOMAIN starts, NEW pc \in Places, Abort(r, pc), DbSafe, RestTyped,
         pc \in {"down", "failed", "rejected", "importing"},
         pc = "importing" =>
           /\ Expected(starts[r].release) \subseteq db'.tables
           /\ 1..starts[r].release \subseteq db'.ledger
  PROVE  StartInv'
  <1> DEFINE new == [starts[r] EXCEPT !.pc = pc, !.mine = {}]
  <1>1. starts[r] \in Start
    BY DEF StartInv, StartupTypeOK
  <1>2. starts' = [starts EXCEPT ![r] = new]
    BY DEF Abort
  <1>3. /\ new \in Start /\ new.pc = pc /\ new.release = starts[r].release /\ new.mine = {}
    BY <1>1, Moved
  <1> HIDE DEF new
  <1>4. Sound(new, db')
    BY <1>3 DEF Sound
  <1> QED BY <1>2, <1>3, <1>4, StartGoesOn DEF DbSafe, RestTyped

-----------------------------------------------------------------------------
(* The steps *)

LEMMA Here ==
  ASSUME StartInv, NEW r, NEW pc, At(r, pc)
  PROVE  /\ r \in DOMAIN starts /\ r \in Replicas /\ starts[r].pc = pc /\ starts[r] \in Start
         /\ Sound(starts[r], db)
  BY DEF At, StartInv, StartupTypeOK, AllSound

\* Steps that neither read nor write the database.
LEMMA PlainSteps ==
  ASSUME StartInv, NEW r,
         Acquire(r) \/ TimeOut(r) \/ Unlock(r) \/ Refuse(r) \/ FallBack(r) \/ Restart(r)
  PROVE  StartInv'
  <1>0. UNCHANGED db => DbSafe
    BY DbStays
  <1>1. CASE Acquire(r)
    <2>1. r \in DOMAIN starts /\ r \in Replicas
      BY <1>1, Here DEF Acquire
    <2>2. DbSafe /\ RestTyped
      BY <1>0, <1>1, <2>1, RestStays DEF Acquire
    <2> QED BY <1>1, <2>1, <2>2, GotoSound DEF Acquire, Places
  <1>2. CASE TimeOut(r)
    <2>1. r \in DOMAIN starts
      BY <1>2, Here DEF TimeOut
    <2>2. DbSafe /\ RestTyped
      BY <1>0, <1>2, RestStays DEF TimeOut
    <2> QED BY <1>2, <2>1, <2>2, GotoSound DEF TimeOut, Places
  <1>3. CASE Unlock(r)
    <2>1. r \in DOMAIN starts /\ r \in Replicas /\ starts[r].pc = "unlocking" /\ Sound(starts[r], db)
      BY <1>3, Here DEF Unlock
    <2>2. DbSafe /\ RestTyped
      BY <1>0, <1>3, <2>1, RestStays DEF Unlock
    <2>3. db' = db
      BY <1>3 DEF Unlock
    <2>4. /\ Expected(starts[r].release) \subseteq db'.tables \cup starts[r].mine
          /\ 1..starts[r].release \subseteq db'.ledger \cup starts[r].mine
      BY <2>1, <2>3 DEF Sound
    <2> QED BY <1>3, <2>1, <2>2, <2>4, GotoSound DEF Unlock, Places
  <1>4. CASE Refuse(r)
    <2>1. r \in DOMAIN starts /\ r \in Replicas
      BY <1>4, Here DEF Refuse
    <2>2. DbSafe /\ RestTyped
      BY <1>0, <1>4, <2>1, RestStays DEF Refuse
    <2> QED BY <1>4, <2>1, <2>2, GotoSound DEF Refuse, Places
  <1>5. CASE FallBack(r)
    <2>1. r \in DOMAIN starts /\ r \in Replicas
      BY <1>5, Here DEF FallBack
    <2>2. DbSafe /\ RestTyped
      BY <1>0, <1>5, <2>1, RestStays DEF FallBack
    <2>3. PICK pc \in {"json", "refused"} : Goto(r, pc)
      BY <1>5 DEF FallBack
    <2> QED BY <2>1, <2>2, <2>3, GotoSound DEF Places
  <1>6. CASE Restart(r)
    <2>1. r \in DOMAIN starts
      BY <1>6, Here DEF Restart
    <2>2. DbSafe /\ RestTyped
      BY <1>0, <1>6, RestStays DEF Restart
    <2> QED BY <1>6, <2>1, <2>2, GotoSound DEF Restart, Places
  <1> QED BY <1>1, <1>2, <1>3, <1>4, <1>5, <1>6

LEMMA ConnectStep ==
  ASSUME StartInv, NEW r, Connect(r)
  PROVE  StartInv'
  <1>1. r \in DOMAIN starts
    BY Here DEF Connect
  <1>2. RestTyped
    BY RestStays DEF Connect
  <1>3. CASE down
    BY <1>1, <1>2, <1>3, DbStays, GotoSound DEF Connect, Places
  <1>4. CASE ~down
    <2> DEFINE t == db.tables \cup Expected(0)
    <2>1. db \in Db
      BY DEF StartInv, StartupTypeOK, Db
    <2>2. t \in SUBSET (0..Latest) /\ db.tables \subseteq t
      BY <2>1, DbFields, StartupAssumption DEF Expected
    <2>3. /\ starts' = [starts EXCEPT ![r].pc = "waiting", ![r].lost = FALSE]
          /\ db' = [db EXCEPT !.tables = t]
      BY <1>4 DEF Connect
    <2> HIDE DEF t
    <2>4. db' \in Db /\ db'.ledger = db.ledger /\ db'.tables = t
      BY <2>1, <2>2, <2>3 DEF Db
    <2>5. DbSafe
      BY <2>2, <2>4 DEF DbSafe, Grown, NoGaps, StartInv
    <2> DEFINE new == [starts[r] EXCEPT !.pc = "waiting", !.lost = FALSE]
    <2>6. starts' = [starts EXCEPT ![r] = new]
      BY <2>3
    <2>7. /\ new \in Start /\ new.pc = "waiting" /\ new.mine = starts[r].mine
          /\ new.mine \subseteq 1..new.release
      BY <1>1 DEF StartInv, StartupTypeOK, AllSound, Sound, Start
    <2> HIDE DEF new
    <2>8. Sound(new, db')
      BY <2>7, SoundIdle
    <2> QED BY <1>1, <1>2, <2>5, <2>6, <2>7, <2>8, StartGoesOn DEF DbSafe, RestTyped
  <1> QED BY <1>3, <1>4

LEMMA ReadStep ==
  ASSUME StartInv, NEW r, ReadLedger(r)
  PROVE  StartInv'
  <1>1. /\ r \in DOMAIN starts /\ r \in Replicas /\ starts[r] \in Start /\ Sound(starts[r], db)
    BY Here DEF ReadLedger
  <1>2. DbSafe /\ RestTyped /\ db' = db
    BY <1>1, DbStays, RestStays DEF ReadLedger
  <1>3. CASE Ahead(db.ledger, starts[r].release)
    BY <1>1, <1>2, <1>3, AbortSound DEF ReadLedger, Places
  <1>4. CASE ~Ahead(db.ledger, starts[r].release)
    <2> DEFINE new == [starts[r] EXCEPT !.pc = "migrating", !.seen = db.ledger]
    <2>1. starts' = [starts EXCEPT ![r] = new]
      BY <1>4 DEF ReadLedger
    <2>2. db.ledger \in SUBSET Versions
      BY DEF StartInv, StartupTypeOK
    <2>3. /\ new \in Start /\ new.pc = "migrating" /\ new.release = starts[r].release
          /\ new.seen = db.ledger /\ new.mine = starts[r].mine
      BY <1>1, <2>2 DEF Start
    <2> HIDE DEF new
    <2>4. Sound(new, db')
      BY <1>1, <1>2, <2>3 DEF Sound
    <2> QED BY <1>1, <1>2, <2>1, <2>3, <2>4, StartGoesOn DEF DbSafe, RestTyped
  <1> QED BY <1>3, <1>4

LEMMA LeastExists ==
  ASSUME NEW S, S \subseteq Nat, S # {}
  PROVE  \E w \in S : \A u \in S : w <= u
  <1> DEFINE Less == {ss \in Nat \X Nat : ss[1] < ss[2]}
  <1>1. IsWellFoundedOn(Less, Nat)
    BY NatLessThanWellFounded DEF OpToRel
  <1> HIDE DEF Less
  <1>2. PICK w \in S : \A u \in S : <<u, w>> \notin Less
    BY <1>1, WFMin
  <1>3. \A u \in S : w <= u
    <2> TAKE u \in S
    <2>1. <<u, w>> \notin Less /\ w \in Nat /\ u \in Nat
      BY <1>2
    <2> QED BY <2>1 DEF Less
  <1> QED BY <1>3

LEMMA MigrateStep ==
  ASSUME StartInv, NEW r, Migrate(r)
  PROVE  StartInv'
  <1> DEFINE v == NextVersion(r)
             mine == starts[r].mine \cup {v}
             new == [starts[r] EXCEPT !.mine = mine]
             t == Bootstrapped(r, v)
  <1>1. /\ r \in DOMAIN starts /\ starts[r] \in Start /\ Sound(starts[r], db)
        /\ starts[r].pc = "migrating"
    BY Here DEF Migrate
  <1>2. starts[r].release \in 1..Latest
    BY <1>1, StartFields DEF Versions
  <1>3. v \in 1..starts[r].release
    <2>1. Missing(r) # {} /\ Missing(r) \subseteq 1..starts[r].release
      BY DEF Migrate, Missing
    <2>2. \E w \in Missing(r) : \A u \in Missing(r) : w <= u
      BY <1>2, <2>1, LeastExists, StartupAssumption
    <2> QED BY <2>1, <2>2 DEF NextVersion
  <1>4. starts' = [starts EXCEPT ![r] = new] /\ db' = [db EXCEPT !.tables = t]
    BY DEF Migrate
  <1>5. t \in SUBSET (0..Latest) /\ db.tables \subseteq t /\ db \in Db
    BY <1>2, StartupAssumption DEF Bootstrapped, Expected, StartInv, StartupTypeOK, Db
  <1>6. mine \in SUBSET Versions /\ mine \subseteq 1..starts[r].release
    BY <1>1, <1>2, <1>3, StartFields, StartupAssumption DEF Versions, Sound
  <1> HIDE DEF v, mine, t
  <1>7. /\ new \in Start /\ new.pc = starts[r].pc /\ new.release = starts[r].release
        /\ new.seen = starts[r].seen /\ new.mine = mine
    BY <1>1, <1>6 DEF Start
  <1> HIDE DEF new
  <1>8. db' \in Db /\ db'.ledger = db.ledger /\ db'.tables = t
    BY <1>4, <1>5 DEF Db
  <1>9. DbSafe /\ RestTyped
    BY <1>5, <1>8, RestStays DEF DbSafe, Grown, NoGaps, StartInv, Migrate
  <1>10. Sound(new, db')
    BY <1>1, <1>6, <1>7, <1>8 DEF Sound
  <1> QED BY <1>1, <1>4, <1>7, <1>9, <1>10, StartGoesOn DEF DbSafe, RestTyped

LEMMA CollideStep ==
  ASSUME StartInv, NEW r, Collide(r)
  PROVE  StartInv'
  <1>1. r \in DOMAIN starts
    BY Here DEF Collide
  <1>2. DbSafe /\ RestTyped
    BY DbStays, RestStays DEF Collide
  <1> QED BY <1>1, <1>2, AbortSound DEF Collide, Places

LEMMA ValidateStep ==
  ASSUME StartInv, NEW r, Validate(r)
  PROVE  StartInv'
  <1>1. /\ r \in DOMAIN starts /\ r \in Replicas /\ starts[r] \in Start /\ Sound(starts[r], db)
        /\ starts[r].pc = "migrating" /\ Missing(r) = {}
    BY Here DEF Validate
  <1>2. DbSafe /\ RestTyped /\ db' = db
    BY <1>1, DbStays, RestStays DEF Validate
  <1>3. CASE Valid(r)
    <2>1. Goto(r, "unlocking")
      BY <1>3 DEF Validate
    <2>2. /\ Expected(starts[r].release) \subseteq db'.tables \cup starts[r].mine
          /\ 1..starts[r].release \subseteq db'.ledger \cup starts[r].mine
      BY <1>1, <1>2, <1>3 DEF Valid, Missing, Sound
    <2> QED BY <1>1, <1>2, <2>1, <2>2, GotoSound DEF Places
  <1>4. CASE ~Valid(r)
    BY <1>1, <1>2, <1>4, AbortSound DEF Validate, Places
  <1> QED BY <1>3, <1>4

LEMMA CommitStep ==
  ASSUME StartInv, NEW r, Commit(r)
  PROVE  StartInv'
  <1>1. r \in DOMAIN starts /\ starts[r].pc = "committing" /\ db' = Committed(r)
    BY Here DEF Commit
  <1>2. /\ DbSafe /\ Expected(starts[r].release) \subseteq db'.tables
        /\ 1..starts[r].release \subseteq db'.ledger
    BY <1>1, CommitFills DEF DbSafe
  <1>3. RestTyped
    BY RestStays DEF Commit
  <1> QED BY <1>1, <1>2, <1>3, AbortSound DEF Commit, Places

LEMMA ImportStep ==
  ASSUME StartInv, NEW r, ImportJson(r)
  PROVE  StartInv'
  <1>1. /\ r \in DOMAIN starts /\ Sound(starts[r], db) /\ starts[r].pc = "importing"
    BY Here DEF ImportJson
  <1>2. DbSafe /\ RestTyped /\ db' = db
    BY DbStays, RestStays DEF ImportJson
  <1>3. PICK pc \in {"marking", "postgres"} : Goto(r, pc)
    BY DEF ImportJson
  <1>4. ~starts[r].lost => /\ Expected(starts[r].release) \subseteq db'.tables
                           /\ 1..starts[r].release \subseteq db'.ledger
    BY <1>1, <1>2 DEF Sound
  <1> QED BY <1>1, <1>2, <1>3, <1>4, GotoSound DEF Places

LEMMA Marked ==
  ASSUME StartInv, db' = [db EXCEPT !.marker = TRUE]
  PROVE  DbSafe /\ db'.ledger = db.ledger /\ db'.tables = db.tables
  <1>1. db \in Db
    BY DEF StartInv, StartupTypeOK, Db
  <1>2. db' \in Db /\ db'.ledger = db.ledger /\ db'.tables = db.tables
    BY <1>1 DEF Db
  <1> QED BY <1>2 DEF DbSafe, Grown, NoGaps, StartInv

LEMMA MarkStep ==
  ASSUME StartInv, NEW r, Mark(r)
  PROVE  StartInv'
  <1>1. /\ r \in DOMAIN starts /\ Sound(starts[r], db) /\ starts[r].pc = "marking"
    BY Here DEF Mark
  <1>2. RestTyped
    BY RestStays DEF Mark
  <1>3. CASE db.marker
    BY <1>1, <1>2, <1>3, DbStays, GotoSound DEF Mark, Places
  <1>4. CASE ~db.marker
    <2>1. Goto(r, "postgres") /\ db' = [db EXCEPT !.marker = TRUE]
      BY <1>4 DEF Mark
    <2>2. DbSafe /\ db'.ledger = db.ledger /\ db'.tables = db.tables
      BY <2>1, Marked
    <2>3. ~starts[r].lost => /\ Expected(starts[r].release) \subseteq db'.tables
                             /\ 1..starts[r].release \subseteq db'.ledger
      BY <1>1, <2>2 DEF Sound
    <2> QED BY <1>1, <1>2, <2>1, <2>2, <2>3, GotoSound DEF Places
  <1> QED BY <1>3, <1>4

\* A statement raises, or the process dies, with the commit done or not.
LEMMA FaultStep ==
  ASSUME StartInv, NEW r, Fault(r)
  PROVE  StartInv'
  <1>1. r \in DOMAIN starts
    BY Here DEF Fault
  <1>2. RestTyped
    BY RestStays DEF Fault
  <1>3. DbSafe
    <2>1. CASE UNCHANGED db
      BY <2>1, DbStays
    <2>2. CASE At(r, "committing") /\ db' = Committed(r)
      BY <2>2, Here, CommitFills DEF DbSafe
    <2>3. CASE At(r, "marking") /\ db' = [db EXCEPT !.marker = TRUE]
      BY <2>3, Marked
    <2> QED BY <2>1, <2>2, <2>3 DEF Fault
  <1>4. Abort(r, "failed")
    BY DEF Fault
  <1> QED BY <1>1, <1>2, <1>3, <1>4, AbortSound DEF Places

\* The unlock fails: the database is as it was, and the start is a lost one unless
\* it had nothing to migrate.
LEMMA UnlockFailsStep ==
  ASSUME StartInv, NEW r \in Replicas, UnlockFails(r)
  PROVE  StartInv'
  <1> DEFINE gone == starts[r].mine # {}
             new == [starts[r] EXCEPT !.pc = "importing", !.mine = {}, !.lost = gone]
  <1>1. /\ r \in DOMAIN starts /\ starts[r] \in Start /\ starts[r].pc = "unlocking"
        /\ Sound(starts[r], db)
    BY Here DEF UnlockFails
  <1>2. starts' = [starts EXCEPT ![r] = new] /\ gone \in BOOLEAN
    BY DEF UnlockFails
  <1>3. DbSafe /\ db' = db
    BY DbStays DEF UnlockFails
  <1>4. RestTyped
    <2>1. lock' = r \/ lock' = Nobody
      BY DEF UnlockFails
    <2>2. Trouble /\ UNCHANGED <<files, down>>
      BY DEF UnlockFails
    <2> QED BY <2>1, <2>2, RestStays
  <1>5. /\ new \in Start /\ new.pc = "importing" /\ new.release = starts[r].release
        /\ new.mine = {} /\ new.lost = gone
    <2> HIDE DEF gone
    <2> QED BY <1>1, <1>2 DEF Start
  <1>6. ~gone => /\ Expected(starts[r].release) \subseteq db.tables
                 /\ 1..starts[r].release \subseteq db.ledger
    BY <1>1 DEF Sound
  <1> HIDE DEF new, gone
  <1>7. Sound(new, db')
    BY <1>3, <1>5, <1>6 DEF Sound
  <1> QED BY <1>1, <1>2, <1>3, <1>4, <1>5, <1>7, StartGoesOn DEF DbSafe, RestTyped

LEMMA RecycleStep ==
  ASSUME StartInv, NEW r, Recycle(r)
  PROVE  StartInv'
  BY DEF Recycle, StartInv, StartupTypeOK, AllSound, NoGaps

LEMMA CrashStep ==
  ASSUME StartInv, NEW r \in Replicas, Crash(r)
  PROVE  StartInv'
  <1>1. r \in DOMAIN starts /\ Abort(r, "down")
    BY DEF Crash
  <1>2. DbSafe /\ RestTyped
    BY DbStays, RestStays DEF Crash
  <1> QED BY <1>1, <1>2, AbortSound DEF Places

LEMMA DeployStep ==
  ASSUME StartInv, NEW r \in Replicas, Deploy(r)
  PROVE  StartInv'
  <1>1. r \in DOMAIN starts /\ starts[r] \in Start /\ Sound(starts[r], db)
    BY Here DEF Deploy
  <1>2. starts[r].release \in Nat /\ starts[r].mine \subseteq 1..starts[r].release
    BY <1>1, StartFields DEF Sound
  <1>3. DbSafe /\ db' = db
    BY DbStays DEF Deploy
  <1>4. RestTyped
    BY DEF Deploy, Closed, RestTyped, StartInv, StartupTypeOK
  <1>5. PICK n \in (starts[r].release + 1)..Latest :
           starts' = [starts EXCEPT ![r].pc = "down", ![r].release = n]
    BY DEF Deploy
  <1> DEFINE new == [starts[r] EXCEPT !.pc = "down", !.release = n]
  <1>6. starts' = [starts EXCEPT ![r] = new]
    BY <1>5
  <1>7. n \in Versions /\ starts[r].mine \subseteq 1..n
    BY <1>2, <1>5, StartupAssumption DEF Versions
  <1>8. new \in Start /\ new.pc = "down" /\ new.release = n /\ new.mine = starts[r].mine
    BY <1>1, <1>7 DEF Start
  <1> HIDE DEF new
  <1>9. Sound(new, db')
    BY <1>7, <1>8 DEF Sound
  <1> QED BY <1>1, <1>3, <1>4, <1>6, <1>8, <1>9, StartGoesOn DEF DbSafe, RestTyped

LEMMA OutsideSteps ==
  ASSUME StartInv, (\E r \in Replicas : Serve(r)) \/ Outage \/ Recovery
  PROVE  StartInv'
  <1>0. files \subseteq Replicas /\ down \in BOOLEAN /\ troubles \in Nat
    BY DEF StartInv, StartupTypeOK
  <1>1. UNCHANGED <<db, lock, starts>> /\ files' \subseteq Replicas /\ down' \in BOOLEAN /\ troubles' \in Nat
    <2>1. CASE \E r \in Replicas : Serve(r)
      BY <1>0, <2>1 DEF Serve
    <2>2. CASE Outage
      BY <1>0, <2>2 DEF Outage, Trouble
    <2>3. CASE Recovery
      BY <1>0, <2>3 DEF Recovery
    <2> QED BY <2>1, <2>2, <2>3
  <1> QED BY <1>1 DEF StartInv, StartupTypeOK, AllSound, NoGaps

LEMMA Stays ==
  ASSUME StartInv, UNCHANGED <<db, lock, starts, files, down>>, troubles' \in Nat
  PROVE  StartInv'
  BY DEF StartInv, StartupTypeOK, AllSound, NoGaps

LEMMA StartupSteps ==
  ASSUME StartInv, [StartupNext]_startupVars
  PROVE  StartInv'
  <1>1. CASE UNCHANGED startupVars
    BY <1>1, Stays DEF startupVars, StartInv, StartupTypeOK
  <1>2. ASSUME NEW r \in Replicas, StartStep(r)
        PROVE  StartInv'
    BY <1>2, PlainSteps, ConnectStep, ReadStep, MigrateStep, CollideStep, ValidateStep,
       CommitStep, ImportStep, MarkStep, RecycleStep DEF StartStep
  <1>3. ASSUME NEW r \in Replicas, Fault(r) \/ Crash(r) \/ Deploy(r) \/ Serve(r)
        PROVE  StartInv'
    BY <1>3, FaultStep, CrashStep, DeployStep, OutsideSteps
  <1>5. ASSUME NEW r \in Replicas, UnlockFails(r)
        PROVE  StartInv'
    BY <1>5, UnlockFailsStep
  <1>4. CASE Outage \/ Recovery
    BY <1>4, OutsideSteps
  <1> QED BY <1>1, <1>2, <1>3, <1>4, <1>5 DEF StartupNext

LEMMA LedgerGrows ==
  ASSUME StartInv, [StartupNext]_startupVars
  PROVE  db.ledger \subseteq db'.ledger
  <1>1. db \in Db
    BY DEF StartInv, StartupTypeOK, Db
  <1>2. CASE UNCHANGED db
    BY <1>2
  <1>3. CASE \E t : db' = [db EXCEPT !.tables = t]
    BY <1>1, <1>3 DEF Db
  <1>4. CASE db' = [db EXCEPT !.marker = TRUE]
    BY <1>1, <1>4 DEF Db
  <1>5. CASE \E r : db' = Committed(r)
    BY <1>1, <1>5 DEF Db, Committed
  <1> QED
    BY <1>2, <1>3, <1>4, <1>5
    DEF StartupNext, StartStep, startupVars, Connect, Acquire, TimeOut, ReadLedger, Migrate,
        Collide, Validate, Unlock, Commit, ImportJson, Mark, Refuse, FallBack, Restart, Recycle,
        UnlockFails, Fault, Crash, Deploy, Serve, Outage, Recovery

LEMMA StartupStarts ==
  ASSUME NEW fleet \in SUBSET Replicas, NEW budget \in Nat, StartupInit(fleet, budget)
  PROVE  StartInv
  <1> DEFINE first == [pc |-> "down", release |-> 1, seen |-> {}, mine |-> {},
                        lost |-> FALSE]
  <1>1. first \in Start
    BY StartupAssumption DEF Start, Versions
  <1>2. first.pc = "down" /\ first.mine = {}
    OBVIOUS
  <1>3. starts = [r \in fleet |-> first]
    BY DEF StartupInit
  <1> HIDE DEF first
  <1>4. \A r \in DOMAIN starts : r \in Replicas /\ starts[r] \in Start
    BY <1>1, <1>3
  <1>5. AllSound
    <2>1. \A r \in DOMAIN starts : starts[r] = first
      BY <1>3
    <2>2. Sound(first, db)
      BY <1>2, SoundIdle
    <2> QED BY <2>1, <2>2 DEF AllSound
  <1>6. NoGaps
    BY StartupAssumption DEF StartupInit, NoGaps
  <1>7. StartupTypeOK
    BY <1>4 DEF StartupInit, StartupTypeOK
  <1> QED BY <1>5, <1>6, <1>7 DEF StartInv

-----------------------------------------------------------------------------
(* The backup service *)

LEMMA JobFields ==
  ASSUME BackupTypeOK
  PROVE  /\ job.release \in Versions /\ job.release \in Nat /\ job.release # 0 /\ job.item \in Artifacts
         /\ job.item.manifest \in 0..Latest /\ job.item.dump \in 0..Latest
         /\ \A i \in DOMAIN volume : /\ volume[i] \in Artifacts /\ volume[i].manifest \in 0..Latest
                                     /\ volume[i].dump \in 0..Latest
         /\ Len(volume) \in Nat /\ DOMAIN volume = 1..Len(volume)
  <1>1. job.release \in Versions /\ job.item \in Artifacts
    BY DEF BackupTypeOK, Job
  <1>2. volume \in Seq(Artifacts)
    BY DEF BackupTypeOK
  <1>3. \A a \in Artifacts : a.manifest \in 0..Latest /\ a.dump \in 0..Latest
    BY DEF Artifacts
  <1> QED BY <1>1, <1>2, <1>3, StartupAssumption DEF Versions

Pcs == {"idle", "started", "inspected", "dumped", "stored", "described", "rotated",
        "failing", "loading", "loaded"}

\* What Proceed and Idle do to the job.
LEMMA JobMoves ==
  ASSUME BackupTypeOK, NEW pc \in Pcs
  PROVE  /\ Proceed(pc) => /\ job' \in Job /\ job'.pc = pc /\ job'.release = job.release
                           /\ job'.item = job.item
         /\ Idle => /\ job' \in Job /\ job'.pc = "idle" /\ job'.release = job.release
                    /\ job'.item = NoArtifact
  <1>1. job \in Job
    BY DEF BackupTypeOK
  <1>2. ASSUME Proceed(pc)
        PROVE  /\ job' \in Job /\ job'.pc = pc /\ job'.release = job.release
               /\ job'.item = job.item
    BY <1>1, <1>2 DEF Job, Proceed, Pcs
  <1>3. NoArtifact \in Artifacts
    BY StartupAssumption DEF NoArtifact, Artifacts
  <1>4. ASSUME Idle
        PROVE  /\ job' \in Job /\ job'.pc = "idle" /\ job'.release = job.release
               /\ job'.item = NoArtifact
    BY <1>1, <1>3, <1>4 DEF Job, Idle
  <1> QED BY <1>2, <1>4

\* The highest version of the ledger only grows.
LEMMA VersionIsHighest ==
  ASSUME NEW n \in 0..Latest, NEW S, S = 1..n
  PROVE  (IF S = {} THEN 0 ELSE Highest(S)) = n
  <1>1. CASE n = 0
    BY <1>1
  <1>2. CASE n > 0
    <2>1. n \in S /\ \A u \in S : u <= n
      BY <1>2, StartupAssumption
    <2>2. Highest(S) \in S /\ \A u \in S : u <= Highest(S)
      BY <2>1 DEF Highest
    <2> QED BY <1>2, <2>1, <2>2, StartupAssumption
  <1> QED BY <1>1, <1>2, StartupAssumption

LEMMA VersionGrows ==
  ASSUME NoGaps, NoGaps', db.ledger \subseteq db'.ledger
  PROVE  Version \in 0..Latest /\ Version' \in 0..Latest /\ Version <= Version'
  <1>1. PICK n \in 0..Latest : db.ledger = 1..n
    BY DEF NoGaps
  <1>2. PICK m \in 0..Latest : db'.ledger = 1..m
    BY DEF NoGaps
  <1>3. Version = n /\ Version' = m
    BY <1>1, <1>2, VersionIsHighest DEF Version
  <1>4. n <= m
    BY <1>1, <1>2, StartupAssumption
  <1> QED BY <1>3, <1>4

-----------------------------------------------------------------------------
(* The invariant of the backup service *)

Backing == {"started", "inspected", "dumped", "stored", "described", "rotated", "failing"}
Newest == volume[Len(volume)]

\* No artifact promises more than it holds, or holds more than the database.
Papers ==
    \A i \in DOMAIN volume :
        /\ volume[i].manifest <= job.release /\ volume[i].manifest <= volume[i].dump
        /\ volume[i].dump <= Version
Course ==
    /\ job.pc \in Backing => receipt.outcome = "started"
    /\ job.pc = "inspected" => job.release <= Version
    /\ job.pc \in {"dumped", "stored"} =>
         /\ job.item.manifest = 0 /\ job.release <= job.item.dump /\ job.item.dump <= Version
    /\ job.pc \in {"stored", "described", "rotated"} => volume # <<>>
    /\ job.pc = "stored" => Newest = job.item
    /\ job.pc \in {"described", "rotated"} => Newest.manifest = job.release
Restored ==
    /\ job.pc \in {"loading", "loaded"} => job.item.manifest = job.release
    /\ job.pc = "loaded" => target.whole /\ target.dump = job.item.dump
    /\ VerifiedIsTrue
\* While the last backup stands as a success, nothing restored or certified is of a
\* later release than the newest artifact.
LastIsBest ==
    /\ cert.release <= job.release
    /\ receipt.outcome = "success" =>
         /\ volume # <<>>
         /\ \A i \in DOMAIN volume : volume[i].manifest <= Newest.manifest
         /\ cert.release <= Newest.manifest
         /\ job.pc \in {"loading", "loaded"} => job.release <= Newest.manifest
         /\ target.verified => job.release <= Newest.manifest
BackInv == BackupTypeOK /\ Papers /\ Course /\ Restored /\ LastIsBest

LEMMA VersionStays ==
  ASSUME UNCHANGED db
  PROVE  Version' = Version
  BY DEF Version

LEMMA ReceiptTyped ==
  ASSUME NEW o \in {"started", "success", "failure"}, Event(o)
  PROVE  /\ receipt' \in [outcome : {"none", "started", "success", "failure"}, age : Nat]
         /\ receipt'.outcome = o
  BY DEF Event

\* A startup step leaves the papers alone, and the database grows.
LEMMA BackupWaits ==
  ASSUME BackInv, UNCHANGED backupVars, Version \in 0..Latest, Version' \in 0..Latest,
         Version <= Version'
  PROVE  BackInv'
  <1>1. /\ job' = job /\ volume' = volume /\ receipt' = receipt /\ target' = target /\ cert' = cert
        /\ jobs' = jobs
    BY DEF backupVars
  <1>2. BackupTypeOK' /\ Restored' /\ LastIsBest'
    BY <1>1 DEF BackInv, BackupTypeOK, Restored, LastIsBest, VerifiedIsTrue, Newest
  <1>3. /\ \A i \in DOMAIN volume : volume[i].dump \in 0..Latest
        /\ job.release \in Nat /\ job.item.dump \in 0..Latest
    BY JobFields DEF BackInv
  <1>4. Papers'
    BY <1>1, <1>3, StartupAssumption DEF BackInv, Papers
  <1>5. Course'
    BY <1>1, <1>3, StartupAssumption DEF BackInv, Course, Newest
  <1> QED BY <1>2, <1>4, <1>5 DEF BackInv

LEMMA StartBackupStep ==
  ASSUME BackInv, StartBackup
  PROVE  BackInv'
  <1>1. /\ job' \in Job /\ job'.pc = "started" /\ job'.release = job.release /\ job'.item = job.item
    BY JobMoves DEF StartBackup, BackInv, Pcs
  <1>2. /\ receipt' \in [outcome : {"none", "started", "success", "failure"}, age : Nat]
        /\ receipt'.outcome = "started"
    BY ReceiptTyped DEF StartBackup
  <1>3. /\ volume' = volume /\ target' = target /\ cert' = cert /\ Version' = Version
        /\ jobs' \in Nat
    BY VersionStays DEF StartBackup, startupVars, BackInv, BackupTypeOK
  <1>4. BackupTypeOK'
    BY <1>1, <1>2, <1>3 DEF BackInv, BackupTypeOK
  <1>5. Papers' /\ Course' /\ Restored' /\ LastIsBest'
    BY <1>1, <1>2, <1>3 DEF BackInv, Papers, Course, Restored, LastIsBest, VerifiedIsTrue, Newest
  <1> QED BY <1>4, <1>5 DEF BackInv

\* Steps that only move the job on.
LEMMA JobGoesOn ==
  ASSUME BackInv, NEW pc \in Pcs, Proceed(pc) \/ (Idle /\ pc = "idle"),
         UNCHANGED <<volume, receipt, target, cert, jobs, db>>,
         pc \notin {"loading", "loaded"}, pc \in Backing => receipt.outcome = "started",
         pc = "inspected" => job.release <= Version,
         pc \notin {"dumped", "stored", "described"},
         pc = "rotated" => job.pc = "described"
  PROVE  BackInv'
  <1>1. /\ job' \in Job /\ job'.pc = pc /\ job'.release = job.release
    BY JobMoves DEF BackInv
  <1>2. Version' = Version
    BY VersionStays
  <1>3. BackupTypeOK'
    BY <1>1 DEF BackInv, BackupTypeOK
  <1>4. Papers' /\ Course' /\ Restored' /\ LastIsBest'
    BY <1>1, <1>2 DEF BackInv, Papers, Course, Restored, LastIsBest, VerifiedIsTrue, Newest
  <1> QED BY <1>3, <1>4 DEF BackInv

LEMMA InspectStep ==
  ASSUME BackInv, Version \in 0..Latest, Inspect
  PROVE  BackInv'
  <1>1. job.release \in Nat
    BY JobFields DEF BackInv
  <1>2. UNCHANGED <<volume, receipt, target, cert, jobs, db>> /\ receipt.outcome = "started"
    BY DEF Inspect, startupVars, BackInv, Course, Working, Backing
  <1>3. CASE ~down /\ Current
    <2>1. Proceed("inspected") /\ job.release <= Version
      BY <1>1, <1>3, StartupAssumption DEF Inspect, Current
    <2> QED BY <1>2, <2>1, JobGoesOn DEF Pcs
  <1>4. CASE ~(~down /\ Current)
    <2>1. Proceed("failing")
      BY <1>4 DEF Inspect
    <2> QED BY <1>2, <2>1, JobGoesOn DEF Pcs
  <1> QED BY <1>3, <1>4

LEMMA BreakStep ==
  ASSUME BackInv, Break
  PROVE  BackInv'
  <1>1. Proceed("failing") /\ UNCHANGED <<volume, receipt, target, cert, jobs, db>>
        /\ receipt.outcome = "started"
    BY DEF Break, BackInv, Course, Backing
  <1> QED BY <1>1, JobGoesOn DEF Pcs

LEMMA CrashJobStep ==
  ASSUME BackInv, CrashJob
  PROVE  BackInv'
  <1>1. Idle /\ UNCHANGED <<volume, receipt, target, cert, jobs, db>>
    BY DEF CrashJob
  <1> QED BY <1>1, JobGoesOn DEF Pcs, Backing

LEMMA DumpStep ==
  ASSUME BackInv, Version \in 0..Latest, Dump
  PROVE  BackInv'
  <1> DEFINE item == [manifest |-> 0, dump |-> Version]
  <1>1. item \in Artifacts /\ item.manifest = 0 /\ item.dump = Version
    BY StartupAssumption DEF Artifacts
  <1>2. job' = [job EXCEPT !.pc = "dumped", !.item = item] /\ job \in Job /\ job.pc = "inspected"
    BY DEF Dump, BackInv, BackupTypeOK, Working
  <1> HIDE DEF item
  <1>3. /\ job' \in Job /\ job'.pc = "dumped" /\ job'.release = job.release /\ job'.item = item
    BY <1>1, <1>2 DEF Job
  <1>4. UNCHANGED <<volume, receipt, target, cert, jobs>> /\ Version' = Version
    BY VersionStays DEF Dump, startupVars
  <1>5. BackupTypeOK'
    BY <1>3, <1>4 DEF BackInv, BackupTypeOK
  <1>6. Papers' /\ Restored' /\ LastIsBest'
    BY <1>2, <1>3, <1>4 DEF BackInv, Papers, Restored, LastIsBest, VerifiedIsTrue, Newest
  <1>7. Course'
    BY <1>1, <1>2, <1>3, <1>4, StartupAssumption DEF BackInv, Course, Backing
  <1> QED BY <1>5, <1>6, <1>7 DEF BackInv

LEMMA StoreStep ==
  ASSUME BackInv, Store
  PROVE  BackInv'
  <1>1. /\ job.pc = "dumped" /\ job.item \in Artifacts /\ volume \in Seq(Artifacts)
        /\ job' \in Job /\ job'.pc = "stored" /\ job'.release = job.release /\ job'.item = job.item
    BY JobMoves, JobFields DEF Store, Working, BackInv, BackupTypeOK, Pcs
  <1>2. UNCHANGED <<receipt, target, cert, jobs>> /\ Version' = Version
    BY VersionStays DEF Store, startupVars
  <1>3. /\ volume' \in Seq(Artifacts) /\ Len(volume') = Len(volume) + 1
        /\ \A i \in 1..Len(volume) : volume'[i] = volume[i]
        /\ volume'[Len(volume) + 1] = job.item
        /\ DOMAIN volume = 1..Len(volume) /\ DOMAIN volume' = 1..(Len(volume) + 1)
        /\ Len(volume) \in Nat
    BY <1>1 DEF Store
  <1>4. receipt.outcome = "started"
    BY <1>1 DEF BackInv, Course, Backing
  <1>5. BackupTypeOK'
    BY <1>1, <1>2, <1>3 DEF BackInv, BackupTypeOK
  <1>6. Papers'
    <2>1. job.item.manifest = 0 /\ job.item.dump \in Nat /\ job.release \in Nat /\ job.item.dump <= Version
      BY <1>1, JobFields, StartupAssumption DEF BackInv, Course
    <2>2. SUFFICES ASSUME NEW i \in DOMAIN volume'
                   PROVE  /\ volume'[i].manifest <= job.release
                          /\ volume'[i].manifest <= volume'[i].dump /\ volume'[i].dump <= Version
      BY <1>1, <1>2 DEF Papers
    <2>3. CASE i \in DOMAIN volume
      BY <1>3, <2>3 DEF BackInv, Papers
    <2>4. CASE i = Len(volume) + 1
      BY <1>3, <2>1, <2>4
    <2> QED BY <1>3, <2>3, <2>4
  <1>7. Course'
    <2>1. volume' # <<>> /\ Newest' = job.item
      BY <1>3 DEF Newest
    <2> QED BY <1>1, <1>2, <1>4, <2>1 DEF BackInv, Course
  <1>8. Restored' /\ LastIsBest'
    BY <1>1, <1>2, <1>4 DEF BackInv, Restored, LastIsBest, VerifiedIsTrue
  <1> QED BY <1>5, <1>6, <1>7, <1>8 DEF BackInv

LEMMA DescribeStep ==
  ASSUME BackInv, Describe
  PROVE  BackInv'
  <1> DEFINE n == Len(volume)
             described == [volume[n] EXCEPT !.manifest = job.release]
  <1>1. /\ job.pc = "stored" /\ volume \in Seq(Artifacts) /\ volume # <<>>
        /\ volume[n] = job.item /\ job.release <= job.item.dump /\ job.item.dump <= Version
        /\ receipt.outcome = "started"
    BY DEF Describe, Working, BackInv, BackupTypeOK, Course, Newest, Backing
  <1>2. /\ job' \in Job /\ job'.pc = "described" /\ job'.release = job.release /\ job'.item = job.item
    BY JobMoves DEF Describe, BackInv, Pcs
  <1>3. UNCHANGED <<receipt, target, cert, jobs>> /\ Version' = Version
    BY VersionStays DEF Describe, startupVars
  <1>4. n \in Nat /\ DOMAIN volume = 1..n /\ n \in 1..n /\ volume[n] \in Artifacts
    BY <1>1
  <1>5. /\ job.release \in Versions /\ job.release \in Nat
    BY JobFields DEF BackInv
  <1>6. described \in Artifacts /\ described.manifest = job.release /\ described.dump = volume[n].dump
    BY <1>4, <1>5, StartupAssumption DEF Artifacts, Versions
  <1>7. volume' = [volume EXCEPT ![n] = described]
    BY DEF Describe
  <1> HIDE DEF described
  <1>8. /\ volume' \in Seq(Artifacts) /\ Len(volume') = n /\ DOMAIN volume' = 1..n
        /\ volume'[n] = described /\ \A i \in 1..n : i # n => volume'[i] = volume[i]
    <2> HIDE DEF n
    <2>1. volume \in Seq(Artifacts) /\ Len(volume) = n
      BY <1>1 DEF n
    <2>2. [volume EXCEPT ![n] = described] \in Seq(Artifacts)
          /\ Len([volume EXCEPT ![n] = described]) = n
      BY <1>4, <1>6, <2>1, ExceptSeq
    <2>3. DOMAIN volume' = 1..n
      BY <1>4, <1>7
    <2> QED BY <1>4, <1>7, <2>2, <2>3
  <1>9. BackupTypeOK'
    BY <1>2, <1>3, <1>8 DEF BackInv, BackupTypeOK
  <1>10. Papers'
    <2>1. SUFFICES ASSUME NEW i \in 1..n
                   PROVE  /\ volume'[i].manifest <= job.release
                          /\ volume'[i].manifest <= volume'[i].dump /\ volume'[i].dump <= Version
      BY <1>2, <1>3, <1>8 DEF Papers
    <2> HIDE DEF n
    <2>2. CASE i = n
      <3>1. volume'[i].manifest = job.release /\ volume'[i].dump = job.item.dump
        BY <1>1, <1>6, <1>8, <2>2
      <3> QED BY <1>1, <1>5, <3>1
    <2>3. CASE i # n
      <3>1. volume'[i] = volume[i] /\ i \in DOMAIN volume
        BY <1>4, <1>8, <2>3
      <3> QED BY <3>1 DEF BackInv, Papers
    <2> QED BY <2>2, <2>3
  <1>11. Course'
    <2> HIDE DEF n
    <2>1. volume' # <<>> /\ Newest' = described
      BY <1>4, <1>8 DEF Newest
    <2> QED BY <1>1, <1>2, <1>3, <1>6, <2>1 DEF Course
  <1>12. Restored' /\ LastIsBest'
    BY <1>1, <1>2, <1>3 DEF BackInv, Restored, LastIsBest, VerifiedIsTrue
  <1> QED BY <1>9, <1>10, <1>11, <1>12 DEF BackInv

\* Rotation keeps the newest artifact and adds none.
LEMMA RotationKeepsNewest ==
  ASSUME NEW v \in Seq(Artifacts), v # <<>>
  PROVE  /\ Rotated(v) \in Seq(Artifacts) /\ Rotated(v) # <<>>
         /\ Rotated(v)[Len(Rotated(v))] = v[Len(v)]
         /\ \A i \in DOMAIN Rotated(v) : \E j \in DOMAIN v : Rotated(v)[i] = v[j]
  <1> DEFINE n == Len(v)
             m == IF n > Keep THEN n - Keep + 1 ELSE 1
             w == SubSeq(v, m, n)
  <1>1. n \in Nat /\ n # 0 /\ DOMAIN v = 1..n
    OBVIOUS
  <1>2. m \in 1..n
    BY <1>1, BackupAssumption
  <1>3. Rotated(v) = w
    BY DEF Rotated
  <1>4. w \in Seq(Artifacts) /\ Len(w) = n - m + 1 /\ \A i \in 1..(n - m + 1) : w[i] = v[m + i - 1]
    BY <1>1, <1>2, SubSeqProperties
  <1> HIDE DEF w, m, n
  <1>5. w # <<>> /\ DOMAIN w = 1..(n - m + 1) /\ n - m + 1 \in Nat /\ n - m + 1 # 0
    BY <1>1, <1>2, <1>4
  <1>6. w[Len(w)] = v[n]
    BY <1>1, <1>2, <1>4, <1>5
  <1>7. \A i \in DOMAIN w : \E j \in DOMAIN v : w[i] = v[j]
    <2> TAKE i \in DOMAIN w
    <2>1. m + i - 1 \in DOMAIN v /\ w[i] = v[m + i - 1]
      BY <1>1, <1>2, <1>4, <1>5
    <2> QED BY <2>1
  <1> QED BY <1>3, <1>4, <1>5, <1>6, <1>7 DEF n

LEMMA RotateStep ==
  ASSUME BackInv, Rotate
  PROVE  BackInv'
  <1>1. /\ job.pc = "described" /\ volume \in Seq(Artifacts) /\ volume # <<>>
        /\ Newest.manifest = job.release /\ receipt.outcome = "started"
    BY DEF Rotate, Working, BackInv, BackupTypeOK, Course, Backing
  <1>2. /\ job' \in Job /\ job'.pc = "rotated" /\ job'.release = job.release /\ job'.item = job.item
    BY JobMoves DEF Rotate, BackInv, Pcs
  <1>3. UNCHANGED <<receipt, target, cert, jobs>> /\ Version' = Version
    BY VersionStays DEF Rotate, startupVars
  <1>4. /\ volume' \in Seq(Artifacts) /\ volume' # <<>> /\ volume'[Len(volume')] = volume[Len(volume)]
        /\ \A i \in DOMAIN volume' : \E j \in DOMAIN volume : volume'[i] = volume[j]
    BY <1>1, RotationKeepsNewest DEF Rotate
  <1>5. BackupTypeOK'
    BY <1>2, <1>3, <1>4 DEF BackInv, BackupTypeOK
  <1>6. Papers'
    BY <1>2, <1>3, <1>4 DEF BackInv, Papers
  <1>7. Course'
    BY <1>1, <1>2, <1>3, <1>4 DEF Course, Newest
  <1>8. Restored' /\ LastIsBest'
    BY <1>1, <1>2, <1>3 DEF BackInv, Restored, LastIsBest, VerifiedIsTrue
  <1> QED BY <1>5, <1>6, <1>7, <1>8 DEF BackInv

LEMMA SucceedStep ==
  ASSUME BackInv, Succeed
  PROVE  BackInv'
  <1>1. /\ job.pc = "rotated" /\ volume # <<>> /\ Newest.manifest = job.release
        /\ job' \in Job /\ job'.pc = "idle" /\ job'.release = job.release
    BY JobMoves DEF Succeed, Working, BackInv, Course, Pcs
  <1>2. /\ receipt' \in [outcome : {"none", "started", "success", "failure"}, age : Nat]
        /\ receipt'.outcome = "success"
    BY ReceiptTyped DEF Succeed
  <1>3. UNCHANGED <<volume, target, cert, jobs>> /\ Version' = Version
    BY VersionStays DEF Succeed, startupVars
  <1>4. BackupTypeOK' /\ Papers' /\ Course' /\ Restored'
    BY <1>1, <1>2, <1>3
    DEF BackInv, BackupTypeOK, Papers, Course, Restored, VerifiedIsTrue, Backing
  <1>5. LastIsBest'
    <2>1. job.release \in Nat
      BY JobFields DEF BackInv
    <2> QED BY <1>1, <1>2, <1>3, <2>1 DEF BackInv, Papers, LastIsBest, Newest
  <1> QED BY <1>4, <1>5 DEF BackInv

LEMMA FailStep ==
  ASSUME BackInv, Fail
  PROVE  BackInv'
  <1>1. /\ job.pc = "failing" /\ receipt.outcome = "started"
        /\ job' \in Job /\ job'.pc = "idle" /\ job'.release = job.release
    BY JobMoves DEF Fail, Working, BackInv, Course, Backing, Pcs
  <1>2. /\ receipt' \in [outcome : {"none", "started", "success", "failure"}, age : Nat]
        /\ receipt'.outcome # "success"
    <2>1. CASE down
      BY <1>1, <2>1 DEF Fail, BackInv, BackupTypeOK
    <2>2. CASE ~down
      BY <2>2, ReceiptTyped DEF Fail
    <2> QED BY <2>1, <2>2
  <1>3. UNCHANGED <<volume, target, cert, jobs>> /\ Version' = Version
    BY VersionStays DEF Fail, startupVars
  <1> QED
    BY <1>1, <1>2, <1>3
    DEF BackInv, BackupTypeOK, Papers, Course, Restored, VerifiedIsTrue, LastIsBest, Backing, Newest

LEMMA NoTargetTyped ==
  /\ NoTarget \in [dump : 0..Latest, whole : BOOLEAN, verified : BOOLEAN]
  /\ ~NoTarget.verified
  BY StartupAssumption DEF NoTarget

LEMMA BeginRestoreStep ==
  ASSUME BackInv, BeginRestore
  PROVE  BackInv'
  <1>1. PICK i \in DOMAIN volume :
           Restorable(volume[i]) /\ job' = [job EXCEPT !.pc = "loading", !.item = volume[i]]
    BY DEF BeginRestore
  <1>2. volume[i] \in Artifacts /\ volume[i].manifest = job.release
    BY <1>1, JobFields DEF BackInv, Restorable
  <1>3. /\ job' \in Job /\ job'.pc = "loading" /\ job'.release = job.release /\ job'.item = volume[i]
    BY <1>1, <1>2 DEF BackInv, BackupTypeOK, Job
  <1>4. /\ UNCHANGED <<volume, receipt, cert>> /\ Version' = Version /\ target' = NoTarget
        /\ jobs' \in Nat
    BY VersionStays DEF BeginRestore, startupVars, BackInv, BackupTypeOK
  <1>5. BackupTypeOK' /\ Papers' /\ Course' /\ Restored'
    BY <1>2, <1>3, <1>4, NoTargetTyped
    DEF BackInv, BackupTypeOK, Papers, Course, Restored, VerifiedIsTrue, Backing
  <1>6. LastIsBest'
    BY <1>2, <1>3, <1>4, NoTargetTyped DEF BackInv, LastIsBest, Newest
  <1> QED BY <1>5, <1>6 DEF BackInv

LEMMA LoadStep ==
  ASSUME BackInv, Load
  PROVE  BackInv'
  <1>1. /\ job.pc = "loading" /\ UNCHANGED <<volume, receipt, cert, jobs>> /\ Version' = Version
    BY VersionStays DEF Load, Working
  <1>2. job.item.dump \in 0..Latest
    BY JobFields DEF BackInv
  <1>3. CASE Proceed("loaded") /\ target' = [NoTarget EXCEPT !.dump = job.item.dump, !.whole = TRUE]
    <2>1. /\ job' \in Job /\ job'.pc = "loaded" /\ job'.release = job.release /\ job'.item = job.item
      BY <1>3, JobMoves DEF BackInv, Pcs
    <2>2. /\ target' \in [dump : 0..Latest, whole : BOOLEAN, verified : BOOLEAN]
          /\ target'.dump = job.item.dump /\ target'.whole /\ ~target'.verified
      BY <1>2, <1>3 DEF NoTarget
    <2> QED
      BY <1>1, <2>1, <2>2
      DEF BackInv, BackupTypeOK, Papers, Course, Restored, VerifiedIsTrue, LastIsBest, Backing, Newest
  <1>4. CASE Idle /\ target' = [NoTarget EXCEPT !.dump = job.item.dump]
    <2>1. /\ job' \in Job /\ job'.pc = "idle" /\ job'.release = job.release
      BY <1>4, JobMoves DEF BackInv, Pcs
    <2>2. /\ target' \in [dump : 0..Latest, whole : BOOLEAN, verified : BOOLEAN]
          /\ ~target'.verified
      BY <1>2, <1>4 DEF NoTarget
    <2> QED
      BY <1>1, <2>1, <2>2
      DEF BackInv, BackupTypeOK, Papers, Course, Restored, VerifiedIsTrue, LastIsBest, Backing, Newest
  <1> QED BY <1>3, <1>4 DEF Load

LEMMA VerifyStep ==
  ASSUME BackInv, Verify
  PROVE  BackInv'
  <1>1. /\ job.pc = "loaded" /\ UNCHANGED <<volume, receipt, cert, jobs>> /\ Version' = Version
    BY VersionStays DEF Verify, Working, startupVars
  <1>2. /\ job' \in Job /\ job'.pc = "idle" /\ job'.release = job.release
    BY JobMoves DEF Verify, BackInv, Pcs
  <1> DEFINE ok == Matches(target.dump, job.item.manifest)
  <1>3. target' = [target EXCEPT !.verified = ok]
        /\ target \in [dump : 0..Latest, whole : BOOLEAN, verified : BOOLEAN]
    BY DEF Verify, BackInv, BackupTypeOK
  <1>4. ok \in BOOLEAN /\ (ok => target.dump = job.release)
    BY DEF Matches
  <1> HIDE DEF ok
  <1>5. /\ target' \in [dump : 0..Latest, whole : BOOLEAN, verified : BOOLEAN]
        /\ target'.dump = target.dump /\ target'.whole = target.whole /\ target'.verified = ok
    BY <1>3, <1>4
  <1>6. BackupTypeOK' /\ Papers' /\ Course'
    BY <1>1, <1>2, <1>5 DEF BackInv, BackupTypeOK, Papers, Course, Backing
  <1>7. Restored' /\ LastIsBest'
    BY <1>1, <1>2, <1>4, <1>5 DEF BackInv, Restored, VerifiedIsTrue, LastIsBest, Newest
  <1> QED BY <1>6, <1>7 DEF BackInv

LEMMA CertifyStep ==
  ASSUME BackInv, Certify
  PROVE  BackInv'
  <1>1. /\ job.pc = "idle" /\ target.verified /\ UNCHANGED <<job, volume, receipt, jobs>>
        /\ Version' = Version /\ target' = NoTarget
    BY VersionStays DEF Certify, Working, startupVars
  <1>2. cert' = [release |-> job.release, age |-> 0]
    BY DEF Certify
  <1>3. /\ cert' \in [release : 0..Latest, age : Nat] /\ cert'.release = job.release
        /\ job.release \in Nat
    BY <1>2, JobFields, StartupAssumption DEF BackInv, Versions
  <1>4. BackupTypeOK' /\ Papers' /\ Course' /\ Restored'
    BY <1>1, <1>3, NoTargetTyped
    DEF BackInv, BackupTypeOK, Papers, Course, Restored, VerifiedIsTrue, Newest, Backing
  <1>5. LastIsBest'
    BY <1>1, <1>3, NoTargetTyped DEF BackInv, LastIsBest, Newest
  <1> QED BY <1>4, <1>5 DEF BackInv

LEMMA DeployBackupStep ==
  ASSUME BackInv, DeployBackup
  PROVE  BackInv'
  <1> DEFINE n == job.release + 1
  <1>1. job \in Job /\ job.release \in Versions /\ job.release \in Nat /\ n \in Versions
    BY JobFields, StartupAssumption DEF DeployBackup, BackInv, BackupTypeOK, Versions
  <1>2. job' = [job EXCEPT !.release = n] /\ job.pc = "idle"
    BY DEF DeployBackup, Working
  <1>3. job.release <= n /\ n \in Nat
    BY <1>1
  <1> HIDE DEF n
  <1>4. /\ job' \in Job /\ job'.pc = "idle" /\ job'.release = n
    BY <1>1, <1>2 DEF Job
  <1>5. /\ UNCHANGED <<volume, receipt, cert, jobs>> /\ Version' = Version /\ target' = NoTarget
    BY VersionStays DEF DeployBackup, startupVars
  <1>6. BackupTypeOK' /\ Course' /\ Restored'
    BY <1>4, <1>5, NoTargetTyped
    DEF BackInv, BackupTypeOK, Course, Restored, VerifiedIsTrue, Newest, Backing
  <1>7. /\ cert.release \in 0..Latest /\ \A i \in DOMAIN volume : volume[i].manifest \in 0..Latest
    BY JobFields DEF BackInv, BackupTypeOK
  <1>8. Papers'
    BY <1>1, <1>3, <1>4, <1>5, <1>7, StartupAssumption DEF BackInv, Papers
  <1>9. LastIsBest'
    BY <1>1, <1>2, <1>3, <1>4, <1>5, <1>7, NoTargetTyped, StartupAssumption
    DEF BackInv, LastIsBest, Newest
  <1> QED BY <1>6, <1>8, <1>9 DEF BackInv

LEMMA TickStep ==
  ASSUME BackInv, Tick
  PROVE  BackInv'
  <1>1. UNCHANGED <<job, volume, target, jobs>> /\ Version' = Version
    BY VersionStays DEF Tick, startupVars
  <1>2. /\ receipt \in [outcome : {"none", "started", "success", "failure"}, age : Nat]
        /\ cert \in [release : 0..Latest, age : Nat]
    BY DEF BackInv, BackupTypeOK
  <1>3. /\ receipt' \in [outcome : {"none", "started", "success", "failure"}, age : Nat]
        /\ receipt'.outcome = receipt.outcome
        /\ cert' \in [release : 0..Latest, age : Nat] /\ cert'.release = cert.release
    BY <1>2, BackupAssumption DEF Tick, Older
  <1> QED
    BY <1>1, <1>3
    DEF BackInv, BackupTypeOK, Papers, Course, Restored, VerifiedIsTrue, LastIsBest, Newest

LEMMA BackupStarts ==
  ASSUME NEW budget \in Nat, BackupInit(budget)
  PROVE  BackInv
  <1>1. NoArtifact \in Artifacts /\ 1 \in Versions
    BY StartupAssumption DEF NoArtifact, Artifacts, Versions
  <1>2. /\ job = [pc |-> "idle", release |-> 1, item |-> NoArtifact]
        /\ volume = <<>> /\ receipt = [outcome |-> "none", age |-> 0]
        /\ target = NoTarget /\ cert = [release |-> 0, age |-> 0] /\ jobs = budget
    BY DEF BackupInit
  <1>3. job \in Job /\ job.pc = "idle" /\ job.release = 1
    BY <1>1, <1>2 DEF Job
  <1>4. BackupTypeOK
    BY <1>2, <1>3, NoTargetTyped, StartupAssumption DEF BackupTypeOK
  <1>5. DOMAIN volume = {}
    BY <1>2
  <1>6. Papers /\ Course /\ Restored /\ LastIsBest
    BY <1>2, <1>3, <1>5, NoTargetTyped
    DEF Papers, Course, Restored, VerifiedIsTrue, LastIsBest, Backing
  <1> QED BY <1>4, <1>6 DEF BackInv

LEMMA BackupSteps ==
  ASSUME BackInv, Version \in 0..Latest, BackupNext
  PROVE  BackInv'
  BY StartBackupStep, InspectStep, DumpStep, StoreStep, DescribeStep, RotateStep, SucceedStep,
     BreakStep, FailStep, BeginRestoreStep, LoadStep, VerifyStep, CertifyStep, CrashJobStep,
     DeployBackupStep, TickStep
  DEF BackupNext

\* The backup reads the database and the bound of the troubles only.
LEMMA BackupIsApart ==
  ASSUME StartInv, BackupNext
  PROVE  StartInv'
  <1>1. UNCHANGED <<db, lock, starts, files, down>> /\ troubles' \in Nat
    <2>1. troubles \in Nat
      BY DEF StartInv, StartupTypeOK
    <2>2. CASE UNCHANGED startupVars
      BY <2>1, <2>2 DEF startupVars
    <2>3. CASE Break \/ Load \/ CrashJob
      BY <2>1, <2>3 DEF Break, Load, CrashJob, Trouble
    <2> QED
      BY <2>2, <2>3
      DEF BackupNext, StartBackup, Inspect, Dump, Store, Describe, Rotate, Succeed, Fail,
          BeginRestore, Verify, Certify, DeployBackup, Tick
  <1> QED BY <1>1, Stays

-----------------------------------------------------------------------------
(* The deployments *)

Inv == StartInv /\ BackInv

LEMMA InvStarts == Init => Inv
  <1> SUFFICES ASSUME Init PROVE Inv
    OBVIOUS
  <1>1. CASE StartupInit(Replicas, MaxTroubles) /\ BackupInit(0)
    BY <1>1, StartupStarts, BackupStarts, DeploymentsAssumption DEF Inv
  <1>2. CASE StartupInit({Backed}, MaxTroubles - 1) /\ BackupInit(MaxJobs)
    <2>1. {Backed} \in SUBSET Replicas /\ MaxTroubles - 1 \in Nat /\ MaxJobs \in Nat
      BY DeploymentsAssumption
    <2> QED BY <1>2, <2>1, StartupStarts, BackupStarts DEF Inv
  <1> QED BY <1>1, <1>2 DEF Init

LEMMA InvSteps == Inv /\ [Next]_vars => Inv'
  <1> SUFFICES ASSUME Inv, [Next]_vars PROVE Inv'
    OBVIOUS
  <1>1. CASE (StartupNext \/ UNCHANGED startupVars) /\ UNCHANGED backupVars
    <2>1. StartInv'
      BY <1>1, StartupSteps DEF Inv
    <2>2. db.ledger \subseteq db'.ledger
      BY <1>1, LedgerGrows DEF Inv
    <2>3. Version \in 0..Latest /\ Version' \in 0..Latest /\ Version <= Version'
      BY <2>1, <2>2, VersionGrows DEF Inv, StartInv
    <2> QED BY <1>1, <2>1, <2>3, BackupWaits DEF Inv
  <1>2. CASE BackupNext
    <2>1. StartInv'
      BY <1>2, BackupIsApart DEF Inv
    <2>2. Version \in 0..Latest
      BY VersionGrows, VersionIsHighest DEF Inv, StartInv, NoGaps, Version
    <2> QED BY <1>2, <2>1, <2>2, BackupSteps DEF Inv
  <1> QED BY <1>1, <1>2 DEF Next, vars

LEMMA InvHolds == Spec => []Inv
  BY InvStarts, InvSteps, PTL DEF Spec

\* Types: the fields of every start, artifact, job and receipt, for any fleet.
THEOREM TypeCorrect == Spec => [](StartupTypeOK /\ BackupTypeOK)
  <1>1. Inv => StartupTypeOK /\ BackupTypeOK
    BY DEF Inv, StartInv, BackInv
  <1> QED BY <1>1, InvHolds, PTL

\* A process that serves from PostgreSQL finds every table and ledger row of its
\* release, for any number of replicas, releases, crashes, lost locks and commits,
\* unless an unlock that failed unseen took its own migrations back.
THEOREM SchemaIsServed == Spec => []ServesItsSchema
  <1>1. Inv => ServesItsSchema
    BY DEF Inv, StartInv, AllSound, Sound, ServesItsSchema, At
  <1> QED BY <1>1, InvHolds, PTL

\* A restore that reports "verified" loaded the whole of an artifact of its release's
\* schema, whatever migrated or stopped half way before.
THEOREM VerifiedTells == Spec => []VerifiedIsTrue
  <1>1. Inv => VerifiedIsTrue
    BY DEF Inv, BackInv, Restored
  <1> QED BY <1>1, InvHolds, PTL

\* When the launch report says the backup is ready, the newest artifact restores into
\* the schema the database has.
THEOREM ReadyTells == Spec => []ReadyMeansRestorable
  <1>1. Inv => ReadyMeansRestorable
    <2> SUFFICES ASSUME Inv, NEW r \in DOMAIN starts, Ready(r), starts[r].release = Version
                 PROVE  /\ volume # <<>>
                        /\ Newest = [manifest |-> Version, dump |-> Version]
      BY DEF ReadyMeansRestorable, Newest
    <2>1. cert.release = Version /\ receipt.outcome = "success"
      BY DEF Ready, Certified
    <2>2. volume # <<>> /\ cert.release <= Newest.manifest
      BY <2>1 DEF Inv, BackInv, LastIsBest
    <2>3. Len(volume) \in DOMAIN volume
      BY <2>2 DEF Inv, BackInv, BackupTypeOK
    <2>4. /\ Newest \in Artifacts /\ Newest.manifest \in 0..Latest /\ Newest.dump \in 0..Latest
          /\ Newest.manifest <= Newest.dump /\ Newest.dump <= Version
      BY <2>3, JobFields DEF Inv, BackInv, Papers, Newest
    <2>5. Version \in Nat
      BY <2>1 DEF Inv, BackInv, BackupTypeOK
    <2>6. Newest.manifest = Version /\ Newest.dump = Version
      BY <2>1, <2>2, <2>4, <2>5, StartupAssumption
    <2>7. Newest = [manifest |-> Newest.manifest, dump |-> Newest.dump]
      BY <2>4 DEF Artifacts
    <2> QED BY <2>2, <2>6, <2>7
  <1> QED BY <1>1, InvHolds, PTL

=============================================================================
