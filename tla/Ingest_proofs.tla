---------------------------- MODULE Ingest_proofs ----------------------------
(***************************************************************************)
(* The candidate table keeps one row per account and a stable identity for *)
(* any set of leads, workers, channels and pages.                          *)
(*                                                                         *)
(* The argument: every account in the table, in the resolver cache or in a *)
(* worker's hands is WellFormed: without a platform ID it is a page.  So a *)
(* row that has an ID shares its key only with accounts of that ID, and    *)
(* the one row Upsert reuses by URL has none.                              *)
(***************************************************************************)
EXTENDS Ingest, TLAPS

WellFormed(a) == a \in Account /\ (a.pid = NoPid => a.url.kind = "page")

RowsWellFormed == \A i \in DOMAIN db : WellFormed(db[i].acct)

CacheWellFormed == \A u \in DOMAIN cache : WellFormed(cache[u])

\* A task on its way to YouTube still carries what Normalize made of the lead.
TasksWellFormed ==
    \A w \in Worker : work[w] # Idle =>
        /\ WellFormed(work[w].acct)
        /\ work[w].pc \in {"look", "call"} =>
             /\ NeedsResolution(work[w].acct)
             /\ work[w].acct = Normalized(work[w].acct.url)

IngestInv ==
    /\ TypeOK
    /\ RowsWellFormed /\ CacheWellFormed /\ TasksWellFormed
    /\ OneCandidatePerKey

------------------------------------------------------------------------------
(* Accounts                                                                  *)

LEMMA NormalizedWellFormed ==
    ASSUME NEW u \in Url PROVE WellFormed(Normalized(u)) /\ Normalized(u).url = u
<1>1. CASE u.kind = "page"
  BY <1>1, NoPidAssumption
  DEF Url, Normalized, PageAccount, PageUrl, WellFormed, Account
<1>2. CASE u.kind = "channel"
  BY <1>2, NoPidAssumption
  DEF Url, Normalized, ChannelAccount, ChannelUrl, WellFormed, Account
<1>3. CASE u.kind = "watch"
  BY <1>3, NoPidAssumption
  DEF Url, Normalized, VideoAccount, WatchUrl, WellFormed, Account
<1> QED BY <1>1, <1>2, <1>3 DEF Url

\* The account of a URL is its own: an account without an ID is a page's.
LEMMA LeadWellFormed == ASSUME NEW a \in Lead PROVE WellFormed(a)
<1>1. a \in Account /\ a.url \in Url
  BY LeadAssumption DEF Account
<1>2. CASE NeedsResolution(a)
  BY <1>1, <1>2, NormalizedWellFormed, LeadAssumption
<1>3. CASE ~NeedsResolution(a)
  BY <1>1, <1>3 DEF NeedsResolution, WellFormed
<1> QED BY <1>2, <1>3

\* What YouTube answers has an ID.
LEMMA ResolvedWellFormed ==
    ASSUME TypeOK, NEW a, NeedsResolution(a), a \in Account, a = Normalized(a.url)
    PROVE  WellFormed(Resolved(a))
<1>1. ASSUME NEW ch \in Channel PROVE WellFormed(ChannelAccount(ch))
  BY <1>1, NoPidAssumption DEF ChannelAccount, ChannelUrl, WellFormed, Account, Url
<1>2. a.url \in Url
  BY DEF Account
<1>3. CASE a.url.kind = "page"
  <2>1. a.platform = "youtube" /\ a.url.of \in Page
    BY <1>2, <1>3 DEF Normalized, PageAccount, Url
  <2>2. owner[a.url.of] \in Channel
    BY <2>1 DEF TypeOK
  <2> QED BY <1>1, <2>1, <2>2 DEF Resolved
<1>4. CASE a.url.kind = "watch"
  <2>1. a.platform = "youtube_video" /\ a.pid \in Channel
    BY <1>2, <1>4 DEF Normalized, VideoAccount, Url
  <2> QED BY <1>1, <2>1 DEF Resolved
<1>5. CASE a.url.kind = "channel"
  <2>1. a.platform = "youtube" /\ a.pid \in Channel
    BY <1>2, <1>5 DEF Normalized, ChannelAccount, Url
  <2> QED BY <2>1, NoPidAssumption DEF NeedsResolution
<1> QED BY <1>2, <1>3, <1>4, <1>5 DEF Url

\* The two forms of a key never meet, and an ID's key tells its platform and ID.
LEMMA KeyForms ==
    ASSUME NEW p, NEW x, NEW q, NEW y
    PROVE  /\ IdKey(p, x) # UrlKey(q, y)
           /\ IdKey(p, x) = IdKey(q, y) => p = q /\ x = y
BY DEF IdKey, UrlKey

\* An account with an ID shares its key only with accounts of the same ID.
LEMMA KeyOfId ==
    ASSUME NEW a, NEW b, a.pid # NoPid, WellFormed(b), Key(a) = Key(b)
    PROVE  b.platform = a.platform /\ b.pid = a.pid
<1>1. Key(a) = IdKey(a.platform, a.pid)
  BY DEF Key
<1>2. b.pid # NoPid
  <2> SUFFICES ASSUME b.pid = NoPid PROVE FALSE
    OBVIOUS
  <2>1. b.url \in Url /\ b.url.kind = "page"
    BY DEF WellFormed, Account
  <2>2. Normalized(b.url).pid = NoPid
    BY <2>1 DEF Normalized, PageAccount
  <2>3. Key(b) = UrlKey(Normalized(b.url).platform, Normalized(b.url).url)
    BY <2>2 DEF Key
  <2>4. IdKey(a.platform, a.pid)
          = UrlKey(Normalized(b.url).platform, Normalized(b.url).url)
    BY <1>1, <2>3
  <2> QED BY <2>4, KeyForms
<1>3. Key(b) = IdKey(b.platform, b.pid)
  BY <1>2 DEF Key
<1>4. IdKey(a.platform, a.pid) = IdKey(b.platform, b.pid)
  BY <1>1, <1>3
<1> QED BY <1>4, KeyForms

\* Two unresolved rows of one URL have one key.
LEMMA KeyOfUnresolved ==
    ASSUME NEW a, NEW b, a.pid = NoPid, b.pid = NoPid, a.url = b.url
    PROVE  Key(a) = Key(b)
BY DEF Key

------------------------------------------------------------------------------
(* Store.Upsert                                                              *)

\* The row that is written: one of the matching ones, or a new one.
LEMMA UpsertedRow ==
    ASSUME NEW a, NEW input, NEW fresh
    PROVE  \/ /\ Matching(db, a, input) # {}
              /\ UpsertedId(db, a, input, fresh) \in Matching(db, a, input)
              /\ UpsertedId(db, a, input, fresh) \in DOMAIN db
           \/ /\ Matching(db, a, input) = {}
              /\ UpsertedId(db, a, input, fresh) = fresh
<1>1. Matching(db, a, input) \subseteq DOMAIN db
  BY DEF Matching, SameKey, Unresolved
<1> QED BY <1>1 DEF UpsertedId

\* Store by a worker, with the new ID it drew.
LEMMA StoreEffect ==
    ASSUME TypeOK, NEW w \in Worker, Store(w)
    PROVE  \E fresh \in CandidateId \ DOMAIN db, now \in Time :
             /\ db' = Upsert(db, work[w].acct, work[w].input, fresh, now)
             /\ prov' = prov \cup {<<UpsertedId(db, work[w].acct, work[w].input, fresh),
                                     work[w].src>>}
             /\ work[w] \in Task
<1> DEFINE fresh == CHOOSE i \in CandidateId : i \notin DOMAIN db
<1>1. fresh \in CandidateId \ DOMAIN db
  BY DEF Store, StoreAt, TypeOK
<1>2. work[w] \in Task
  BY DEF Store, StoreAt, TypeOK, Idle
<1>3. PICK now \in 0..clock : StoreAt(w, now)
  BY DEF Store
<1>4. now \in Time
  BY BoundAssumption DEF TypeOK, Time
<1> QED BY <1>1, <1>2, <1>3, <1>4 DEF StoreAt, Sighting

------------------------------------------------------------------------------
(* The steps                                                                 *)

\* A worker's task stays a task when it goes on with a well-formed account.
LEMMA StoringTask ==
    ASSUME TypeOK, TasksWellFormed, NEW w \in Worker, work[w] \in Task,
           NEW a, WellFormed(a), Storing(w, a)
    PROVE  work' \in [Worker -> {Idle} \cup Task] /\ TasksWellFormed'
<1>1. [work[w] EXCEPT !.pc = "store", !.acct = a] \in Task
  BY DEF Task, WellFormed
<1>2. work' = [work EXCEPT ![w] = [work[w] EXCEPT !.pc = "store", !.acct = a]]
  BY DEF Storing
<1>3. ASSUME NEW v \in Worker, v # w PROVE work'[v] = work[v]
  BY <1>2, <1>3 DEF TypeOK
<1>4. work'[w].pc = "store" /\ work'[w].acct = a
  BY <1>1, <1>2 DEF TypeOK, Task
<1> QED BY <1>1, <1>2, <1>3, <1>4 DEF TypeOK, TasksWellFormed, WellFormed

LEMMA TaskOfBusy ==
    ASSUME TypeOK, NEW w \in Worker, work[w].pc \in {"look", "call", "memo", "store"}
    PROVE  work[w] \in Task /\ work[w] # Idle
BY DEF TypeOK, Idle

\* The tasks, the cache and the accounts in the table keep their types.
LEMMA TypesStep ==
    ASSUME IngestInv, Next
    PROVE  TypeOK' /\ RowsWellFormed' /\ CacheWellFormed' /\ TasksWellFormed'
<1> USE DEF IngestInv
<1>1. ASSUME NEW w \in Worker, NEW lead \in Lead, NEW src \in Source, Take(w, lead, src)
      PROVE  TypeOK' /\ RowsWellFormed' /\ CacheWellFormed' /\ TasksWellFormed'
  <2> DEFINE task == [pc |-> IF NeedsResolution(lead) THEN "look" ELSE "store",
                      acct |-> lead, input |-> lead.url, src |-> src]
  <2>1. WellFormed(lead)
    BY LeadWellFormed
  <2>2. task \in Task
    BY <2>1 DEF WellFormed, Account, Task
  <2>3. work' = [work EXCEPT ![w] = task]
    BY <1>1 DEF Take
  <2>4. TasksWellFormed'
    BY <2>1, <2>3, LeadAssumption DEF TypeOK, TasksWellFormed
  <2> QED BY <1>1, <2>2, <2>3, <2>4 DEF Take, TypeOK, RowsWellFormed, CacheWellFormed
<1>2. ASSUME NEW w \in Worker, Look(w) \/ NoAnswer(w) \/ Memo(w)
      PROVE  work' \in [Worker -> {Idle} \cup Task] /\ TasksWellFormed'
  <2>1. work[w] \in Task /\ work[w] # Idle
    BY <1>2, TaskOfBusy DEF Look, NoAnswer, Memo
  <2>2. WellFormed(work[w].acct) /\ WellFormed(Normalized(work[w].input))
    BY <2>1, NormalizedWellFormed DEF TasksWellFormed, Task
  <2>3. CASE \E a : WellFormed(a) /\ Storing(w, a)
    BY <2>1, <2>3, StoringTask
  <2>4. CASE work[w].pc = "look" /\ work' = [work EXCEPT ![w].pc = "call"]
    <3>1. [work[w] EXCEPT !.pc = "call"] \in Task
      BY <2>1 DEF Task
    <3>2. work'[w].acct = work[w].acct
      BY <2>1, <2>4 DEF TypeOK, Task
    <3>3. ASSUME NEW v \in Worker, v # w PROVE work'[v] = work[v]
      BY <2>4, <3>3 DEF TypeOK
    <3>4. TasksWellFormed'
      BY <2>1, <2>4, <3>2, <3>3 DEF TasksWellFormed, WellFormed, NeedsResolution
    <3> QED BY <2>4, <3>1, <3>4 DEF TypeOK
  <2>5. CASE Look(w)
    BY <2>2, <2>3, <2>4, <2>5 DEF Look, CacheWellFormed
  <2> QED BY <1>2, <2>2, <2>3, <2>5 DEF NoAnswer, Memo
<1>3. ASSUME NEW w \in Worker, Look(w) \/ NoAnswer(w)
      PROVE  TypeOK' /\ RowsWellFormed' /\ CacheWellFormed' /\ TasksWellFormed'
  BY <1>2, <1>3 DEF Look, NoAnswer, TypeOK, RowsWellFormed, CacheWellFormed
<1>4. ASSUME NEW w \in Worker, Answer(w)
      PROVE  TypeOK' /\ RowsWellFormed' /\ CacheWellFormed' /\ TasksWellFormed'
  <2> DEFINE a == Resolved(work[w].acct)
  <2>1. work[w] \in Task /\ work[w] # Idle
    BY <1>4, TaskOfBusy DEF Answer
  <2>2. WellFormed(a)
    BY <1>4, <2>1, ResolvedWellFormed DEF Answer, TasksWellFormed, WellFormed
  <2>3. [work[w] EXCEPT !.pc = "memo", !.acct = a] \in Task
    BY <2>1, <2>2 DEF Task, WellFormed
  <2>4. work' = [work EXCEPT ![w] = [work[w] EXCEPT !.pc = "memo", !.acct = a]]
    BY <1>4 DEF Answer
  <2>5. ASSUME NEW v \in Worker, v # w PROVE work'[v] = work[v]
    BY <2>4, <2>5 DEF TypeOK
  <2>6. work'[w].pc = "memo" /\ work'[w].acct = a
    BY <2>1, <2>4 DEF TypeOK, Task
  <2>7. TasksWellFormed'
    BY <2>2, <2>5, <2>6 DEF TasksWellFormed, WellFormed
  <2> QED BY <1>4, <2>3, <2>4, <2>7 DEF Answer, TypeOK, RowsWellFormed, CacheWellFormed
<1>5. ASSUME NEW w \in Worker, Memo(w)
      PROVE  TypeOK' /\ RowsWellFormed' /\ CacheWellFormed' /\ TasksWellFormed'
  <2>1. work[w] \in Task /\ work[w] # Idle
    BY <1>5, TaskOfBusy DEF Memo
  <2>2. WellFormed(work[w].acct) /\ work[w].input \in Url
    BY <2>1 DEF TasksWellFormed, Task
  <2>3. DOMAIN cache' = DOMAIN cache \cup {work[w].input}
    BY <1>5 DEF Memo
  <2>4. \A u \in DOMAIN cache' : cache'[u] = work[w].acct \/ (u \in DOMAIN cache /\ cache'[u] = cache[u])
    BY <1>5 DEF Memo
  <2>5. CacheWellFormed' /\ DOMAIN cache' \subseteq Url /\ \A u \in DOMAIN cache' : cache'[u] \in Account
    BY <2>2, <2>3, <2>4 DEF CacheWellFormed, WellFormed, TypeOK
  <2> QED BY <1>2, <1>5, <2>5 DEF Memo, TypeOK, RowsWellFormed
<1>6. ASSUME NEW w \in Worker, Store(w)
      PROVE  TypeOK' /\ RowsWellFormed' /\ CacheWellFormed' /\ TasksWellFormed'
  <2>1. PICK fresh \in CandidateId \ DOMAIN db, now \in Time :
             /\ db' = Upsert(db, work[w].acct, work[w].input, fresh, now)
             /\ prov' = prov \cup {<<UpsertedId(db, work[w].acct, work[w].input, fresh),
                                     work[w].src>>}
             /\ work[w] \in Task
    BY <1>6, StoreEffect
  <2> DEFINE t == work[w]
             id == UpsertedId(db, t.acct, t.input, fresh)
  <2>2. WellFormed(t.acct) /\ t.input \in Url /\ t.src \in Source
    BY <1>6, <2>1, TaskOfBusy DEF Store, StoreAt, TasksWellFormed, Task
  <2>3. id \in CandidateId /\ (Matching(db, t.acct, t.input) # {} => id \in DOMAIN db)
    BY <2>1, UpsertedRow DEF TypeOK
  <2>4. /\ DOMAIN db' = DOMAIN db \cup {id}
        /\ \A i \in DOMAIN db : i # id => db'[i] = db[i]
        /\ db'[id].acct = t.acct
        /\ db'[id] = [acct |-> t.acct, input |-> t.input,
                      first |-> IF Matching(db, t.acct, t.input) # {} THEN db[id].first ELSE now]
    BY <2>1 DEF Upsert
  <2>5. db'[id] \in Candidate
    <3>1. (IF Matching(db, t.acct, t.input) # {} THEN db[id].first ELSE now) \in Time
      BY <2>3 DEF TypeOK, Candidate
    <3> QED BY <2>2, <2>4, <3>1 DEF Candidate, WellFormed
  <2>6. RowsWellFormed'
    BY <2>2, <2>4 DEF RowsWellFormed, WellFormed
  <2>7. work' = [work EXCEPT ![w] = Idle] /\ UNCHANGED <<cache, owner, clock, moves>>
    BY <1>6 DEF Store, StoreAt
  <2>8. TasksWellFormed'
    <3>1. \A v \in Worker : work'[v] = Idle \/ work'[v] = work[v]
      BY <2>7 DEF TypeOK
    <3> QED BY <3>1 DEF TasksWellFormed, WellFormed
  <2>9. prov' \subseteq (DOMAIN db') \X Source
    BY <2>1, <2>2, <2>4 DEF TypeOK
  <2> QED BY <2>3, <2>4, <2>5, <2>6, <2>7, <2>8, <2>9 DEF TypeOK, CacheWellFormed
<1>7. ASSUME NEW w \in Worker, StoreFails(w)
      PROVE  TypeOK' /\ RowsWellFormed' /\ CacheWellFormed' /\ TasksWellFormed'
  BY <1>7 DEF StoreFails, TypeOK, RowsWellFormed, CacheWellFormed, TasksWellFormed, WellFormed
<1>8. CASE Tick \/ \E proc \in Process : Restart(proc)
  BY <1>8, BoundAssumption
  DEF Restart, Tick, TypeOK, Time, Candidate, RowsWellFormed, CacheWellFormed, TasksWellFormed, WellFormed
<1>9. ASSUME NEW u \in Url, Expire(u)
      PROVE  TypeOK' /\ RowsWellFormed' /\ CacheWellFormed' /\ TasksWellFormed'
  BY <1>9 DEF Expire, TypeOK, RowsWellFormed, CacheWellFormed, TasksWellFormed, WellFormed
<1>10. ASSUME NEW p \in Page, NEW ch \in Channel, HandleMoves(p, ch)
       PROVE  TypeOK' /\ RowsWellFormed' /\ CacheWellFormed' /\ TasksWellFormed'
  BY <1>10, BoundAssumption
  DEF HandleMoves, TypeOK, RowsWellFormed, CacheWellFormed, TasksWellFormed, WellFormed
<1> QED BY <1>1, <1>3, <1>4, <1>5, <1>6, <1>7, <1>8, <1>9, <1>10 DEF Next, WorkerStep

\* A step that writes the table is one worker's Store; every other leaves it alone.
LEMMA OnlyStoreWrites ==
    ASSUME Next, db' # db PROVE \E w \in Worker : Store(w)
BY DEF Next, WorkerStep, Take, Look, Storing, Answer, NoAnswer, Memo, StoreFails, Restart,
       Tick, Expire, HandleMoves

\* The row Upsert writes is the only one of its key.
LEMMA KeyStep ==
    ASSUME OneCandidatePerKey, NEW a, NEW input, NEW now, NEW fresh, fresh \notin DOMAIN db,
           db' = Upsert(db, a, input, fresh, now)
    PROVE  OneCandidatePerKey'
<1> DEFINE id == UpsertedId(db, a, input, fresh)
<1>1. /\ DOMAIN db' = DOMAIN db \cup {id}
      /\ \A i \in DOMAIN db : i # id => db'[i] = db[i]
      /\ db'[id].acct = a
  BY DEF Upsert
<1>2. ASSUME NEW i \in DOMAIN db, Key(db[i].acct) = Key(a) PROVE i = id
  <2>1. i \in SameKey(db, a)
    BY <1>2 DEF SameKey
  <2>2. Matching(db, a, input) = SameKey(db, a)
    BY <2>1 DEF Matching
  <2>3. id \in SameKey(db, a)
    BY <2>1, <2>2, UpsertedRow
  <2> QED BY <1>2, <2>3 DEF SameKey, OneCandidatePerKey
<1> QED BY <1>1, <1>2 DEF OneCandidatePerKey

LEMMA IngestStep == ASSUME IngestInv, [Next]_vars PROVE IngestInv'
<1>1. CASE UNCHANGED vars
  BY <1>1 DEF vars, IngestInv, TypeOK, RowsWellFormed, CacheWellFormed, TasksWellFormed,
              OneCandidatePerKey, WellFormed
<1>2. CASE Next
  <2>1. TypeOK' /\ RowsWellFormed' /\ CacheWellFormed' /\ TasksWellFormed'
    BY <1>2, TypesStep
  <2>2. OneCandidatePerKey'
    <3>1. CASE db' = db
      BY <3>1 DEF IngestInv, OneCandidatePerKey
    <3>2. CASE \E w \in Worker : Store(w)
      BY <3>2, StoreEffect, KeyStep DEF IngestInv
    <3> QED BY <1>2, <3>1, <3>2, OnlyStoreWrites
  <2> QED BY <2>1, <2>2 DEF IngestInv
<1> QED BY <1>1, <1>2

LEMMA IngestInit == ASSUME Init PROVE IngestInv
BY BoundAssumption
DEF Init, IngestInv, TypeOK, Time, RowsWellFormed, CacheWellFormed, TasksWellFormed,
    OneCandidatePerKey, Idle

\* Every row stays, with its first_seen and, once it has one, its ID.
RowsKept ==
    \A i \in DOMAIN db :
       /\ i \in DOMAIN db'
       /\ db'[i].first = db[i].first
       /\ db[i].acct.pid # NoPid =>
            /\ db'[i].acct.platform = db[i].acct.platform
            /\ db'[i].acct.pid = db[i].acct.pid

LEMMA KeepingStep == ASSUME IngestInv, Next PROVE RowsKept
<1>1. CASE db' = db
  BY <1>1 DEF RowsKept
<1>2. ASSUME NEW w \in Worker, Store(w) PROVE RowsKept
  <2>1. PICK fresh \in CandidateId \ DOMAIN db, now \in Time :
             /\ db' = Upsert(db, work[w].acct, work[w].input, fresh, now)
             /\ work[w] \in Task
    BY <1>2, StoreEffect DEF IngestInv
  <2> DEFINE t == work[w]
             id == UpsertedId(db, t.acct, t.input, fresh)
  <2>2. /\ DOMAIN db' = DOMAIN db \cup {id}
        /\ \A i \in DOMAIN db : i # id => db'[i] = db[i]
        /\ db'[id].acct = t.acct
        /\ db'[id] = [acct |-> t.acct, input |-> t.input,
                      first |-> IF Matching(db, t.acct, t.input) # {} THEN db[id].first ELSE now]
    BY <2>1 DEF Upsert
  <2>3. ASSUME id \in DOMAIN db
        PROVE  /\ db'[id].first = db[id].first
               /\ db[id].acct.pid # NoPid =>
                    t.acct.platform = db[id].acct.platform /\ t.acct.pid = db[id].acct.pid
    <3>1. id \in Matching(db, t.acct, t.input)
      BY <2>1, <2>3, UpsertedRow
    <3>2. db'[id].first = db[id].first
      BY <2>2, <3>1
    <3>3. CASE id \in SameKey(db, t.acct)
      <4>1. WellFormed(t.acct)
        BY <1>2, <2>1, TaskOfBusy DEF Store, StoreAt, IngestInv, TasksWellFormed
      <4>2. Key(db[id].acct) = Key(t.acct)
        BY <3>3 DEF SameKey
      <4> QED BY <3>2, <4>1, <4>2, KeyOfId
    <3>4. CASE id \in Unresolved(db, t.acct, t.input)
      BY <3>2, <3>4 DEF Unresolved
    <3> QED BY <3>1, <3>3, <3>4 DEF Matching
  <2> QED BY <2>2, <2>3 DEF RowsKept
<1> QED BY <1>1, <1>2, OnlyStoreWrites

THEOREM IngestInvariant == Spec => []IngestInv
BY IngestInit, IngestStep, PTL DEF Spec

------------------------------------------------------------------------------
(* The theorems                                                              *)

\* The table, the cache and the workers' tasks have their types in every state.
THEOREM TypeCorrect == Spec => []TypeOK
<1>1. IngestInv => TypeOK
  BY DEF IngestInv
<1> QED BY IngestInvariant, <1>1, PTL

\* Store.Upsert never makes two candidates of one account key, in whatever order the
\* workers resolve, memoise and store.
THEOREM KeysUnique == Spec => []OneCandidatePerKey
<1>1. IngestInv => OneCandidatePerKey
  BY DEF IngestInv
<1> QED BY IngestInvariant, <1>1, PTL

\* A candidate is never dropped, keeps its first_seen, and keeps the channel it
\* stands for, although Upsert replaces its account and handles move.
THEOREM IdentityStable == Spec => StableIdentity
<1>1. IngestInv /\ [Next]_vars => [RowsKept]_vars
  BY KeepingStep
<1> QED BY IngestInvariant, <1>1, PTL DEF Spec, StableIdentity, RowsKept

\* When an observation brings a page's channel for the first time, the page's
\* unresolved candidate is the row that is reused: it has no twin.
THEOREM NoTwin == Spec => UpgradeLeavesNoTwin
<1> DEFINE Upgrading(w) == /\ work[w].pc = "store" /\ db' # db
                           /\ work'[w] = Idle
                           /\ work[w].acct.pid # NoPid
                           /\ SameKey(db, work[w].acct) = {}
           NoneLeft(w) == Unresolved(db', work[w].acct, work[w].input) = {}
<1>1. IngestInv /\ [Next]_vars => [\A w \in Worker : Upgrading(w) => NoneLeft(w)]_vars
  <2> SUFFICES ASSUME IngestInv, Next, NEW w \in Worker, Upgrading(w) PROVE NoneLeft(w)
    OBVIOUS
  <2>1. PICK v \in Worker : Store(v)
    BY OnlyStoreWrites
  <2>2. v = w
    BY <2>1 DEF Store, StoreAt, IngestInv, TypeOK, Idle
  <2>3. PICK fresh \in CandidateId \ DOMAIN db, now \in Time :
             db' = Upsert(db, work[w].acct, work[w].input, fresh, now)
    BY <2>1, <2>2, StoreEffect DEF IngestInv
  <2> DEFINE t == work[w]
             id == UpsertedId(db, t.acct, t.input, fresh)
  <2>4. /\ DOMAIN db' = DOMAIN db \cup {id}
        /\ \A i \in DOMAIN db : i # id => db'[i] = db[i]
        /\ db'[id].acct = t.acct
    BY <2>3 DEF Upsert
  <2>5. Matching(db, t.acct, t.input) = Unresolved(db, t.acct, t.input)
    BY DEF Matching
  <2>6. ASSUME NEW i \in Unresolved(db, t.acct, t.input) PROVE i = id
    <3>1. id \in Unresolved(db, t.acct, t.input)
      BY <2>5, <2>6, UpsertedRow
    <3>2. Key(db[i].acct) = Key(db[id].acct)
      BY <2>6, <3>1, KeyOfUnresolved DEF Unresolved
    <3> QED BY <2>6, <3>1, <3>2 DEF IngestInv, OneCandidatePerKey, Unresolved
  <2>7. ASSUME NEW i \in Unresolved(db', t.acct, t.input) PROVE FALSE
    <3>1. i \in DOMAIN db' /\ db'[i].acct.platform = t.acct.platform
          /\ db'[i].acct.pid = NoPid /\ db'[i].acct.url = t.input
      BY <2>7 DEF Unresolved
    <3>2. i # id
      BY <2>4, <3>1
    <3>3. i \in Unresolved(db, t.acct, t.input)
      BY <2>4, <3>1, <3>2 DEF Unresolved
    <3> QED BY <2>6, <3>2, <3>3
  <2> QED BY <2>7
<1> QED BY IngestInvariant, <1>1, PTL DEF Spec, UpgradeLeavesNoTwin
=============================================================================
