---------------------------- MODULE Enrich_proofs ----------------------------
(***************************************************************************)
(* The enrich command keeps to what Ingest allows a goroutine, so all that *)
(* is proved of the candidate table holds with it running; and whatever it *)
(* proposes has an account behind it, although the accounts it knows were  *)
(* noted once and the workers change the table meanwhile.                  *)
(*                                                                         *)
(* The argument: a known key is one of the workbook, which stays, or of an *)
(* account that Normalize made of its own URL.  Two such accounts with IDs *)
(* that share a key are one account, and a row that has an ID keeps it     *)
(* (KeepingStep), so an account that stood in the table when its key was   *)
(* noted still does.                                                       *)
(***************************************************************************)
EXTENDS Enrich, Ingest_proofs

Normal(a) == a = Normalized(a.url)

AccountsNormal ==
    /\ \A i \in DOMAIN db : Normal(db[i].acct)
    /\ \A u \in DOMAIN cache : Normal(cache[u])
    /\ \A w \in Worker : work[w] # Idle => Normal(work[w].acct)

\* A reviewer can find the account, or storing its candidate failed.
Backed(a) == \/ Filed(a)
             \/ InWorkbook(a)
             \/ \E b \in unfiled : Key(b) = Key(a)

\* An account that may be proposed once it is in hand.
Sound(a) == WellFormed(a) /\ Normal(a) /\ (a.pid # NoPid => Backed(a))

KnownBacked ==
    \A k \in enr.known : \/ k \in KeysOf(Listed)
                         \/ \E a \in Account : Sound(a) /\ k \in AccountKeys(a)

HandBacked == enr.pc = "propose" => Sound(hand[2])

ProposalsSound == \A p \in proposals : Sound(p.to) /\ p.to.pid # NoPid

EnrichInv ==
    /\ IngestInv /\ EnrichTypeOK /\ AccountsNormal
    /\ KnownBacked /\ HandBacked /\ ProposalsSound

------------------------------------------------------------------------------
(* The command is a goroutine of Ingest.                                     *)

LEMMA TaskOfHand ==
    ASSUME EnrichTypeOK, work[Enricher].pc = "store"
    PROVE  work[Enricher] \in Task /\ work[Enricher] # Idle /\ enr.pc = "resolve"
BY EnrichAssumption DEF EnrichTypeOK, TypeOK, Idle, Task

LEMMA StepIngest == ASSUME EnrichTypeOK, EnrichNext PROVE [Next]_vars
<1>1. CASE cycleVars' = cycleVars
  BY <1>1 DEF cycleVars
<1>2. ASSUME NEW x \in enr.todo, OpenLink(x) PROVE Next
  <2>1. x[2] \in Lead /\ x[1] \in Source
    BY EnrichAssumption DEF EnrichTypeOK
  <2> QED BY <1>2, <2>1, EnrichAssumption DEF OpenLink, Next
<1>3. CASE ResolveLink
  BY <1>3, EnrichAssumption DEF ResolveLink, Next, WorkerStep
<1>4. CASE MatchKnown \/ AddFails
  <2>1. StoreFails(Enricher)
    BY <1>4 DEF MatchKnown, AddFails, StoreFails
  <2> QED BY <2>1, EnrichAssumption DEF Next, WorkerStep
<1>5. CASE AddCandidate
  <2>1. Store(Enricher)
    BY <1>5 DEF AddCandidate, Store, EnrichTypeOK
  <2> QED BY <2>1, EnrichAssumption DEF Next, WorkerStep
<1>6. CASE EnrichDies
  <2>1. work' = [w \in Worker |-> IF w \in {Enricher} THEN Idle ELSE work[w]]
    BY <1>6 DEF EnrichDies, EnrichTypeOK, TypeOK
  <2>2. CASE work[Enricher] = Idle
    <3>1. work' = work
      BY <2>1, <2>2 DEF EnrichTypeOK, TypeOK
    <3> QED BY <1>6, <3>1 DEF EnrichDies, vars
  <2>3. CASE work[Enricher] # Idle
    BY <1>6, <2>1, <2>3, EnrichAssumption DEF EnrichDies, Restart, Next
  <2> QED BY <2>2, <2>3
<1>7. CASE CycleStep
  BY <1>7, EnrichAssumption DEF CycleStep, Next
<1> QED
  BY <1>1, <1>2, <1>3, <1>4, <1>5, <1>6, <1>7
  DEF EnrichNext, EnrichStep, StartBatch, FetchProfiles, FetchFails, Propose, EndBatch

LEMMA IngestInvStep ==
    ASSUME EnrichInv, [EnrichNext]_allVars PROVE IngestInv' /\ [Next]_vars
<1>1. [Next]_vars
  BY StepIngest DEF EnrichInv, allVars
<1> QED BY <1>1, IngestStep DEF EnrichInv

------------------------------------------------------------------------------
(* Types                                                                     *)

\* The workers leave the command's goroutine alone, and time does not run back.
LEMMA CycleStepKeeps ==
    ASSUME EnrichTypeOK, CycleStep
    PROVE  work'[Enricher] = work[Enricher] /\ clock' \in Nat /\ clock <= clock'
<1>1. clock \in Nat
  BY BoundAssumption DEF EnrichTypeOK, TypeOK, Time
<1>2. ASSUME NEW w \in Worker \ {Enricher},
             WorkerStep(w) \/ \E lead \in Reported, src \in Source \ Profile : Take(w, lead, src)
      PROVE  work'[Enricher] = work[Enricher] /\ clock' = clock
  BY <1>2, EnrichAssumption
  DEF WorkerStep, Take, Look, Storing, Answer, NoAnswer, Memo, Store, StoreAt, StoreFails,
      EnrichTypeOK, TypeOK
<1>3. ASSUME NEW proc \in Process, Enricher \notin proc, Restart(proc)
      PROVE  work'[Enricher] = work[Enricher] /\ clock' = clock
  BY <1>3, EnrichAssumption DEF Restart
<1>4. CASE Tick
  BY <1>1, <1>4 DEF Tick
<1>5. ASSUME NEW u \in Url, Expire(u) PROVE work'[Enricher] = work[Enricher] /\ clock' = clock
  BY <1>5 DEF Expire
<1>6. ASSUME NEW p \in Page, NEW ch \in Channel, HandleMoves(p, ch)
      PROVE  work'[Enricher] = work[Enricher] /\ clock' = clock
  BY <1>6 DEF HandleMoves
<1> QED BY <1>1, <1>2, <1>3, <1>4, <1>5, <1>6 DEF CycleStep

\* A goroutine that is resolving goes on, or is about to store.
LEMMA ResolvingGoesOn ==
    ASSUME EnrichTypeOK, IngestInv', ResolveLink
    PROVE  work[Enricher] # Idle /\ work'[Enricher] # Idle /\ UNCHANGED <<db, clock>>
<1>1. work[Enricher] \in Task /\ work[Enricher] # Idle /\ Enricher \in Worker
  BY EnrichAssumption
  DEF ResolveLink, Look, Answer, NoAnswer, Memo, EnrichTypeOK, TypeOK, Idle
<1>2. work'[Enricher].pc \in {"call", "memo", "store"}
  BY <1>1 DEF ResolveLink, Look, Answer, NoAnswer, Memo, Storing, EnrichTypeOK, TypeOK, Task
<1> QED BY <1>1, <1>2 DEF Idle, ResolveLink, Look, Answer, NoAnswer, Memo

LEMMA EnrichTypesStep == ASSUME EnrichInv, EnrichNext PROVE EnrichTypeOK'
<1> USE DEF EnrichInv
<1>0. IngestInv' /\ TypeOK' /\ IngestInv /\ EnrichTypeOK /\ TypeOK
  BY IngestInvStep DEF IngestInv
<1>1. clock \in Nat /\ Enricher \in Worker
  BY EnrichAssumption, BoundAssumption DEF EnrichTypeOK, TypeOK, Time
<1>2. ASSUME NEW batch \in SUBSET Profile, StartBatch(batch) PROVE EnrichTypeOK'
  <2>1. Listed \subseteq Account /\ Queued \subseteq Account
    BY EnrichAssumption DEF Listed
  <2>2. {db[i].acct : i \in DOMAIN db} \subseteq Account
    BY <1>0 DEF TypeOK, Candidate
  <2>7. \A S \in SUBSET Account : KeysOf(S) \subseteq KeysOf(Account)
    BY DEF KeysOf
  <2>3. UNION {{b} \X Bio[b] : b \in batch} \subseteq Profile \X Lead
    BY EnrichAssumption
  <2>4. PICK known \in SUBSET KeysOf(Account) :
             enr' = [enr EXCEPT !.pc = "profiles",
                                !.todo = UNION {{b} \X Bio[b] : b \in batch},
                                !.known = known]
    BY <1>2, <2>1, <2>2, <2>7 DEF StartBatch
  <2>5. enr' \in [pc : {"profiles"}, todo : SUBSET (Profile \X Lead),
                  known : SUBSET KeysOf(Account), now : 0..clock]
    BY <1>0, <2>3, <2>4 DEF EnrichTypeOK
  <2>6. enr.pc = "idle" /\ UNCHANGED <<vars, proposals, hand, unfiled>> /\ batches' \in 0..MaxBatches
    BY <1>0, <1>2, EnrichAssumption DEF StartBatch, NotRunning, cycleVars, EnrichTypeOK
  <2> QED BY <1>0, <2>5, <2>6 DEF EnrichTypeOK, vars
<1>3. CASE FetchProfiles
  <2>1. enr.pc = "profiles" /\ UNCHANGED <<vars, proposals, hand, batches, unfiled>>
    BY <1>3 DEF FetchProfiles, cycleVars
  <2>2. PICK todo \in SUBSET (Profile \X Lead) :
             enr' = [enr EXCEPT !.pc = "links", !.todo = todo, !.now = clock]
    <3>1. PICK gone : enr' = [enr EXCEPT !.pc = "links", !.now = clock,
                                         !.todo = {x \in enr.todo : x[1] \notin gone}]
      BY <1>3 DEF FetchProfiles
    <3>2. {x \in enr.todo : x[1] \notin gone} \in SUBSET (Profile \X Lead)
      BY <1>0 DEF EnrichTypeOK
    <3> QED BY <3>1, <3>2
  <2>3. enr' \in [pc : {"links"}, todo : SUBSET (Profile \X Lead),
                  known : SUBSET KeysOf(Account), now : 0..clock]
    <3>1. enr' = [pc |-> "links", todo |-> todo, known |-> enr.known, now |-> clock]
      BY <1>0, <2>2 DEF EnrichTypeOK
    <3>2. enr.known \in SUBSET KeysOf(Account) /\ clock \in 0..clock
      BY <1>0, <1>1 DEF EnrichTypeOK
    <3> QED BY <3>1, <3>2
  <2> QED BY <1>0, <2>1, <2>3 DEF EnrichTypeOK, vars
<1>4. CASE FetchFails \/ EndBatch
  <2>1. enr.pc \in {"profiles", "links"} /\ UNCHANGED <<vars, proposals, hand, batches, unfiled>>
    BY <1>4 DEF FetchFails, EndBatch, cycleVars
  <2>2. enr' \in [pc : {"idle"}, todo : SUBSET (Profile \X Lead),
                  known : SUBSET KeysOf(Account), now : 0..clock]
    BY <1>0, <1>1, <1>4 DEF FetchFails, EndBatch, NotRunning
  <2> QED BY <1>0, <2>1, <2>2 DEF EnrichTypeOK, vars
<1>5. ASSUME NEW x \in enr.todo, OpenLink(x) PROVE EnrichTypeOK'
  <2>1. x \in Profile \X Account
    BY <1>0, <1>5, LeadAssumption DEF EnrichTypeOK
  <2>2. x # <<>>
    BY <2>1
  <2>3. work'[Enricher] # Idle
    BY <1>0, <1>1, <1>5 DEF OpenLink, Take, TypeOK, Idle
  <2> QED
    BY <1>0, <1>5, <2>1, <2>2, <2>3 DEF OpenLink, Take, EnrichTypeOK
<1>6. CASE ResolveLink
  BY <1>0, <1>1, <1>6, ResolvingGoesOn DEF ResolveLink, EnrichTypeOK, enrichVars
<1>7. CASE MatchKnown \/ AddCandidate \/ AddFails
  <2> DEFINE a == work[Enricher].acct
  <2>1. work[Enricher] \in Task /\ enr.pc = "resolve"
    BY <1>0, <1>7, TaskOfHand DEF MatchKnown, AddCandidate, AddFails
  <2>2. a \in Account /\ AccountKeys(a) \subseteq KeysOf(Account)
    BY <2>1 DEF Task, KeysOf
  <2>3. hand \in Profile \X Account
    BY <1>0, <2>1 DEF EnrichTypeOK
  <2>4. <<hand[1], a>> \in Profile \X Account /\ <<hand[1], a>> # <<>>
    BY <2>2, <2>3
  <2>5. work'[Enricher] = Idle /\ clock' = clock
    BY <1>0, <1>1, <1>7 DEF MatchKnown, AddCandidate, AddFails, StoreAt, StoreFails, TypeOK
  <2>6. PICK known \in SUBSET KeysOf(Account) : Settled(known)
    BY <1>0, <1>7, <2>2 DEF MatchKnown, AddCandidate, AddFails, EnrichTypeOK
  <2>7. unfiled' \subseteq Account
    BY <1>0, <1>7, <2>2 DEF MatchKnown, AddCandidate, AddFails, EnrichTypeOK
  <2> QED BY <1>0, <2>4, <2>5, <2>6, <2>7 DEF Settled, EnrichTypeOK
<1>8. CASE Propose
  <2>1. hand \in Profile \X Account
    BY <1>0, <1>8 DEF Propose, EnrichTypeOK
  <2>2. [from |-> hand[1], to |-> hand[2]] \in Proposal
    BY <2>1 DEF Proposal
  <2>3. proposals' \subseteq Proposal
    BY <1>0, <1>8, <2>2 DEF Propose, EnrichTypeOK
  <2> QED BY <1>0, <1>8, <2>3 DEF Propose, EnrichTypeOK, cycleVars, vars
<1>9. CASE EnrichDies
  BY <1>0, <1>1, <1>9 DEF EnrichDies, EnrichTypeOK, NotRunning, TypeOK
<1>10. CASE CycleStep
  <2>1. enr.now \in 0..clock'
    BY <1>0, <1>1, <1>10, CycleStepKeeps DEF EnrichTypeOK
  <2> QED
    BY <1>0, <1>10, <2>1, CycleStepKeeps DEF CycleStep, enrichVars, EnrichTypeOK
<1> QED
  BY <1>2, <1>3, <1>4, <1>5, <1>6, <1>7, <1>8, <1>9, <1>10 DEF EnrichNext, EnrichStep

------------------------------------------------------------------------------
(* Accounts and keys                                                         *)

LEMMA NormalizedNormal == ASSUME NEW u \in Url PROVE Normal(Normalized(u))
BY NormalizedWellFormed DEF Normal

LEMMA ResolvedNormal ==
    ASSUME TypeOK, NEW a, NeedsResolution(a), a \in Account, Normal(a)
    PROVE  Normal(Resolved(a))
<1>1. ASSUME NEW ch \in Channel PROVE Normal(ChannelAccount(ch))
  BY <1>1 DEF ChannelAccount, ChannelUrl, Normal, Normalized
<1>2. a.url \in Url
  BY DEF Account
<1>3. CASE a.url.kind = "page"
  <2>1. a.platform = "youtube" /\ a.url.of \in Page
    BY <1>2, <1>3 DEF Normal, Normalized, PageAccount, Url
  <2> QED BY <1>1, <2>1 DEF Resolved, TypeOK
<1>4. CASE a.url.kind = "watch"
  <2>1. a.platform = "youtube_video" /\ a.pid \in Channel
    BY <1>2, <1>4 DEF Normal, Normalized, VideoAccount, Url
  <2> QED BY <1>1, <2>1 DEF Resolved
<1>5. CASE a.url.kind = "channel"
  <2>1. a.platform = "youtube" /\ a.pid \in Channel
    BY <1>2, <1>5 DEF Normal, Normalized, ChannelAccount, Url
  <2> QED BY <2>1, NoPidAssumption DEF NeedsResolution
<1> QED BY <1>2, <1>3, <1>4, <1>5 DEF Url

\* An account that Normalize made of a link is that of its platform and its ID.
LEMMA NormalById ==
    ASSUME NEW a, NEW b, Normal(a), Normal(b), a \in Account, b \in Account,
           b.pid # NoPid, a.platform = b.platform, a.pid = b.pid
    PROVE  a = b
<1>1. ASSUME NEW x \in Account, Normal(x), x.pid # NoPid
      PROVE  \/ x.platform = "youtube" /\ x = ChannelAccount(x.pid)
             \/ x.platform = "youtube_video" /\ x = VideoAccount(x.pid)
  <2>1. x.url \in Url
    BY DEF Account
  <2>2. CASE x.url.kind = "page"
    <3>1. x.pid = NoPid
      BY <1>1, <2>2 DEF Normal, Normalized, PageAccount
    <3> QED BY <1>1, <3>1
  <2>3. CASE x.url.kind = "channel"
    BY <1>1, <2>3 DEF Normal, Normalized, ChannelAccount
  <2>4. CASE x.url.kind = "watch"
    BY <1>1, <2>4 DEF Normal, Normalized, VideoAccount
  <2> QED BY <2>1, <2>2, <2>3, <2>4 DEF Url
<1>2. a.pid # NoPid
  OBVIOUS
<1>3. \/ a.platform = "youtube" /\ a = ChannelAccount(a.pid)
      \/ a.platform = "youtube_video" /\ a = VideoAccount(a.pid)
  BY <1>1, <1>2
<1>4. \/ b.platform = "youtube" /\ b = ChannelAccount(b.pid)
      \/ b.platform = "youtube_video" /\ b = VideoAccount(b.pid)
  BY <1>1
<1> QED BY <1>3, <1>4

\* A known key that an account with an ID has is that of the same account.
LEMMA KnownKeyTells ==
    ASSUME NEW a, NEW b, WellFormed(a), WellFormed(b), Normal(a), Normal(b), b.pid # NoPid,
           NEW k, k \in AccountKeys(a), k \in AccountKeys(b)
    PROVE  a = b
<1>0. a \in Account /\ b \in Account
  BY DEF WellFormed
<1>1. Key(b) = IdKey(b.platform, b.pid)
  BY DEF Key
<1>2. CASE k = Key(b)
  <2>1. Key(a) = Key(b)
    BY <1>1, <1>2, KeyForms DEF AccountKeys
  <2>2. a.platform = b.platform /\ a.pid = b.pid
    BY <2>1, KeyOfId
  <2> QED BY <1>0, <2>2, NormalById
<1>3. CASE k = UrlKey(b.platform, b.url)
  <2>1. CASE k = Key(a)
    <3>1. a.pid = NoPid
      BY <1>3, <2>1, KeyForms DEF Key
    <3>2. a.url.kind = "page" /\ a.url \in Url
      BY <3>1 DEF WellFormed, Account
    <3>3. Key(a) = UrlKey(Normalized(a.url).platform, Normalized(a.url).url)
      BY <3>1 DEF Key, Normal
    <3>4. a.url = b.url
      BY <1>3, <2>1, <3>3 DEF UrlKey, Normal
    <3> QED BY <3>1, <3>4 DEF Normal
  <2>2. CASE k = UrlKey(a.platform, a.url)
    <3>1. a.url = b.url
      BY <1>3, <2>2 DEF UrlKey
    <3> QED BY <3>1 DEF Normal
  <2> QED BY <2>1, <2>2 DEF AccountKeys
<1> QED BY <1>2, <1>3 DEF AccountKeys

LEMMA NormalStep == ASSUME EnrichInv, Next PROVE AccountsNormal'
<1> USE DEF EnrichInv
<1>0. TypeOK /\ AccountsNormal /\ TasksWellFormed
  BY DEF IngestInv
<1>1. ASSUME NEW w \in Worker, NEW lead \in Lead, NEW src \in Source, Take(w, lead, src)
      PROVE  AccountsNormal'
  <2>1. Normal(lead)
    BY NormalAssumption DEF Normal
  <2>2. work'[w].acct = lead /\ \A v \in Worker : v # w => work'[v] = work[v]
    BY <1>0, <1>1 DEF Take, TypeOK
  <2> QED BY <1>0, <1>1, <2>1, <2>2 DEF Take, AccountsNormal, Normal
<1>2. ASSUME NEW w \in Worker, WorkerStep(w) PROVE AccountsNormal'
  <2>1. work[w] \in Task /\ work[w] # Idle
    BY <1>0, <1>2, TaskOfBusy
    DEF WorkerStep, Look, Answer, NoAnswer, Memo, Store, StoreAt, StoreFails
  <2>2. Normal(work[w].acct) /\ Normal(Normalized(work[w].input))
    BY <1>0, <2>1, NormalizedNormal DEF AccountsNormal, Task
  <2>3. \A v \in Worker : v # w => work'[v] = work[v]
    BY <1>0, <1>2
    DEF WorkerStep, Look, Answer, NoAnswer, Memo, Storing, Store, StoreAt, StoreFails, TypeOK
  <2>4. ASSUME NEW a, Normal(a), Storing(w, a) PROVE Normal(work'[w].acct)
    BY <1>0, <2>1, <2>4 DEF Storing, TypeOK, Task
  <2>5. CASE Look(w) \/ NoAnswer(w)
    <3>1. Normal(work'[w].acct)
      BY <1>0, <2>1, <2>2, <2>4, <2>5 DEF Look, NoAnswer, AccountsNormal, TypeOK, Task
    <3> QED BY <1>0, <2>3, <2>5, <3>1 DEF Look, NoAnswer, AccountsNormal, Normal
  <2>6. CASE Answer(w)
    <3>1. Normal(Resolved(work[w].acct))
      BY <1>0, <2>1, <2>2, <2>6, ResolvedNormal DEF Answer, TasksWellFormed, WellFormed
    <3>2. work'[w].acct = Resolved(work[w].acct)
      BY <1>0, <2>1, <2>6 DEF Answer, TypeOK, Task
    <3> QED BY <1>0, <2>3, <2>6, <3>1, <3>2 DEF Answer, AccountsNormal, Normal
  <2>7. CASE Memo(w)
    <3>1. Normal(work'[w].acct)
      BY <2>2, <2>4, <2>7 DEF Memo
    <3>2. \A u \in DOMAIN cache' : cache'[u] = work[w].acct \/ (u \in DOMAIN cache /\ cache'[u] = cache[u])
      BY <2>7 DEF Memo
    <3> QED BY <1>0, <2>2, <2>3, <2>7, <3>1, <3>2 DEF Memo, AccountsNormal, Normal
  <2>8. CASE Store(w) \/ StoreFails(w)
    <3>1. work'[w] = Idle
      BY <1>0, <2>8 DEF Store, StoreAt, StoreFails, TypeOK
    <3>2. \A i \in DOMAIN db' : Normal(db'[i].acct)
      <4>1. CASE db' = db
        BY <1>0, <4>1 DEF AccountsNormal
      <4>2. CASE Store(w)
        <5>1. PICK fresh, now : db' = Upsert(db, work[w].acct, work[w].input, fresh, now)
          BY <1>0, <4>2, StoreEffect
        <5> QED BY <1>0, <2>2, <5>1 DEF Upsert, AccountsNormal
      <4> QED BY <2>8, <4>1, <4>2 DEF StoreFails
    <3> QED BY <1>0, <2>3, <2>8, <3>1, <3>2 DEF Store, StoreAt, StoreFails, AccountsNormal, Normal
  <2> QED BY <1>2, <2>5, <2>6, <2>7, <2>8 DEF WorkerStep
<1>3. CASE Tick \/ \E proc \in Process : Restart(proc)
  BY <1>0, <1>3 DEF Tick, Restart, AccountsNormal, Normal
<1>4. ASSUME NEW u \in Url, Expire(u) PROVE AccountsNormal'
  BY <1>0, <1>4 DEF Expire, AccountsNormal, Normal
<1>5. ASSUME NEW p \in Page, NEW ch \in Channel, HandleMoves(p, ch) PROVE AccountsNormal'
  BY <1>0, <1>5 DEF HandleMoves, AccountsNormal, Normal
<1> QED BY <1>1, <1>2, <1>3, <1>4, <1>5 DEF Next

------------------------------------------------------------------------------
(* What is known, in hand and proposed has an account behind it.             *)

\* A row that stands for an account with an ID goes on standing for it.
LEMMA BackedStays ==
    ASSUME EnrichInv, EnrichNext, NEW a, a.pid # NoPid, Backed(a)
    PROVE  Backed(a)'
<1>1. IngestInv /\ IngestInv' /\ [Next]_vars
  BY IngestInvStep DEF EnrichInv
<1>2. ASSUME NEW i \in DOMAIN db, Key(db[i].acct) = Key(a) PROVE Filed(a)'
  <2>1. WellFormed(db[i].acct)
    BY <1>1 DEF IngestInv, RowsWellFormed
  <2>2. db[i].acct.platform = a.platform /\ db[i].acct.pid = a.pid
    BY <1>2, <2>1, KeyOfId
  <2>3. CASE db' = db
    BY <1>2, <2>3 DEF Filed
  <2>4. CASE Next
    <3>1. i \in DOMAIN db' /\ db'[i].acct.platform = a.platform /\ db'[i].acct.pid = a.pid
      BY <1>1, <2>2, <2>4, KeepingStep DEF RowsKept
    <3>2. Key(db'[i].acct) = Key(a)
      BY <3>1 DEF Key
    <3> QED BY <3>1, <3>2 DEF Filed
  <2> QED BY <1>1, <2>3, <2>4 DEF vars
<1>3. unfiled \subseteq unfiled'
  BY DEF EnrichNext, EnrichStep, CycleStep, StartBatch, FetchProfiles, FetchFails, OpenLink,
         ResolveLink, MatchKnown, AddCandidate, AddFails, Propose, EndBatch, EnrichDies, enrichVars
<1> QED BY <1>2, <1>3 DEF Backed, Filed

LEMMA SoundStays ==
    ASSUME EnrichInv, EnrichNext, NEW a, Sound(a) PROVE Sound(a)'
BY BackedStays DEF Sound, WellFormed, Normal

\* Whatever settles the account in hand, it is sound then.
LEMMA SettledSound ==
    ASSUME EnrichInv, EnrichNext, MatchKnown \/ AddCandidate \/ AddFails,
           NEW a, a = work[Enricher].acct
    PROVE  /\ Sound(a)' /\ a \in Account
           /\ hand'[2] = a
           /\ enr'.known \subseteq enr.known \cup AccountKeys(a)
<1>1. work[Enricher] \in Task /\ work[Enricher] # Idle /\ Enricher \in Worker
  BY TaskOfHand, EnrichAssumption DEF EnrichInv, MatchKnown, AddCandidate, AddFails
<1>2. WellFormed(a) /\ Normal(a) /\ a \in Account
  BY <1>1 DEF EnrichInv, IngestInv, TasksWellFormed, AccountsNormal, Task
<1>3. ASSUME a.pid # NoPid, MatchKnown PROVE Backed(a)'
  <2>1. PICK k \in enr.known : k \in AccountKeys(a)
    BY <1>3 DEF MatchKnown, Known
  <2>2. CASE k \in KeysOf(Listed)
    BY <2>1, <2>2 DEF InWorkbook, Backed
  <2>3. CASE k \notin KeysOf(Listed)
    <3>1. PICK b \in Account : Sound(b) /\ k \in AccountKeys(b)
      BY <2>1, <2>3 DEF EnrichInv, KnownBacked
    <3>2. b = a
      BY <1>2, <1>3, <2>1, <3>1, KnownKeyTells DEF Sound
    <3>3. Backed(a)
      BY <1>3, <3>1, <3>2 DEF Sound
    <3> QED BY <1>3, <3>3, BackedStays
  <2> QED BY <2>2, <2>3
<1>4. ASSUME AddCandidate PROVE Backed(a)'
  <2>1. Store(Enricher)
    BY <1>4 DEF AddCandidate, Store, EnrichInv, EnrichTypeOK
  <2>2. PICK fresh, now : db' = Upsert(db, a, work[Enricher].input, fresh, now)
    BY <1>1, <2>1, StoreEffect DEF EnrichInv, IngestInv
  <2>3. \E i \in DOMAIN db' : db'[i].acct = a
    BY <2>2 DEF Upsert
  <2> QED BY <2>3 DEF Backed, Filed
<1>5. ASSUME AddFails PROVE Backed(a)'
  BY <1>5 DEF AddFails, Backed
<1>6. Sound(a)'
  BY <1>2, <1>3, <1>4, <1>5 DEF Sound, WellFormed, Normal
<1>7. PICK known : Settled(known) /\ known \subseteq enr.known \cup AccountKeys(a)
  BY DEF MatchKnown, AddCandidate, AddFails
<1>8. enr'.known = known
  BY <1>7 DEF Settled, EnrichInv, EnrichTypeOK
<1> QED BY <1>2, <1>6, <1>7, <1>8 DEF Settled

LEMMA KnownStep == ASSUME EnrichInv, EnrichNext PROVE KnownBacked'
<1>1. ASSUME NEW k \in enr.known
      PROVE  k \in KeysOf(Listed) \/ \E a \in Account : Sound(a)' /\ k \in AccountKeys(a)
  BY <1>1, SoundStays DEF EnrichInv, KnownBacked
<1>2. ASSUME NEW batch \in SUBSET Profile, StartBatch(batch), NEW k \in enr'.known
      PROVE  k \in KeysOf(Listed) \/ \E a \in Account : Sound(a)' /\ k \in AccountKeys(a)
  <2>1. k \in KeysOf(Listed) \/ k \in KeysOf({db[i].acct : i \in DOMAIN db})
    <3>1. PICK listed \in {{}, Queued, Listed}, found \in {{}, {db[i].acct : i \in DOMAIN db}} :
             enr' = [enr EXCEPT !.pc = "profiles",
                                !.todo = UNION {{b} \X Bio[b] : b \in batch},
                                !.known = KeysOf(listed \cup found)]
      BY <1>2, Zenon DEF StartBatch
    <3>2. DOMAIN enr = {"pc", "todo", "known", "now"}
      BY DEF EnrichInv, EnrichTypeOK
    <3>3. enr'.known = KeysOf(listed \cup found)
      BY <3>1, <3>2
    <3>4. k \in KeysOf(listed \cup found)
      BY <1>2, <3>3
    <3> QED BY <3>1, <3>4 DEF KeysOf, Listed
  <2>2. CASE k \in KeysOf({db[i].acct : i \in DOMAIN db})
    <3>1. PICK i \in DOMAIN db : k \in AccountKeys(db[i].acct)
      BY <2>2 DEF KeysOf
    <3>2. db[i].acct \in Account /\ WellFormed(db[i].acct) /\ Normal(db[i].acct)
      BY DEF EnrichInv, IngestInv, RowsWellFormed, WellFormed, AccountsNormal
    <3>3. Sound(db[i].acct)
      BY <3>2 DEF Sound, Backed, Filed
    <3> QED BY <3>1, <3>2, <3>3, SoundStays
  <2> QED BY <2>1, <2>2
<1>3. CASE \E batch \in SUBSET Profile : StartBatch(batch)
  BY <1>2, <1>3 DEF KnownBacked, Sound, Backed, Filed, InWorkbook
<1>4. CASE MatchKnown \/ AddCandidate \/ AddFails
  BY <1>1, <1>4, SettledSound DEF KnownBacked, Sound, Backed, Filed, InWorkbook
<1>5. CASE enr'.known \subseteq enr.known
  BY <1>1, <1>5 DEF KnownBacked, Sound, Backed, Filed, InWorkbook
<1>6. CASE FetchProfiles \/ (\E x \in enr.todo : OpenLink(x)) \/ Propose
  <2>1. enr'.known = enr.known
    BY <1>6 DEF FetchProfiles, OpenLink, Propose, EnrichInv, EnrichTypeOK
  <2> QED BY <1>5, <2>1
<1>7. CASE FetchFails \/ EndBatch \/ EnrichDies
  BY <1>5, <1>7 DEF FetchFails, EndBatch, EnrichDies, NotRunning
<1>8. CASE ResolveLink \/ CycleStep
  BY <1>5, <1>8 DEF ResolveLink, CycleStep, enrichVars
<1> QED BY <1>3, <1>4, <1>6, <1>7, <1>8 DEF EnrichNext, EnrichStep

LEMMA HandStep == ASSUME EnrichInv, EnrichNext PROVE HandBacked'
<1>1. CASE MatchKnown \/ AddCandidate \/ AddFails
  BY <1>1, SettledSound DEF HandBacked, Sound, Backed, Filed
<1>2. CASE CycleStep
  BY <1>2, SoundStays DEF CycleStep, enrichVars, EnrichInv, HandBacked, Sound, Backed, Filed
<1>3. CASE enr'.pc # "propose"
  BY <1>3 DEF HandBacked
<1>4. CASE ResolveLink
  <2>1. enr'.pc = "resolve"
    BY <1>4, TaskOfBusy, EnrichAssumption
    DEF ResolveLink, Look, Answer, NoAnswer, Memo, enrichVars, EnrichInv, EnrichTypeOK
  <2> QED BY <2>1 DEF HandBacked
<1>5. CASE FetchProfiles \/ (\E x \in enr.todo : OpenLink(x)) \/ Propose
  <2>1. enr'.pc \in {"links", "resolve"}
    BY <1>5 DEF FetchProfiles, OpenLink, Propose, EnrichInv, EnrichTypeOK
  <2> QED BY <1>3, <2>1
<1>6. CASE FetchFails \/ EndBatch \/ EnrichDies
  BY <1>3, <1>6 DEF FetchFails, EndBatch, EnrichDies, NotRunning
<1>7. CASE \E batch \in SUBSET Profile : StartBatch(batch)
  <2>1. enr'.pc = "profiles"
    BY <1>7 DEF StartBatch, EnrichInv, EnrichTypeOK
  <2> QED BY <1>3, <2>1
<1> QED BY <1>1, <1>2, <1>4, <1>5, <1>6, <1>7 DEF EnrichNext, EnrichStep

\* An account that may be proposed has an ID.
LEMMA ProposedHasId ==
    ASSUME NEW a, Sound(a), Proposable(a) PROVE a.pid # NoPid
<1>1. CASE a.platform = "youtube"
  BY <1>1 DEF Proposable
<1>2. CASE a.pid = NoPid
  <2>1. a.url.kind = "page"
    BY <1>2 DEF Sound, WellFormed
  <2>2. a.platform = "youtube"
    BY <2>1 DEF Sound, Normal, Normalized, PageAccount
  <2> QED BY <1>1, <2>2
<1> QED BY <1>2

LEMMA ProposalsStep == ASSUME EnrichInv, EnrichNext PROVE ProposalsSound'
<1>1. ASSUME NEW p \in proposals PROVE Sound(p.to)' /\ p.to.pid # NoPid
  BY <1>1, SoundStays DEF EnrichInv, ProposalsSound
<1>2. ASSUME NEW p \in proposals' \ proposals PROVE Sound(p.to)' /\ p.to.pid # NoPid
  <2>1. Propose
    <3>1. proposals' # proposals
      BY <1>2
    <3>2. CASE MatchKnown \/ AddCandidate \/ AddFails
      BY <3>1, <3>2 DEF MatchKnown, AddCandidate, AddFails, Settled
    <3>3. CASE ResolveLink \/ CycleStep
      BY <3>1, <3>3 DEF ResolveLink, CycleStep, enrichVars
    <3>4. CASE FetchProfiles \/ FetchFails \/ EndBatch \/ EnrichDies
      BY <3>1, <3>4 DEF FetchProfiles, FetchFails, EndBatch, EnrichDies
    <3>5. CASE (\E x \in enr.todo : OpenLink(x)) \/ \E batch \in SUBSET Profile : StartBatch(batch)
      BY <3>1, <3>5 DEF OpenLink, StartBatch
    <3> QED BY <3>2, <3>3, <3>4, <3>5 DEF EnrichNext, EnrichStep
  <2>2. p.to = hand[2] /\ Proposable(p.to)
    <3>1. p \in {q \in {[from |-> hand[1], to |-> hand[2]]} : Proposable(q.to)}
      BY <1>2, <2>1 DEF Propose
    <3> QED BY <3>1
  <2>3. Sound(p.to)
    BY <2>1, <2>2 DEF Propose, EnrichInv, HandBacked
  <2> QED BY <2>2, <2>3, SoundStays, ProposedHasId
<1> QED BY <1>1, <1>2 DEF ProposalsSound, Sound, Backed, Filed

LEMMA EnrichInvStep == ASSUME EnrichInv, [EnrichNext]_allVars PROVE EnrichInv'
<1>1. CASE EnrichNext
  <2>1. IngestInv'
    BY IngestInvStep
  <2>2. AccountsNormal'
    <3>1. CASE Next
      BY <3>1, NormalStep
    <3>2. CASE UNCHANGED vars
      BY <3>2 DEF vars, EnrichInv, AccountsNormal, Normal
    <3> QED BY <1>1, <3>1, <3>2, IngestInvStep
  <2> QED
    BY <1>1, <2>1, <2>2, EnrichTypesStep, KnownStep, HandStep, ProposalsStep DEF EnrichInv
<1>2. CASE UNCHANGED allVars
  <2>1. IngestInv'
    BY IngestInvStep
  <2>2. EnrichTypeOK' /\ AccountsNormal'
    BY <1>2, <2>1 DEF allVars, vars, enrichVars, EnrichInv, EnrichTypeOK, IngestInv,
                      AccountsNormal, Normal
  <2>3. KnownBacked' /\ HandBacked' /\ ProposalsSound'
    BY <1>2 DEF allVars, vars, enrichVars, EnrichInv, KnownBacked, HandBacked, ProposalsSound,
                Sound, Backed, Filed
  <2> QED BY <2>1, <2>2, <2>3 DEF EnrichInv
<1> QED BY <1>1, <1>2

LEMMA EnrichInitInv == ASSUME EnrichInit PROVE EnrichInv
<1>1. IngestInv
  BY IngestInit DEF EnrichInit
<1>2. EnrichTypeOK
  BY <1>1, EnrichAssumption, BoundAssumption
  DEF EnrichInit, Init, NotRunning, EnrichTypeOK, IngestInv, Idle
<1>3. AccountsNormal
  BY DEF EnrichInit, Init, AccountsNormal, Idle
<1> QED
  BY <1>1, <1>2, <1>3
  DEF EnrichInit, NotRunning, EnrichInv, KnownBacked, HandBacked, ProposalsSound

THEOREM EnrichInvariant == EnrichSpec => []EnrichInv
BY EnrichInitInv, EnrichInvStep, PTL DEF EnrichSpec

------------------------------------------------------------------------------
(* The theorems                                                              *)

\* With the enrich command running beside the workers, every step of either is one that
\* Ingest allows its goroutines: what is proved of Ingest holds of both.
THEOREM EnrichImplementsIngest == EnrichSpec => Spec
<1>1. EnrichInit => Init
  BY DEF EnrichInit
<1>2. EnrichInv /\ [EnrichNext]_allVars => [Next]_vars
  BY IngestInvStep
<1> QED BY <1>1, <1>2, EnrichInvariant, PTL DEF EnrichSpec, Spec

\* The command's state and the tables beside it have their types in every state.
THEOREM EnrichTypeCorrect == EnrichSpec => []EnrichTypeOK
<1>1. EnrichInv => EnrichTypeOK
  BY DEF EnrichInv
<1> QED BY EnrichInvariant, <1>1, PTL

\* However the known accounts have aged, a relation is only proposed to an account of the
\* workbook, of a candidate, or of a candidate that could not be stored.
THEOREM ProposalsAreBacked == EnrichSpec => []ProposalBacked
<1>1. EnrichInv => ProposalBacked
  BY DEF EnrichInv, ProposalsSound, ProposalBacked, Sound, Backed
<1> QED BY EnrichInvariant, <1>1, PTL

\* The enrich command makes no second candidate of a key, although it takes no lock.
THEOREM EnrichKeysUnique == EnrichSpec => []OneCandidatePerKey
BY EnrichImplementsIngest, KeysUnique, PTL

\* Nor does it lose a candidate, its first_seen or its channel, or leave a twin.
THEOREM EnrichKeepsIdentity == EnrichSpec => StableIdentity /\ UpgradeLeavesNoTwin
BY EnrichImplementsIngest, IdentityStable, NoTwin, PTL
=============================================================================
