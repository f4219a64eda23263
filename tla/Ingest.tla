------------------------------- MODULE Ingest -------------------------------
(***************************************************************************)
(* The path of one observation through a cycle: a worker of App.Once takes *)
(* a lead, Engine.Resolve looks in the resolver cache, asks YouTube,       *)
(* writes the cache, and Store.Upsert merges the result into the           *)
(* candidate table.  Workers interleave at every point where the code      *)
(* releases the database mutex; a restart loses the leads in flight.       *)
(***************************************************************************)
EXTENDS Accounts

CONSTANTS Worker,      \* goroutines that resolve and store
          Process,     \* the processes they run in, as sets of them
          Lead,        \* the accounts the sources may report
          Legacy,      \* pages under /c/, which the API cannot look up
          Source,      \* source URLs
          CandidateId, \* identifiers newID can draw
          MaxClock,    \* bound: the last instant modelled
          MaxMoves     \* bound: how often a page changes its channel

NeedsResolution(a) == a.platform = "youtube_video" \/ a.pid = NoPid

\* A lead that needs resolution is what model.Normalize made of its URL.
ASSUME LeadAssumption ==
    /\ Lead \subseteq Account /\ Legacy \subseteq Page
    /\ \A a \in Lead : NeedsResolution(a) => a = Normalized(a.url)
ASSUME ProcessAssumption == Process \subseteq SUBSET Worker
ASSUME BoundAssumption == {MaxClock, MaxMoves} \subseteq Nat

VARIABLES db,    \* candidates: id -> [acct, input, first]
          prov,  \* candidate_sources: pairs <<id, source>>
          cache, \* resolver_cache younger than its 7 days: url -> account
          owner, \* which channel a page points at now (YouTube's side)
          clock,
          moves,
          work   \* what each worker is doing

vars == <<db, prov, cache, owner, clock, moves, work>>

Time == 0..MaxClock
Candidate == [acct : Account, input : Url, first : Time]
Idle == [pc |-> "idle"]
Task == [pc : {"look", "call", "memo", "store"}, acct : Account, input : Url,
         src : Source]

TypeOK ==
    /\ DOMAIN db \subseteq CandidateId /\ \A i \in DOMAIN db : db[i] \in Candidate
    /\ prov \subseteq (DOMAIN db) \X Source
    /\ DOMAIN cache \subseteq Url /\ \A u \in DOMAIN cache : cache[u] \in Account
    /\ owner \in [Page -> Channel]
    /\ clock \in Time /\ moves \in 0..MaxMoves
    /\ work \in [Worker -> {Idle} \cup Task]

Init ==
    /\ db = [i \in {} |-> {}] /\ prov = {} /\ cache = [u \in {} |-> {}]
    /\ owner \in [Page -> Channel]
    /\ clock = 0 /\ moves = 0
    /\ work = [w \in Worker |-> Idle]

------------------------------------------------------------------------------
\* Engine.Resolve has a way to ask for this account: not a /c/ page.
Lookupable(a) == a.platform = "youtube_video" \/ a.url.of \notin Legacy

\* What YouTube answers now for a page or a video.
Resolved(a) == IF a.platform = "youtube_video" THEN ChannelAccount(a.pid)
               ELSE ChannelAccount(owner[a.url.of])

\* The lead goes to Upsert as a.
Storing(w, a) == work' = [work EXCEPT ![w].pc = "store", ![w].acct = a]

Take(w, lead, src) ==
    /\ work[w] = Idle
    /\ work' = [work EXCEPT ![w] =
          [pc |-> IF NeedsResolution(lead) THEN "look" ELSE "store",
           acct |-> lead, input |-> lead.url, src |-> src]]
    /\ UNCHANGED <<db, prov, cache, owner, clock, moves>>

Look(w) ==
    /\ work[w].pc = "look"
    /\ LET t == work[w] IN
         IF t.input \in DOMAIN cache THEN Storing(w, cache[t.input])
         ELSE IF Lookupable(t.acct) THEN work' = [work EXCEPT ![w].pc = "call"]
         ELSE Storing(w, t.acct)
    /\ UNCHANGED <<db, prov, cache, owner, clock, moves>>

Answer(w) ==
    /\ work[w].pc = "call"
    /\ work' = [work EXCEPT ![w].pc = "memo", ![w].acct = Resolved(work[w].acct)]
    /\ UNCHANGED <<db, prov, cache, owner, clock, moves>>

\* The cache cannot be read or written, quota exhausted, request failed, no item:
\* the lead is kept as it was.
NoAnswer(w) ==
    /\ work[w].pc \in {"look", "call", "memo"}
    /\ Storing(w, Normalized(work[w].input))
    /\ UNCHANGED <<db, prov, cache, owner, clock, moves>>

Memo(w) ==
    /\ work[w].pc = "memo"
    /\ LET t == work[w] IN
       cache' = [u \in DOMAIN cache \cup {t.input} |-> IF u = t.input THEN t.acct ELSE cache[u]]
    /\ Storing(w, work[w].acct)
    /\ UNCHANGED <<db, prov, owner, clock, moves>>

\* Mutant of Sighting: the source is filed under a new ID.
NewSighting(t, fresh) == <<fresh, t.src>>

\* The candidate_sources row of an observation.
Sighting(t, fresh) == <<UpsertedId(db, t.acct, t.input, fresh), t.src>>

StoreAt(w, now) ==
    /\ work[w].pc = "store"
    /\ DOMAIN db # CandidateId \* newID never runs out
    /\ LET t     == work[w]
           fresh == CHOOSE i \in CandidateId : i \notin DOMAIN db
       IN
         /\ db' = Upsert(db, t.acct, t.input, fresh, now)
         /\ prov' = prov \cup {Sighting(t, fresh)}
    /\ work' = [work EXCEPT ![w] = Idle]
    /\ UNCHANGED <<cache, owner, clock, moves>>

\* The caller reads the time before it waits for the database.
Store(w) == \E now \in 0..clock : StoreAt(w, now)

\* The transaction is rolled back; the rest of the source is abandoned.
StoreFails(w) ==
    /\ work[w].pc = "store"
    /\ work' = [work EXCEPT ![w] = Idle]
    /\ UNCHANGED <<db, prov, cache, owner, clock, moves>>

\* A process stops and is started again: the leads in its hands are lost.
Restart(proc) ==
    /\ \E w \in proc : work[w] # Idle
    /\ work' = [w \in Worker |-> IF w \in proc THEN Idle ELSE work[w]]
    /\ UNCHANGED <<db, prov, cache, owner, clock, moves>>

Tick ==
    /\ clock < MaxClock
    /\ clock' = clock + 1
    /\ UNCHANGED <<db, prov, cache, owner, moves, work>>

\* An entry of the resolver cache reaches the age Cached refuses.
Expire(u) ==
    /\ u \in DOMAIN cache
    /\ cache' = [v \in DOMAIN cache \ {u} |-> cache[v]]
    /\ UNCHANGED <<db, prov, owner, clock, moves, work>>

\* A creator gives the handle up and another channel takes it.
HandleMoves(p, ch) ==
    /\ moves < MaxMoves
    /\ owner[p] # ch
    /\ owner' = [owner EXCEPT ![p] = ch]
    /\ moves' = moves + 1
    /\ UNCHANGED <<db, prov, cache, clock, work>>

WorkerStep(w) ==
    \/ Look(w) \/ Answer(w) \/ NoAnswer(w) \/ Memo(w) \/ Store(w) \/ StoreFails(w)

Next ==
    \/ \E w \in Worker : WorkerStep(w) \/ \E lead \in Lead, src \in Source : Take(w, lead, src)
    \/ \E proc \in Process : Restart(proc)
    \/ Tick
    \/ \E u \in Url : Expire(u)
    \/ \E p \in Page, ch \in Channel : HandleMoves(p, ch)

Spec == Init /\ [][Next]_vars

------------------------------------------------------------------------------
(* Properties *)

\* Two candidates never share an account key, whatever the workers' order:
\* the UNIQUE constraint of the candidates table is never the one to stop Upsert.
OneCandidatePerKey ==
    \A i, j \in DOMAIN db : Key(db[i].acct) = Key(db[j].acct) => i = j

\* A candidate is never dropped, keeps its first_seen, and once it has a stable
\* channel ID it stands for that channel for ever, even when its handle moves.
StableIdentity ==
    [][\A i \in DOMAIN db :
         /\ i \in DOMAIN db'
         /\ db'[i].first = db[i].first
         /\ db[i].acct.pid # NoPid =>
              /\ db'[i].acct.platform = db[i].acct.platform
              /\ db'[i].acct.pid = db[i].acct.pid]_vars

\* When a page's channel becomes known for the first time, the page's own
\* unresolved candidate becomes that channel's: no twin is left behind.
UpgradeLeavesNoTwin ==
    [][\A w \in Worker :
         LET t == work[w] IN
         (/\ t.pc = "store" /\ db' # db
          /\ work'[w] = Idle
          /\ t.acct.pid # NoPid
          /\ SameKey(db, t.acct) = {})
         => Unresolved(db', t.acct, t.input) = {}]_vars

\* README: "Known identities are updated/deduplicated rather than appended
\* again."  A URL some candidate was resolved from never yields a new candidate.
KnownUrlNotAppended ==
    [][\A n \in DOMAIN db' \ DOMAIN db :
         ~ \E i \in DOMAIN db : db[i].input = db'[n].acct.url]_vars
=============================================================================
