----------------------------- MODULE InboxSync ------------------------------
(***************************************************************************)
(* Client.Sync (internal/sheets/client.go) writing FINDER_INBOX while the  *)
(* candidate table grows, curators review, requests and answers get lost,  *)
(* and processes stop.                                                     *)
(*                                                                         *)
(* A writer is a process that synchronises: the worker, or an enrich       *)
(* command with -sync-sheet.  It copies the candidates, reads the tables,  *)
(* plans (SyncPlan), makes the grid large enough and sends the plan in     *)
(* batches.  Every request goes through netx.Client, which repeats it when *)
(* no answer comes; the first copy may still be on the wire then.          *)
(***************************************************************************)
EXTENDS SyncPlan

CONSTANTS
    Writer,       \* the processes that synchronise this workbook
    Observation,  \* what Upsert may be given: [acct, input]
    Owner,        \* the channel a page points at
    BatchSize,    \* entries in one request (200 ranges in the code)
    Attempts,     \* tries of one request (3 in the code)
    GridStep,     \* rows are added in multiples of this (1000 in the code)
    GridLimit,    \* the most rows the cell budget allows
    CuratorWaits, \* curators leave a row alone while it is being appended
    CuratorFillsId, \* curators fill in a missing platform_id (column C)
    \* bounds of the model
    MaxClock,     \* instants for first_seen
    MaxFaults,    \* lost requests, lost answers and abandoned synchronisations
    MaxLosses     \* losses of the local database

ASSUME InboxAssumption ==
    /\ Observation \subseteq [acct : Account, input : Url]
    /\ Owner \in [Page -> Channel]
    /\ {BatchSize, Attempts, GridStep, GridLimit} \subseteq Nat \ {0}
    /\ {CuratorWaits, CuratorFillsId} \subseteq BOOLEAN
    /\ {MaxClock, MaxFaults, MaxLosses} \subseteq Nat

VARIABLES db,     \* candidates: id -> [acct, input, first]
          inbox,  \* the rows of FINDER_INBOX
          grid,   \* how many sheet rows the inbox has
          canon,  \* canonical ACCOUNTS and their links: channel -> MatchState
          wire,   \* requests sent and not yet applied or lost
          writer, \* what each writer is doing
          clock, faults, losses

vars == <<db, inbox, grid, canon, wire, writer, clock, faults, losses>>

Time == 0..MaxClock
Candidate == [acct : Account, input : Url, first : Time]
EntryType == [kind : {"refresh", "append"}, row : Nat \ {0}, id : CandidateId,
              acct : Account, first : Time, sync : SyncState]

\* A partial function from candidate IDs to S.
Table(f, S) ==
    /\ f = [c \in DOMAIN f |-> f[c]]
    /\ DOMAIN f \subseteq CandidateId
    /\ \A c \in DOMAIN f : f[c] \in S
Plan(f) == Table(f, EntryType)

Idle == [pc |-> "idle"]
Tries == 0..(Attempts - 1)

\* A writer is idle, has the candidates, has a plan and the rows it needs, is about
\* to grow the grid, or is sending the entries of the plan that are left.
TaskOK(t) ==
    \/ t = Idle
    \/ t.pc = "read" /\ t = [pc |-> "read", cands |-> t.cands] /\ Table(t.cands, Candidate)
    \/ /\ t.pc = "grid"
       /\ t = [pc |-> "grid", plan |-> t.plan, needed |-> t.needed]
       /\ Plan(t.plan) /\ t.needed \in Nat
    \/ /\ t.pc = "grow"
       /\ t = [pc |-> "grow", plan |-> t.plan, target |-> t.target]
       /\ Plan(t.plan) /\ t.target \in Nat
    \/ /\ t.pc \in {"send", "wait"}
       /\ t = [pc |-> t.pc, plan |-> t.plan, left |-> t.left, tries |-> t.tries]
       /\ Plan(t.plan) /\ t.left \subseteq DOMAIN t.plan /\ t.tries \in Tries

RequestOK(m) ==
    /\ m = [from |-> m.from, batch |-> m.batch, try |-> m.try]
    /\ m.from \in Writer /\ Plan(m.batch) /\ m.try \in Tries

TypeOK ==
    /\ Table(db, Candidate)
    /\ inbox \in Seq(Row(Time))
    /\ grid \in Nat
    /\ canon \in [Channel -> MatchState]
    /\ \A m \in wire : RequestOK(m)
    /\ writer = [w \in Writer |-> writer[w]] /\ \A w \in Writer : TaskOK(writer[w])
    /\ clock \in Time /\ faults \in 0..MaxFaults /\ losses \in 0..MaxLosses

Init ==
    /\ db = [c \in {} |-> {}]
    /\ inbox = << >>
    /\ grid = GridStep
    /\ canon = [ch \in Channel |-> "NEW"]
    /\ wire = {}
    /\ writer = [w \in Writer |-> Idle]
    /\ clock = 0 /\ faults = 0 /\ losses = 0

------------------------------------------------------------------------------
(* The local side: candidates come, change and are lost.                     *)

UsedIds == DOMAIN db \cup {inbox[i].id : i \in DOMAIN inbox}
             \cup UNION {DOMAIN m.batch : m \in wire}

\* Store.Upsert of one observation; a new ID is random, hence any unused one.
Observe(o) ==
    \E fresh \in CandidateId \ UsedIds :
        /\ db' = Upsert(db, o.acct, o.input, fresh, clock)
        /\ UNCHANGED <<inbox, grid, canon, wire, writer, clock, faults, losses>>

Tick ==
    /\ clock < MaxClock
    /\ clock' = clock + 1
    /\ UNCHANGED <<db, inbox, grid, canon, wire, writer, faults, losses>>

\* The data volume is lost and the processes start on an empty database.
LoseDatabase ==
    /\ losses < MaxLosses
    /\ losses' = losses + 1
    /\ db # [c \in {} |-> {}]
    /\ db' = [c \in {} |-> {}]
    /\ writer' = [w \in Writer |-> Idle]
    /\ wire' = {}
    /\ UNCHANGED <<inbox, grid, canon, clock, faults>>

------------------------------------------------------------------------------
(* Curators and the canonical registry.                                      *)

\* A request on the wire, or one its writer may still repeat, appends to row i.
Appending(batch, i) == \E c \in DOMAIN batch : batch[c].row = i /\ batch[c].kind = "append"
BeingAppended(i) ==
    \/ \E m \in wire : Appending(m.batch, i)
    \/ \E w \in Writer : writer[w].pc \in {"send", "wait"} /\ Appending(writer[w].plan, i)

Review(i, verdict) ==
    /\ inbox[i].id # NoId
    /\ inbox[i].review # verdict
    /\ CuratorWaits => ~BeingAppended(i)
    /\ inbox' = [inbox EXCEPT ![i].review = verdict]
    /\ UNCHANGED <<db, grid, canon, wire, writer, clock, faults, losses>>

FillId(i) ==
    /\ CuratorFillsId
    /\ inbox[i].id # NoId
    /\ inbox[i].acct.pid = NoPid
    /\ inbox[i].acct.url.kind = "page"
    /\ inbox' = [inbox EXCEPT ![i].acct.pid = Owner[inbox[i].acct.url.of]]
    /\ UNCHANGED <<db, grid, canon, wire, writer, clock, faults, losses>>

\* The receiver imports an account, and later links it to a persona.
Promote(ch) ==
    /\ canon[ch] # "KNOWN_LINKED"
    /\ canon' = [canon EXCEPT ![ch] = IF @ = "NEW" THEN "KNOWN_ACCOUNT" ELSE "KNOWN_LINKED"]
    /\ \E i \in Filled(inbox) : inbox[i].review = "verified" /\ inbox[i].acct.pid = ch
    /\ UNCHANGED <<db, inbox, grid, wire, writer, clock, faults, losses>>

------------------------------------------------------------------------------
(* One synchronisation.                                                      *)

\* CanonicalKeys: an account is known by its key or by its canonical URL.
CanonKeys(ch) == {Key(ChannelAccount(ch)), UrlKey("youtube", ChannelUrl(ch))}
Match == [a \in Account |->
            LET hits == {ch \in Channel : {Key(a), UrlKey(a.platform, a.url)}
                                             \cap CanonKeys(ch) # {}}
            IN  IF hits = {} THEN "NEW" ELSE canon[CHOOSE ch \in hits : TRUE]]

OwnRequests(w) == {m \in wire : m.from = w}

\* App.Once, or enrich -sync-sheet, copies the candidates.  The requests of its
\* last run are settled by then: minutes pass, or a restart and a discovery.
Begin(w) ==
    /\ writer[w] = Idle
    /\ OwnRequests(w) = {}
    /\ db # [c \in {} |-> {}]
    /\ writer' = [writer EXCEPT ![w] = [pc |-> "read", cands |-> db]]
    /\ UNCHANGED <<db, inbox, grid, canon, wire, clock, faults, losses>>

\* One read of the tables, and the plan; nothing to write ends the run.
ReadTables(w) ==
    /\ writer[w].pc = "read"
    /\ LET cands  == writer[w].cands
           plan   == PlanSync(inbox, cands, Match)
           needed == 1 + RowCount(inbox, plan)
       IN  writer' = [writer EXCEPT ![w] =
             IF Refused(inbox, cands) \/ DOMAIN plan = {} THEN Idle
             ELSE [pc |-> "grid", plan |-> plan, needed |-> needed]]
    /\ UNCHANGED <<db, inbox, grid, canon, wire, clock, faults, losses>>

\* Mutant of RoundUp: the last, partly used thousand is forgotten.
RoundDown(n) == (n \div GridStep) * GridStep

RoundUp(n) == ((n + GridStep - 1) \div GridStep) * GridStep

\* The writer sends the next of the entries that are left, for the first time or again.
Sending(plan, left, tries) == [pc |-> "send", plan |-> plan, left |-> left, tries |-> tries]
Ready(plan) == Sending(plan, DOMAIN plan, 0)

\* ensureRows reads the size of the grid ...
CheckGrid(w) ==
    /\ writer[w].pc = "grid"
    /\ LET plan   == writer[w].plan
           target == RoundUp(writer[w].needed)
       IN  writer' = [writer EXCEPT ![w] =
             IF grid >= writer[w].needed THEN Ready(plan)
             ELSE IF target > GridLimit THEN Idle
             ELSE [pc |-> "grow", plan |-> plan, target |-> target]]
    /\ UNCHANGED <<db, inbox, grid, canon, wire, clock, faults, losses>>

\* ... and sets it; a smaller grid cuts the rows below it off.
GrowGrid(w) ==
    /\ writer[w].pc = "grow"
    /\ grid' = writer[w].target
    /\ inbox' = SubSeq(inbox, 1, Earlier(Len(inbox), writer[w].target - 1))
    /\ writer' = [writer EXCEPT ![w] = Ready(writer[w].plan)]
    /\ UNCHANGED <<db, canon, wire, clock, faults, losses>>

\* The next BatchSize entries of the plan, in the order of their IDs.
NextBatch(t) ==
    [c \in {c \in t.left : Cardinality({d \in t.left : d < c}) < BatchSize} |-> t.plan[c]]

RequestOf(w) == [from |-> w, batch |-> NextBatch(writer[w]), try |-> writer[w].tries]

Send(w) ==
    /\ writer[w].pc = "send"
    /\ wire' = wire \cup {RequestOf(w)}
    /\ writer' = [writer EXCEPT ![w].pc = "wait"]
    /\ UNCHANGED <<db, inbox, grid, canon, clock, faults, losses>>

Waiting(w, m) == writer[w].pc = "wait" /\ m = RequestOf(w)

\* Mutant of Received: new rows go below whatever the sheet holds by then.
ReceivedAtEnd(m) ==
    ApplyBatch(inbox, [c \in DOMAIN m.batch |->
        IF m.batch[c].kind = "append" THEN [m.batch[c] EXCEPT !.row = Len(inbox) + 1]
        ELSE m.batch[c]])

\* values:batchUpdate writes the rows the request names.
Received(m) == ApplyBatch(inbox, m.batch)

\* A request reaches the sheet and its sender hears of it.
Deliver(m) ==
    /\ m \in wire
    /\ Waiting(m.from, m)
    /\ inbox' = Received(m)
    /\ wire' = wire \ {m}
    /\ LET left == writer[m.from].left \ DOMAIN m.batch
       IN  writer' = [writer EXCEPT ![m.from] =
             IF left = {} THEN Idle ELSE Sending(@.plan, left, 0)]
    /\ UNCHANGED <<db, grid, canon, clock, faults, losses>>

\* A request reaches the sheet but its sender has given up on it, or will.
DeliverUnheard(m) ==
    /\ m \in wire
    /\ ~Waiting(m.from, m) \/ faults < MaxFaults
    /\ faults' = IF Waiting(m.from, m) THEN faults + 1 ELSE faults
    /\ inbox' = Received(m)
    /\ wire' = wire \ {m}
    /\ UNCHANGED <<db, grid, canon, writer, clock, losses>>

\* A request never arrives.
Lose(m) ==
    /\ m \in wire
    /\ ~Waiting(m.from, m) \/ faults < MaxFaults
    /\ faults' = IF Waiting(m.from, m) THEN faults + 1 ELSE faults
    /\ wire' = wire \ {m}
    /\ UNCHANGED <<db, inbox, grid, canon, writer, clock, losses>>

MoreTries(t) == t.tries + 1 < Attempts

\* No answer: netx.Client.Bytes sends the same request again, or fails.
TimeOut(w) ==
    /\ writer[w].pc = "wait"
    /\ RequestOf(w) \in wire => faults < MaxFaults
    /\ faults' = IF RequestOf(w) \in wire THEN faults + 1 ELSE faults
    /\ writer' = [writer EXCEPT ![w] =
          IF MoreTries(@) THEN Sending(@.plan, @.left, @.tries + 1) ELSE Idle]
    /\ UNCHANGED <<db, inbox, grid, canon, wire, clock, losses>>

\* The context ends, the API refuses, or the process dies.
Abandon(w) ==
    /\ writer[w] # Idle
    /\ faults < MaxFaults
    /\ faults' = faults + 1
    /\ writer' = [writer EXCEPT ![w] = Idle]
    /\ UNCHANGED <<db, inbox, grid, canon, wire, clock, losses>>

WriterStep(w) ==
    \/ Begin(w) \/ ReadTables(w) \/ CheckGrid(w) \/ GrowGrid(w) \/ Send(w) \/ TimeOut(w)

Next ==
    \/ \E o \in Observation : Observe(o)
    \/ Tick
    \/ LoseDatabase
    \/ \E i \in DOMAIN inbox : FillId(i) \/ \E v \in Verdict : Review(i, v)
    \/ \E ch \in Channel : Promote(ch)
    \/ \E w \in Writer : WriterStep(w) \/ Abandon(w)
    \/ \E m \in wire : Deliver(m) \/ DeliverUnheard(m) \/ Lose(m)

Spec == Init /\ [][Next]_vars

\* Cycles are run again and again, and a request that is not lost is answered.
FairSpec ==
    /\ Spec
    /\ \A w \in Writer : WF_vars(WriterStep(w))
    /\ WF_vars(\E m \in wire : Deliver(m) \/ DeliverUnheard(m))

------------------------------------------------------------------------------
(* Properties *)

ChannelOf(a) == IF a.pid # NoPid THEN a.pid
                ELSE IF a.url.kind = "page" THEN Owner[a.url.of] ELSE a.url.of

\* The documents ask for a single writer of the workbook.
SingleWriter == \A v, w \in Writer : v = w

\* Discovery gives Upsert what Normalize makes of the input, or the account of the
\* channel that the input was resolved to.
OfObservation(a, u) == a = Normalized(u) \/ a = ChannelAccount(ChannelOf(Normalized(u)))
ObservationsResolved == \A o \in Observation : OfObservation(o.acct, o.input)

\* README: "Existing curator fields in FINDER_INBOX are preserved during machine
\* sync."  A row that is there never has its columns L:S changed by a request.
ReviewColumnsKept ==
    [][\A i \in Filled(inbox) :
         wire' # wire => i \in DOMAIN inbox' /\ inbox'[i].review = inbox[i].review]_vars

\* A row keeps its candidate_id, the key of the review decision in the hand-off,
\* and the account it is about, through every write, retry and restart.
RowIdentityFixed ==
    [][\A i \in Filled(inbox) :
         /\ i \in DOMAIN inbox'
         /\ inbox'[i].id = inbox[i].id
         /\ ChannelOf(inbox'[i].acct) = ChannelOf(inbox[i].acct)]_vars

\* The inbox never holds one candidate_id twice: PlanSync would refuse it from
\* then on, and every later synchronisation would fail.
InboxAccepted == ~DuplicateId(inbox)

\* "Known identities are updated/deduplicated rather than appended again": while the
\* database is not lost, two rows never stand for one account key.
OneRowPerKey ==
    losses = 0 =>
        \A i, j \in Filled(inbox) :
            Key(RowAccount(inbox[i])) = Key(RowAccount(inbox[j])) => i = j

\* OPERATIONS: a synchronisation keeps "the existing sheet candidate ID and earliest
\* first_seen".  No request, late or repeated, makes a row's first_seen later, nor does a
\* database that was lost and came back with later sightings.
FirstSeenEarliest ==
    [][\A i \in Filled(inbox) : i \in DOMAIN inbox' => inbox'[i].first <= inbox[i].first]_vars

\* No request addresses a row the grid does not have.
WritesFitGrid == \A m \in wire : \A c \in DOMAIN m.batch : m.batch[c].row + 1 <= grid

Due(ch) == canon[ch] # "KNOWN_LINKED" /\ \E c \in DOMAIN db : ChannelOf(db[c].acct) = ch
Listed(ch) == \E i \in Filled(inbox) : ChannelOf(inbox[i].acct) = ch

\* A candidate whose account is not linked yet is listed in the inbox in the end,
\* unless it is lost or linked first.
EveryAccountListed == \A ch \in Channel : Due(ch) ~> (Listed(ch) \/ ~Due(ch))

\* README: "Stable platform ID wins over mutable handle/display name."  A channel
\* ID that was resolved is shown in the inbox in the end, and from then on.
StableIdShown ==
    \A ch \in Channel :
        (\E c \in DOMAIN db : db[c].acct.pid = ch)
        ~> [](\E i \in Filled(inbox) : inbox[i].acct.pid = ch)

\* The inbox, seen as a queue of review decisions.
Queue == INSTANCE ReviewQueue WITH
    queue <- [id \in {inbox[i].id : i \in Filled(inbox)} |->
                LET row == inbox[CHOOSE i \in Filled(inbox) : inbox[i].id = id]
                IN  [channel |-> ChannelOf(row.acct), verdict |-> row.review]]
ImplementsReviewQueue == Queue!Spec
=============================================================================
