------------------------------- MODULE Enrich -------------------------------
(***************************************************************************)
(* The enrich command (cmd/finder/main.go, internal/enrich/enrich.go): it  *)
(* notes which accounts are known, fetches the profiles of a batch of      *)
(* Bluesky candidates, and for every link in them resolves the account,    *)
(* adds a candidate when the account is not known, and proposes a relation *)
(* between profile and account.  It takes no lock: the workers of a cycle  *)
(* write the same tables between any two of its steps.                     *)
(*                                                                         *)
(* As far as the candidate table goes the command is one more goroutine of *)
(* Ingest, in a process of its own.                                        *)
(***************************************************************************)
EXTENDS Ingest

CONSTANTS Enricher,  \* the command's goroutine
          Profile,   \* Bluesky candidates, each the evidence of its own links
          Bio,       \* the links in each profile's description
          Reported,  \* the leads of the sources of the cycle
          Limit,     \* flag -limit: profiles in a batch
          Canonical, \* accounts of the sheet ACCOUNTS
          Queued,    \* accounts of the rows of FINDER_INBOX
          MaxBatches \* bound: runs of the command

ASSUME EnrichAssumption ==
    /\ Enricher \in Worker /\ {Enricher} \in Process
    /\ Reported \subseteq Lead
    /\ Profile \subseteq Source /\ Bio \in [Profile -> SUBSET Lead]
    /\ Canonical \cup Queued \subseteq Account
    /\ Limit \in Nat
    /\ MaxBatches \in Nat

\* What a source or a profile reports is what model.Normalize made of a link.
ASSUME NormalAssumption == \A a \in Lead : a = Normalized(a.url)

\* The workbook's accounts: whatever ID its platform_id column has stands beside their URL.
Listed == Canonical \cup Queued

VARIABLES proposals, \* account_relation_proposals
          enr,       \* where the command is, and what it knows
          hand,      \* the profile and account it is busy with, or <<>>
          batches,
          unfiled    \* history: accounts whose candidate could not be stored

cycleVars == vars
enrichVars == <<proposals, enr, hand, batches, unfiled>>
allVars == <<vars, enrichVars>>

Proposal == [from : Profile, to : Account]

\* The two keys the known maps of an account are filled and asked with.
AccountKeys(a) == {Key(a), UrlKey(a.platform, a.url)}
KeysOf(accounts) == UNION {AccountKeys(a) : a \in accounts}

NotRunning == [pc |-> "idle", todo |-> {}, known |-> {}, now |-> 0]

EnrichTypeOK ==
    /\ TypeOK
    /\ proposals \subseteq Proposal
    /\ enr \in [pc : {"idle", "profiles", "links", "resolve", "propose"},
               todo : SUBSET (Profile \X Lead), known : SUBSET KeysOf(Account), now : 0..clock]
    /\ hand \in {<<>>} \cup Profile \X Account
    /\ hand # <<>> <=> enr.pc \in {"resolve", "propose"}
    /\ work[Enricher] # Idle <=> enr.pc = "resolve"
    /\ batches \in 0..MaxBatches
    /\ unfiled \subseteq Account

EnrichInit ==
    /\ Init
    /\ proposals = {} /\ enr = NotRunning /\ hand = <<>>
    /\ batches = 0 /\ unfiled = {}

------------------------------------------------------------------------------
(* What is known, and the profiles.                                          *)

\* limit and offset choose some of the candidates of the platform.  What is known then:
\* the inbox if the workbook can be read, the canonical tables if they have their columns,
\* and all candidates; errors are ignored.  Only the last of these reads has the cycle's
\* writes beside it.
StartBatch(batch) ==
    /\ enr = NotRunning
    /\ batches < MaxBatches
    /\ batches' = batches + 1
    /\ \E listed \in {{}, Queued, Listed}, found \in {{}, {db[i].acct : i \in DOMAIN db}} :
         enr' = [enr EXCEPT !.pc = "profiles",
                            !.todo = UNION {{b} \X Bio[b] : b \in batch},
                            !.known = KeysOf(listed \cup found)]
    /\ UNCHANGED <<cycleVars, proposals, hand, unfiled>>

\* All profiles are fetched first, some may no longer exist; one time for the batch.
FetchProfiles ==
    /\ enr.pc = "profiles"
    /\ \E gone \in SUBSET Profile :
         enr' = [enr EXCEPT !.pc = "links", !.todo = {x \in @ : x[1] \notin gone}, !.now = clock]
    /\ UNCHANGED <<cycleVars, proposals, hand, batches, unfiled>>

\* One request failing ends the command before anything is stored.
FetchFails ==
    /\ enr.pc = "profiles"
    /\ enr' = NotRunning
    /\ UNCHANGED <<cycleVars, proposals, hand, batches, unfiled>>

------------------------------------------------------------------------------
(* One link.                                                                 *)

OpenLink(x) ==
    /\ enr.pc = "links" /\ x \in enr.todo
    /\ Take(Enricher, x[2], x[1])
    /\ enr' = [enr EXCEPT !.pc = "resolve", !.todo = @ \ {x}]
    /\ hand' = x
    /\ UNCHANGED <<proposals, batches, unfiled>>

\* Engine.Resolve; a failure leaves the link as it was.
ResolveLink ==
    /\ Look(Enricher) \/ Answer(Enricher) \/ NoAnswer(Enricher) \/ Memo(Enricher)
    /\ UNCHANGED enrichVars

\* Mutant of Known: the link is looked for, not the account it was resolved to.
LinkKnown(t) == AccountKeys(Normalized(t.input)) \cap enr.known # {}

Known(t) == AccountKeys(t.acct) \cap enr.known # {}

\* The account in hand is settled and goes on to be proposed.
Settled(known) ==
    /\ enr' = [enr EXCEPT !.pc = "propose", !.known = known]
    /\ hand' = <<hand[1], work[Enricher].acct>>
    /\ UNCHANGED <<proposals, batches>>

MatchKnown ==
    /\ work[Enricher].pc = "store" /\ Known(work[Enricher])
    /\ work' = [work EXCEPT ![Enricher] = Idle]
    /\ Settled(enr.known)
    /\ UNCHANGED <<db, prov, cache, owner, clock, moves, unfiled>>

AddCandidate ==
    /\ work[Enricher].pc = "store" /\ ~Known(work[Enricher])
    /\ StoreAt(Enricher, enr.now)
    /\ Settled(enr.known \cup AccountKeys(work[Enricher].acct))
    /\ UNCHANGED unfiled

\* The error is ignored: the relation is proposed all the same.
AddFails ==
    /\ work[Enricher].pc = "store" /\ ~Known(work[Enricher])
    /\ StoreFails(Enricher)
    /\ Settled(enr.known)
    /\ unfiled' = unfiled \cup {work[Enricher].acct}

\* A YouTube page without its channel is not proposed.
Proposable(a) == a.platform = "youtube" => a.pid # NoPid

\* A proposal of the same profile and account is updated; an error is ignored.
Propose ==
    /\ enr.pc = "propose"
    /\ \/ proposals' = proposals \cup
                         {p \in {[from |-> hand[1], to |-> hand[2]]} : Proposable(p.to)}
       \/ UNCHANGED proposals
    /\ enr' = [enr EXCEPT !.pc = "links"]
    /\ hand' = <<>>
    /\ UNCHANGED <<cycleVars, batches, unfiled>>

EndBatch ==
    /\ enr.pc = "links" /\ enr.todo = {}
    /\ enr' = NotRunning
    /\ UNCHANGED <<cycleVars, proposals, hand, batches, unfiled>>

\* The command is interrupted; what it has stored stays.
EnrichDies ==
    /\ enr.pc # "idle"
    /\ enr' = NotRunning /\ hand' = <<>>
    /\ work' = [work EXCEPT ![Enricher] = Idle]
    /\ UNCHANGED <<db, prov, cache, owner, clock, moves, proposals, batches, unfiled>>

------------------------------------------------------------------------------
EnrichStep ==
    \/ \E batch \in SUBSET Profile : Cardinality(batch) <= Limit /\ StartBatch(batch)
    \/ FetchProfiles \/ FetchFails
    \/ \E x \in enr.todo : OpenLink(x)
    \/ ResolveLink \/ MatchKnown \/ AddCandidate \/ AddFails
    \/ Propose \/ EndBatch \/ EnrichDies

\* The cycle and the world outside go on.
CycleStep ==
    /\ \/ \E w \in Worker \ {Enricher} :
            WorkerStep(w) \/ \E lead \in Reported, src \in Source \ Profile : Take(w, lead, src)
       \/ \E proc \in Process : Enricher \notin proc /\ Restart(proc)
       \/ Tick
       \/ \E u \in Url : Expire(u)
       \/ \E p \in Page, ch \in Channel : HandleMoves(p, ch)
    /\ UNCHANGED enrichVars

EnrichNext == EnrichStep \/ CycleStep

EnrichSpec == EnrichInit /\ [][EnrichNext]_allVars

------------------------------------------------------------------------------
(* Properties *)

\* Some candidate stands for the account.
Filed(a) == \E i \in DOMAIN db : Key(db[i].acct) = Key(a)

\* The workbook lists the account, by its ID or by its link.
InWorkbook(a) == AccountKeys(a) \cap KeysOf(Listed) # {}

\* Whatever the workers do to the table after the known accounts were noted, a relation
\* is proposed to an account that a reviewer can find: one of the workbook, or of a
\* candidate, unless storing that candidate failed.
ProposalBacked ==
    \A p \in proposals :
       \/ Filed(p.to)
       \/ InWorkbook(p.to)
       \/ \E a \in unfiled : Key(a) = Key(p.to)
=============================================================================
