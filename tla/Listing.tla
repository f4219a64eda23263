------------------------------ MODULE Listing ------------------------------
(***************************************************************************)
(* Engine.Discover (internal/sources): the leads of one source.  Each kind *)
(* of source has its own rules for invalid and repeated records, for the   *)
(* item and page caps and for cursors that repeat; they decide whether a   *)
(* listing that misses something says so.                                  *)
(*                                                                         *)
(* A source is one feed or several (the queries of a search, the creators  *)
(* of a directory), a feed is one page or several chained by cursors.  The *)
(* server's answers are arbitrary, and may change between two requests.    *)
(*                                                                         *)
(* csv goes by the rules of jsonl, bluesky_starterpack by bluesky_list's.  *)
(***************************************************************************)
EXTENDS Naturals, Sequences, FiniteSets

CONSTANTS Account,  \* what a valid record is normalised to, by its key
          Bad,      \* a record that Normalize refuses
          Cursor,
          NoCursor,
          Limit,    \* max_items
          MaxPages, \* max_pages
          MaxFeeds, \* bound: feeds of a source
          PageSize  \* bound: records on a page

ASSUME ListingAssumption ==
    /\ Bad \notin Account /\ NoCursor \notin Cursor
    /\ {Limit, MaxPages, MaxFeeds} \subseteq Nat \ {0}
    /\ PageSize \in Nat

VARIABLES kind,
          feeds,    \* how many feeds the source has
          feed,     \* the one that is read
          page,     \* pages of the feed that were requested
          rest,     \* records of the page still to read
          next,     \* cursor that came with the page
          cursors,  \* cursors a new one is compared with
          seen,     \* accounts a new one is compared with
          out,      \* the leads so far
          counted,  \* something to report when all else is done
          pc,
          failed,   \* the listing returns an error
          offered,  \* history: accounts on the pages received
          left      \* history: feeds left with a new cursor, and their pages

vars == <<kind, feeds, feed, page, rest, next, cursors, seen, out, counted, pc, failed,
          offered, left>>

Single == {"kerlos", "html", "raw_links", "vtuberthaiinfo", "jsonl", "json"}
Paged == {"bluesky_list", "bluesky_search", "youtube_search", "twitch_th"}
Kind == Single \cup Paged \cup {"tipjai"}
ManyFeeds == {"bluesky_search", "twitch_th", "tipjai"}

Record == Account \cup {Bad}
Page == UNION {[1..n -> Record] : n \in 0..PageSize}
Delivered == {out[i] : i \in DOMAIN out}

TypeOK ==
    /\ kind \in Kind
    /\ feeds \in 1..MaxFeeds /\ feed \in 1..feeds
    /\ kind \notin ManyFeeds => feeds = 1
    /\ page \in 0..MaxPages
    /\ rest \in Seq(Record)
    /\ next \in Cursor \cup {NoCursor} /\ cursors \subseteq Cursor
    /\ seen \subseteq Account /\ out \in Seq(Account)
    /\ counted \in BOOLEAN /\ failed \in BOOLEAN
    /\ pc \in {"fetch", "read", "finish", "done"}
    /\ offered \subseteq Account
    /\ left \subseteq (1..feeds) \X (1..MaxPages)

Init ==
    /\ kind \in Kind
    /\ feeds \in 1..MaxFeeds /\ (kind \notin ManyFeeds => feeds = 1)
    /\ feed = 1 /\ page = 0
    /\ rest = <<>> /\ next = NoCursor /\ cursors = {}
    /\ seen = {} /\ out = <<>> /\ counted = FALSE
    /\ pc = "fetch" /\ failed = FALSE
    /\ offered = {} /\ left = {}

------------------------------------------------------------------------------
(* The rules of the kinds.                                                   *)

StopsAtBad == {"bluesky_list", "youtube_search", "kerlos", "jsonl"}
CountsBad == {"json"}
SkipsRepeated == {"bluesky_list", "bluesky_search", "twitch_th", "tipjai", "html", "raw_links",
                  "vtuberthaiinfo"}
RefusesEmpty == {"bluesky_search", "kerlos", "html", "raw_links", "vtuberthaiinfo"}

\* A page or cursor too many is an error; the others go on without it.
RefusesMorePages == {"bluesky_list", "youtube_search"}

\* The item cap: checked before any record, or before a new account.
CapsRecords == {"youtube_search", "jsonl", "json"}
CapsAccounts == {"bluesky_list", "bluesky_search"}
\* Or afterwards: all that is over is cut off, a talent or a creator at a time.
CutsOver == {"vtuberthaiinfo", "tipjai"}

\* The pages behind a cursor: of twitch_th the streams, not its searches.
HasCursors == kind \in Paged /\ (kind = "twitch_th" => feed = 1)

Skipped(r) == r = Bad \/ (kind \in SkipsRepeated /\ r \in seen)

\* Mutant of NoRoomFor: one lead too many.
NoRoomForNext(r) ==
    /\ Len(out) > Limit
    /\ kind \in CapsRecords \/ (kind \in CapsAccounts /\ ~Skipped(r))

NoRoomFor(r) ==
    /\ Len(out) >= Limit
    /\ kind \in CapsRecords \/ (kind \in CapsAccounts /\ ~Skipped(r))

------------------------------------------------------------------------------
(* Requests.                                                                 *)

Stop(leads, error) ==
    /\ pc' = "done" /\ out' = leads /\ failed' = error
    /\ UNCHANGED <<kind, feeds, feed, page, next, cursors, counted, offered, left>>

\* Mutant of Counted: a page is requested without being counted.
Uncounted(n) == n

\* The page loop's variable.
Counted(n) == n + 1

Fetch ==
    /\ pc = "fetch"
    /\ rest' \in Page
    /\ next' \in (IF HasCursors THEN Cursor ELSE {}) \cup {NoCursor}
    /\ offered' = offered \cup ({rest'[i] : i \in DOMAIN rest'} \ {Bad})
    /\ seen' = IF kind = "tipjai" THEN {} ELSE seen
    /\ page' = Counted(page)
    /\ pc' = "read"
    /\ UNCHANGED <<kind, feeds, feed, cursors, out, counted, failed, left>>

\* The configuration is refused, or there is no file, list or directory.
CannotStart ==
    /\ pc = "fetch" /\ feed = 1 /\ page = 0
    /\ Stop(<<>>, TRUE)
    /\ UNCHANGED <<rest, seen>>

\* A creator that cannot be read is counted, anything else ends the listing; only
\* twitch_th keeps nothing then.  A cancelled listing ends in any case.
FetchFails ==
    /\ pc = "fetch"
    /\ Stop(IF kind = "twitch_th" THEN <<>> ELSE out, TRUE)
    /\ UNCHANGED <<rest, seen>>

------------------------------------------------------------------------------
(* Feeds.                                                                    *)

\* All creators but the first few are left out.
MoreFeeds == feed < feeds /\ (kind = "tipjai" => feed < MaxPages)

FeedEnds ==
    /\ IF MoreFeeds THEN /\ feed' = feed + 1 /\ page' = 0 /\ cursors' = {}
                         /\ pc' = "fetch"
                    ELSE /\ pc' = "finish"
                         /\ UNCHANGED <<feed, page, cursors>>
    /\ next' = NoCursor /\ rest' = <<>>
    /\ UNCHANGED <<kind, feeds, seen, out, failed, offered>>

CreatorFails ==
    /\ pc = "fetch" /\ kind = "tipjai"
    /\ counted' = TRUE
    /\ FeedEnds
    /\ UNCHANGED left

\* All that was found so far exceeds the cap.
TooMany == kind \in CutsOver /\ Len(out) >= Limit

PageEnds == pc = "read" /\ rest = <<>> /\ ~TooMany

\* twitch_th compares cursors with none, bluesky_search with the last.
Compared == CASE kind \in RefusesMorePages -> cursors \cup {next}
              [] kind = "bluesky_search"   -> {next}
              [] kind = "twitch_th"        -> {}

\* Mutant of Stuck: one page too many.
StuckLater == next \in cursors \/ (next # NoCursor /\ page > MaxPages)

\* A cursor remains that is not followed.
Stuck == next \in cursors \/ (next # NoCursor /\ page = MaxPages)

FollowCursor ==
    /\ PageEnds /\ next # NoCursor /\ ~Stuck
    /\ cursors' = Compared
    /\ pc' = "fetch"
    /\ UNCHANGED <<kind, feeds, feed, page, rest, next, seen, out, counted, failed, offered, left>>

\* Mutant of CursorRefused: no kind reports the page cap.
NeverRefused == FALSE

\* The remaining cursor is an error.
CursorRefused == kind \in RefusesMorePages

Incomplete ==
    /\ PageEnds /\ Stuck /\ CursorRefused
    /\ Stop(out, TRUE)
    /\ UNCHANGED <<rest, seen>>

NextFeed ==
    /\ PageEnds
    /\ next = NoCursor \/ (Stuck /\ ~CursorRefused)
    /\ left' = IF next \in {NoCursor} \cup cursors THEN left ELSE left \cup {<<feed, page>>}
    /\ FeedEnds
    /\ UNCHANGED counted

------------------------------------------------------------------------------
(* Records.                                                                  *)

Reading == pc = "read" /\ rest # <<>>

\* Past the cap, or not to be read.
Refuse ==
    /\ Reading
    /\ NoRoomFor(Head(rest)) \/ (Head(rest) = Bad /\ kind \in StopsAtBad)
    /\ Stop(out, TRUE)
    /\ UNCHANGED <<rest, seen>>

Skip ==
    /\ Reading /\ ~NoRoomFor(Head(rest)) /\ Skipped(Head(rest))
    /\ Head(rest) = Bad => kind \notin StopsAtBad
    /\ rest' = Tail(rest)
    /\ counted' = (counted \/ (Head(rest) = Bad /\ kind \in CountsBad))
    /\ UNCHANGED <<kind, feeds, feed, page, next, cursors, seen, out, pc, failed, offered, left>>

\* The record just taken is the last one: an error for html, for kerlos if it was not the
\* last of the file.
CappedBy(leads) ==
    /\ Len(leads) >= Limit
    /\ kind \in {"html", "raw_links"} \/ (kind = "kerlos" /\ Tail(rest) # <<>>)

Take ==
    /\ Reading /\ ~NoRoomFor(Head(rest)) /\ ~Skipped(Head(rest))
    /\ kind = "vtuberthaiinfo" => Len(out) <= Limit \* a talent has two channels
    /\ LET leads == Append(out, Head(rest))
       IN  IF CappedBy(leads) THEN Stop(leads, kind # "raw_links")
           ELSE /\ out' = leads
                /\ UNCHANGED <<kind, feeds, feed, page, next, cursors, counted, pc, failed,
                               offered, left>>
    /\ rest' = Tail(rest)
    /\ seen' = seen \cup {Head(rest)}

CutOff ==
    /\ pc = "read" /\ TooMany
    /\ kind = "tipjai" => rest = <<>>
    /\ Stop(SubSeq(out, 1, Limit), TRUE)
    /\ UNCHANGED <<rest, seen>>

------------------------------------------------------------------------------
\* What was counted is reported; twitch_th returns any of its finds up to the cap.
Finish ==
    /\ pc = "finish"
    /\ \E leads \in IF kind = "twitch_th" /\ Len(out) > Limit THEN [1..Limit -> Delivered]
                    ELSE {out} :
         /\ Cardinality({leads[i] : i \in DOMAIN leads}) = Len(leads) \/ leads = out
         /\ Stop(leads, counted \/ (out = <<>> /\ kind \in RefusesEmpty))
    /\ UNCHANGED <<rest, seen>>

Next ==
    \/ Fetch \/ CannotStart \/ FetchFails \/ CreatorFails
    \/ Refuse \/ Skip \/ Take \/ CutOff
    \/ FollowCursor \/ Incomplete \/ NextFeed \/ Finish

Spec == Init /\ [][Next]_vars

\* Every request returns, with an answer or an error, and the parsers run on.
FairSpec == Spec /\ WF_vars(Next)

------------------------------------------------------------------------------
(* Properties *)

\* A listing without an error has delivered all it was offered, and was offered all there
\* is, but for the caps that are silent: the item cap of raw_links and twitch_th, the page
\* cap of bluesky_search and twitch_th, and the creators tipjai is not asked for.  The last
\* two fall short of OPERATIONS ("pagination cap are visible errors, not silent empty
\* successes"); every other kind keeps that promise.
NoErrorMeansAll ==
    pc = "done" /\ ~failed =>
       /\ offered \subseteq Delivered \/ (kind \in {"raw_links", "twitch_th"} /\ Len(out) = Limit)
       /\ feed < feeds => kind = "tipjai" /\ feed = MaxPages
       /\ \A x \in left : kind \in {"bluesky_search", "twitch_th"} /\ x[2] = MaxPages

\* Whatever the pages hold, no kind returns more leads than max_items.
LimitKept == pc = "done" => Len(out) <= Limit

\* A listing ends, however the server chains its cursors.
ListingEnds == <>(pc = "done")
=============================================================================
