------------------------------ MODULE Accounts ------------------------------
(***************************************************************************)
(* What identifies a public account (internal/model/model.go) and how the  *)
(* candidate table finds the row an observation belongs to                 *)
(* (internal/store/store.go).  Pure operators, no state.                   *)
(*                                                                         *)
(* A channel is the thing itself, known by its platform ID.  A page is a   *)
(* mutable public name (@handle, /user/, a Twitch login): it points at a   *)
(* channel but carries no ID.  A watch URL is a video of a channel; one    *)
(* video per channel is enough to tell its key from the channel's key.     *)
(***************************************************************************)
EXTENDS Naturals, FiniteSets

CONSTANTS Channel,  \* the accounts that exist, named by their platform ID
          Page,     \* mutable names of accounts
          NoPid     \* the empty platform_id

ASSUME NoPidAssumption == NoPid \notin Channel

Url == [kind : {"page"}, of : Page] \cup [kind : {"channel", "watch"}, of : Channel]

PageUrl(p) == [kind |-> "page", of |-> p]
ChannelUrl(ch) == [kind |-> "channel", of |-> ch]
WatchUrl(ch) == [kind |-> "watch", of |-> ch]

Account == [platform : {"youtube", "youtube_video"}, pid : Channel \cup {NoPid}, url : Url]

\* model.Normalize on the three kinds of link.
PageAccount(p) == [platform |-> "youtube", pid |-> NoPid, url |-> PageUrl(p)]
ChannelAccount(ch) == [platform |-> "youtube", pid |-> ch, url |-> ChannelUrl(ch)]
VideoAccount(ch) == [platform |-> "youtube_video", pid |-> ch, url |-> WatchUrl(ch)]

\* model.Normalize(raw) for a URL that is already canonical.
Normalized(u) == CASE u.kind = "page"    -> PageAccount(u.of)
                   [] u.kind = "channel" -> ChannelAccount(u.of)
                   [] u.kind = "watch"   -> VideoAccount(u.of)

IdKey(platform, pid) == <<platform, "id", pid>>
UrlKey(platform, url) == <<platform, "url", url>>

\* Account.Key: the platform ID when there is one, else the ID embedded in the
\* URL, else the normalized URL.
Key(a) ==
    LET norm == Normalized(a.url)
    IN  IF a.pid # NoPid THEN IdKey(a.platform, a.pid)
        ELSE IF norm.pid # NoPid THEN IdKey(norm.platform, norm.pid)
        ELSE UrlKey(norm.platform, norm.url)

------------------------------------------------------------------------------
(* The candidate table: a partial function from candidate IDs to rows.       *)

\* The rows Upsert would reuse: by account key, else (for a resolved account)
\* the unresolved row of the URL it was resolved from.
SameKey(db, a) == {i \in DOMAIN db : Key(db[i].acct) = Key(a)}

\* Mutants of Unresolved and Matching: the row is looked up by its input URL only;
\* the URL is tried before the key; the URL is not tried.
SameInput(db, a, input) == {i \in DOMAIN db : db[i].input = input}
UrlBeforeKey(db, a, input) ==
    LET byUrl == {i \in DOMAIN db : db[i].acct.pid = NoPid /\ db[i].acct.url = input}
    IN  IF byUrl # {} THEN byUrl ELSE SameKey(db, a)
KeyOnly(db, a, input) == SameKey(db, a)

Unresolved(db, a, input) ==
    {i \in DOMAIN db : /\ db[i].acct.platform = a.platform
                       /\ db[i].acct.pid = NoPid
                       /\ db[i].acct.url = input}

Matching(db, a, input) ==
    IF SameKey(db, a) # {} THEN SameKey(db, a)
    ELSE IF a.pid # NoPid THEN Unresolved(db, a, input)
    ELSE {}

\* The row an observation is merged into, an existing one or the new ID's.
UpsertedId(db, a, input, fresh) ==
    IF Matching(db, a, input) # {} THEN CHOOSE i \in Matching(db, a, input) : TRUE
    ELSE fresh

\* Store.Upsert: ID and first_seen of a reused row stay, the account is replaced.
Upsert(db, a, input, fresh, now) ==
    LET id  == UpsertedId(db, a, input, fresh)
        row == [acct |-> a, input |-> input,
                first |-> IF Matching(db, a, input) # {} THEN db[id].first ELSE now]
    IN  [i \in DOMAIN db \cup {id} |-> IF i = id THEN row ELSE db[i]]
=============================================================================
