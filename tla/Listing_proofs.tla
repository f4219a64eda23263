--------------------------- MODULE Listing_proofs ---------------------------
(***************************************************************************)
(* A listing without an error is complete but for the silent caps, and     *)
(* max_items holds, for every kind of source, any pages, cursors and caps. *)
(*                                                                         *)
(* The argument: until the listing ends, what a page offered is delivered  *)
(* or still to read (Owed), a feed was left early only by the kinds that   *)
(* may (LeftEarly), and there is room for what the kind will still take    *)
(* without looking (Room).  What a step may leave out, it reports.         *)
(***************************************************************************)
EXTENDS Listing, SequenceTheorems, TLAPS

Elements(s) == {s[i] : i \in DOMAIN s}

Owed == offered \subseteq Delivered \cup Elements(rest)

LeftEarly == \A x \in left : kind \in {"bluesky_search", "twitch_th"} /\ x[2] = MaxPages

\* Pages, cursors and feeds at the points of the loops.
Position ==
    /\ pc \in {"fetch", "finish"} => rest = <<>>
    /\ pc = "fetch" => page < MaxPages
    /\ pc = "read" => page > 0
    /\ next # NoCursor => kind \in Paged
    /\ kind = "tipjai" => feed <= MaxPages
    /\ pc = "finish" => ~MoreFeeds

Room ==
    /\ kind \in CapsRecords \cup CapsAccounts => Len(out) <= Limit
    /\ kind \in {"html", "raw_links"} => Len(out) < Limit
    /\ kind = "kerlos" /\ (rest # <<>> \/ pc = "fetch") => Len(out) < Limit
    /\ kind = "kerlos" => Len(out) <= Limit
    /\ kind \in CutsOver /\ pc \in {"fetch", "finish"} => Len(out) < Limit

ListingInv ==
    /\ TypeOK
    /\ pc # "done" => Owed /\ seen \subseteq Delivered /\ LeftEarly /\ Position /\ Room
    /\ NoErrorMeansAll /\ LimitKept

------------------------------------------------------------------------------
(* Sequences                                                                 *)

LEMMA PageSeq ==
    ASSUME NEW s \in Page
    PROVE  s \in Seq(Record) /\ Elements(s) \subseteq Record
<1>1. PICK n \in 0..PageSize : s \in [1..n -> Record]
  BY DEF Page
<1>2. n \in Nat
  BY <1>1, ListingAssumption
<1> QED BY <1>1, <1>2 DEF Elements

\* Reading a record leaves the others to read.
LEMMA TailElements ==
    ASSUME NEW s \in Seq(Record), s # <<>>
    PROVE  /\ Head(s) \in Record /\ Tail(s) \in Seq(Record)
           /\ Elements(s) \subseteq Elements(Tail(s)) \cup {Head(s)}
<1>1. Len(s) \in Nat \ {0} /\ DOMAIN s = 1..Len(s)
  BY EmptySeq, LenProperties
<1>2. /\ Head(s) \in Record /\ Tail(s) \in Seq(Record)
      /\ Len(Tail(s)) = Len(s) - 1
      /\ \A i \in 1..Len(Tail(s)) : Tail(s)[i] = s[i + 1]
  BY HeadTailProperties
<1>3. DOMAIN Tail(s) = 1..(Len(s) - 1)
  BY <1>2, LenProperties
<1>4. ASSUME NEW i \in DOMAIN s PROVE s[i] = Head(s) \/ s[i] \in Elements(Tail(s))
  <2>1. CASE i = 1
    BY <1>1, <2>1
  <2>2. CASE i # 1
    <3>1. i - 1 \in DOMAIN Tail(s) /\ Tail(s)[i - 1] = s[i]
      BY <1>1, <1>2, <1>3, <2>2
    <3> QED BY <3>1 DEF Elements
  <2> QED BY <2>1, <2>2
<1> QED BY <1>2, <1>4 DEF Elements

LEMMA AppendElements ==
    ASSUME NEW s \in Seq(Account), NEW a \in Account
    PROVE  /\ Append(s, a) \in Seq(Account) /\ Len(Append(s, a)) = Len(s) + 1
           /\ Elements(Append(s, a)) = Elements(s) \cup {a}
<1>1. /\ Append(s, a) \in Seq(Account) /\ Len(Append(s, a)) = Len(s) + 1
      /\ \A i \in 1..Len(s) : Append(s, a)[i] = s[i]
      /\ Append(s, a)[Len(s) + 1] = a
  BY AppendProperties
<1>2. DOMAIN s = 1..Len(s) /\ Len(s) \in Nat /\ DOMAIN Append(s, a) = 1..(Len(s) + 1)
  BY <1>1, LenProperties
<1>3. 1..(Len(s) + 1) = 1..Len(s) \cup {Len(s) + 1}
  BY <1>2
<1> QED BY <1>1, <1>2, <1>3 DEF Elements

------------------------------------------------------------------------------
(* The steps                                                                 *)

\* A listing that ends with an error has nothing more to show than its types and room.
LEMMA StopsWithError ==
    ASSUME ListingInv, pc # "done", NEW leads \in Seq(Account), Len(leads) <= Limit,
           Stop(leads, TRUE), rest' \in Seq(Record), seen' \subseteq Account
    PROVE  ListingInv'
<1>1. TypeOK'
  BY DEF ListingInv, TypeOK, Stop
<1> QED BY <1>1 DEF ListingInv, Stop, NoErrorMeansAll, LimitKept

\* The parts a step shows to be kept while the listing goes on.
LEMMA GoesOn ==
    ASSUME TypeOK', pc' # "done",
           Owed', (seen \subseteq Delivered)', LeftEarly', Position', Room'
    PROVE  ListingInv'
BY DEF ListingInv, NoErrorMeansAll, LimitKept

LEMMA FetchStep == ASSUME ListingInv, Fetch PROVE ListingInv'
<1> USE DEF ListingInv
<1>1. rest' \in Seq(Record) /\ Elements(rest') \subseteq Record
  BY PageSeq DEF Fetch
<1>2. offered' \subseteq offered \cup Elements(rest') /\ offered' \subseteq offered \cup Account
  BY <1>1 DEF Fetch, Elements, Record
<1>3. rest = <<>> /\ page < MaxPages /\ page \in Nat /\ MaxPages \in Nat
  BY ListingAssumption DEF Fetch, TypeOK, Position
<1>4. Elements(rest) = {}
  BY <1>3 DEF Elements
<1>5. TypeOK'
  BY <1>1, <1>2, <1>3 DEF Fetch, TypeOK, Counted
<1>6. Owed'
  BY <1>2, <1>4 DEF Fetch, Owed, Delivered
<1>7. (seen \subseteq Delivered)' /\ LeftEarly'
  BY DEF Fetch, Delivered, LeftEarly
<1>8. Position'
  BY <1>3 DEF Fetch, Position, Counted, HasCursors
<1>9. Room'
  BY DEF Fetch, Room
<1> QED BY <1>5, <1>6, <1>7, <1>8, <1>9, GoesOn DEF Fetch

\* What has been found when a request fails, or a record is refused, fits.
LEMMA FoundFits ==
    ASSUME ListingInv, pc # "done", kind # "twitch_th",
           kind \in CutsOver => pc \in {"fetch", "finish"}
    PROVE  Len(out) <= Limit
<1>1. Len(out) \in Nat /\ Limit \in Nat
  BY LenProperties, ListingAssumption DEF ListingInv, TypeOK
<1> QED
  BY <1>1 DEF ListingInv, TypeOK, Room, Kind, Single, Paged, CapsRecords, CapsAccounts, CutsOver

LEMMA FailingStep ==
    ASSUME ListingInv, CannotStart \/ FetchFails \/ Refuse \/ Incomplete
    PROVE  ListingInv'
<1>1. <<>> \in Seq(Account) /\ Len(<<>>) <= Limit
  BY EmptySeq, ListingAssumption
<1>2. CASE CannotStart
  <2>1. Stop(<<>>, TRUE)
    BY <1>2 DEF CannotStart
  <2>2. PICK leads : leads \in Seq(Account) /\ Len(leads) <= Limit /\ Stop(leads, TRUE)
    BY <1>1, <2>1, Zenon
  <2> QED BY <1>2, <2>2, StopsWithError DEF CannotStart, ListingInv, TypeOK
<1>3. CASE FetchFails
  <2>1. kind # "twitch_th" => Len(out) <= Limit
    BY <1>3, FoundFits DEF FetchFails
  <2>2. PICK leads : leads \in Seq(Account) /\ Len(leads) <= Limit /\ Stop(leads, TRUE)
    <3>1. CASE kind = "twitch_th"
      <4>1. Stop(<<>>, TRUE)
        BY <1>3, <3>1 DEF FetchFails
      <4> QED BY <1>1, <4>1, Zenon
    <3>2. CASE kind # "twitch_th"
      BY <1>3, <2>1, <3>2 DEF FetchFails, ListingInv, TypeOK
    <3> QED BY <3>1, <3>2
  <2> QED BY <1>3, <2>2, StopsWithError DEF FetchFails, ListingInv, TypeOK
<1>4. CASE Refuse
  <2>1. kind \notin CutsOver \cup {"twitch_th"}
    BY <1>4 DEF Refuse, NoRoomFor, CapsRecords, CapsAccounts, CutsOver, StopsAtBad
  <2>2. Len(out) <= Limit
    BY <1>4, <2>1, FoundFits DEF Refuse, Reading
  <2> QED BY <1>4, <2>2, StopsWithError DEF Refuse, Reading, ListingInv, TypeOK
<1>5. CASE Incomplete
  <2>1. kind \notin CutsOver \cup {"twitch_th"}
    BY <1>5 DEF Incomplete, CursorRefused, RefusesMorePages, CutsOver
  <2>2. Len(out) <= Limit
    BY <1>5, <2>1, FoundFits DEF Incomplete, PageEnds
  <2> QED BY <1>5, <2>2, StopsWithError DEF Incomplete, PageEnds, ListingInv, TypeOK
<1> QED BY <1>2, <1>3, <1>4, <1>5

\* Going on to the next feed, or to the end.
LEMMA FeedEndsStep ==
    ASSUME ListingInv, pc \in {"fetch", "read"}, rest = <<>>,
           FeedEnds, counted' \in BOOLEAN,
           left' \subseteq (1..feeds) \X (1..MaxPages),
           \A x \in left' : kind \in {"bluesky_search", "twitch_th"} /\ x[2] = MaxPages,
           kind \in CutsOver => Len(out) < Limit
    PROVE  ListingInv'
<1> USE DEF ListingInv
<1>1. feed \in Nat /\ feeds \in Nat /\ MaxPages \in Nat \ {0} /\ page \in Nat /\ page <= MaxPages
  BY ListingAssumption DEF TypeOK
<1>2. rest' \in Seq(Record) /\ Elements(rest') = Elements(rest)
  BY DEF FeedEnds, TypeOK
<1>3. CASE MoreFeeds
  <2>1. TypeOK'
    BY <1>1, <1>2, <1>3 DEF FeedEnds, TypeOK, MoreFeeds
  <2>2. Owed' /\ (seen \subseteq Delivered)' /\ LeftEarly'
    BY <1>2, <1>3 DEF FeedEnds, Owed, Delivered, LeftEarly
  <2>3. Room'
    <3>1. kind # "kerlos"
      BY <1>1, <1>3 DEF MoreFeeds, TypeOK, ManyFeeds
    <3> QED BY <1>3, <3>1 DEF FeedEnds, Room
  <2>4. Position'
    BY <1>1, <1>3 DEF FeedEnds, Position, MoreFeeds
  <2> QED BY <1>3, <2>1, <2>2, <2>3, <2>4, GoesOn DEF FeedEnds
<1>4. CASE ~MoreFeeds
  <2>1. TypeOK'
    BY <1>1, <1>2, <1>4 DEF FeedEnds, TypeOK
  <2>2. Owed' /\ (seen \subseteq Delivered)' /\ LeftEarly'
    BY <1>2, <1>4 DEF FeedEnds, Owed, Delivered, LeftEarly
  <2>3. Position' /\ Room'
    BY <1>1, <1>4 DEF FeedEnds, Position, MoreFeeds, Room, TypeOK
  <2> QED BY <1>4, <2>1, <2>2, <2>3, GoesOn DEF FeedEnds
<1> QED BY <1>3, <1>4

LEMMA LeavingStep == ASSUME ListingInv, CreatorFails \/ NextFeed PROVE ListingInv'
<1> USE DEF ListingInv
<1>1. Len(out) \in Nat /\ Limit \in Nat /\ MaxPages \in Nat \ {0} /\ page \in Nat
  BY LenProperties, ListingAssumption DEF TypeOK
<1>2. CASE CreatorFails
  <2>1. Len(out) < Limit
    BY <1>2 DEF CreatorFails, Room, CutsOver
  <2> QED BY <1>2, <2>1, FeedEndsStep DEF CreatorFails, TypeOK, Position, LeftEarly
<1>3. CASE NextFeed
  <2>1. pc = "read" /\ rest = <<>> /\ (kind \in CutsOver => Len(out) < Limit)
    BY <1>1, <1>3 DEF NextFeed, PageEnds, TooMany
  <2>2. ASSUME left' # left
        PROVE  /\ left' = left \cup {<<feed, page>>} /\ page = MaxPages
               /\ kind \in {"bluesky_search", "twitch_th"}
    <3>1. left' = left \cup {<<feed, page>>} /\ next # NoCursor /\ page = MaxPages /\ ~CursorRefused
      BY <1>3, <2>2 DEF NextFeed, Stuck
    <3>2. kind \in Paged
      BY <2>1, <3>1 DEF Position
    <3> QED BY <3>1, <3>2 DEF Paged, CursorRefused, RefusesMorePages
  <2>3. left' \subseteq (1..feeds) \X (1..MaxPages)
    <3>1. feed \in 1..feeds
      BY DEF TypeOK
    <3> QED BY <1>1, <2>2, <3>1 DEF TypeOK
  <2>4. \A x \in left' : kind \in {"bluesky_search", "twitch_th"} /\ x[2] = MaxPages
    BY <2>1, <2>2 DEF LeftEarly
  <2>5. FeedEnds /\ counted' \in BOOLEAN
    BY <1>3 DEF NextFeed, TypeOK
  <2> QED BY <2>1, <2>3, <2>4, <2>5, FeedEndsStep
<1> QED BY <1>2, <1>3

LEMMA FollowStep == ASSUME ListingInv, FollowCursor PROVE ListingInv'
<1> USE DEF ListingInv
<1>1. pc = "read" /\ rest = <<>> /\ next \in Cursor /\ kind \in Paged
  BY DEF FollowCursor, PageEnds, TypeOK, Position
<1>2. page \in Nat /\ MaxPages \in Nat /\ page < MaxPages
  BY ListingAssumption DEF FollowCursor, Stuck, TypeOK
<1>3. cursors' \subseteq Cursor
  BY <1>1 DEF FollowCursor, Compared, TypeOK, Paged, RefusesMorePages
<1>4. TypeOK'
  BY <1>3 DEF FollowCursor, TypeOK
<1>5. Owed' /\ (seen \subseteq Delivered)' /\ LeftEarly'
  BY <1>1 DEF FollowCursor, Owed, Delivered, LeftEarly
<1>6. Position' /\ Room'
  BY <1>1, <1>2 DEF FollowCursor, Position, Room, Paged, CutsOver
<1> QED BY <1>4, <1>5, <1>6, GoesOn DEF FollowCursor

LEMMA SkipStep == ASSUME ListingInv, Skip PROVE ListingInv'
<1> USE DEF ListingInv
<1>1. pc = "read" /\ rest \in Seq(Record) /\ rest # <<>>
  BY DEF Skip, Reading, TypeOK
<1>2. /\ Head(rest) \in Record /\ rest' \in Seq(Record)
      /\ Elements(rest) \subseteq Elements(rest') \cup {Head(rest)}
  BY <1>1, TailElements DEF Skip
<1>3. Head(rest) = Bad \/ Head(rest) \in Delivered
  BY <1>1 DEF Skip, Skipped
<1>4. TypeOK'
  BY <1>1, <1>2 DEF Skip, TypeOK
<1>5. Owed'
  <2>1. Bad \notin offered
    BY ListingAssumption DEF TypeOK
  <2> QED BY <1>1, <1>2, <1>3, <2>1 DEF Skip, Owed, Delivered
<1>6. (seen \subseteq Delivered)' /\ LeftEarly'
  BY <1>1 DEF Skip, Delivered, LeftEarly
<1>7. Position' /\ Room'
  BY <1>1 DEF Skip, Position, Room, MoreFeeds
<1> QED BY <1>1, <1>4, <1>5, <1>6, <1>7, GoesOn DEF Skip

LEMMA TakeStep == ASSUME ListingInv, Take PROVE ListingInv'
<1> USE DEF ListingInv
<1> DEFINE a == Head(rest)
           leads == Append(out, a)
<1>1. pc = "read" /\ rest \in Seq(Record) /\ rest # <<>> /\ ~Skipped(a)
  BY DEF Take, Reading, TypeOK
<1>2. /\ a \in Account /\ rest' \in Seq(Record)
      /\ Elements(rest) \subseteq Elements(rest') \cup {a}
  BY <1>1, TailElements DEF Take, Skipped, Record
<1>3. /\ leads \in Seq(Account) /\ Len(leads) = Len(out) + 1
      /\ Elements(leads) = Elements(out) \cup {a}
  BY <1>2, AppendElements DEF TypeOK
<1>4. Len(out) \in Nat /\ Limit \in Nat
  BY LenProperties, ListingAssumption DEF TypeOK
<1>5. out' = leads /\ seen' = seen \cup {a} /\ rest' = Tail(rest)
  BY DEF Take, Stop
<1>6. Delivered' = Delivered \cup {a}
  BY <1>3, <1>5 DEF Delivered, Elements
<1>7. seen' \subseteq Account /\ (seen \subseteq Delivered)'
  BY <1>1, <1>2, <1>5, <1>6 DEF TypeOK
<1>8. UNCHANGED <<kind, feeds, feed, page, next, cursors, counted, offered, left>>
  BY DEF Take, Stop
<1>9. Owed'
  BY <1>1, <1>2, <1>6, <1>8 DEF Owed
<1>10. TypeOK'
  <2>1. pc' \in {"read", "done"} /\ failed' \in BOOLEAN
    BY <1>1 DEF Take, Stop, TypeOK
  <2> QED BY <1>2, <1>3, <1>5, <1>7, <1>8, <2>1 DEF TypeOK
<1>11. CASE CappedBy(leads)
  <2>1. pc' = "done" /\ failed' = (kind # "raw_links")
    BY <1>11 DEF Take, Stop
  <2>2. Len(leads) = Limit
    BY <1>1, <1>3, <1>4, <1>11 DEF CappedBy, Room
  <2>3. kind = "raw_links" => feed = feeds /\ left = {}
    BY <1>1, ListingAssumption DEF TypeOK, ManyFeeds, LeftEarly
  <2>4. NoErrorMeansAll' /\ LimitKept'
    <3>1. LimitKept'
      BY <1>4, <1>5, <2>2 DEF LimitKept
    <3>2. kind = "raw_links" => Len(out') = Limit /\ ~(feed < feeds) /\ left = {}
      BY <1>5, <2>2, <2>3 DEF TypeOK
    <3> QED BY <1>8, <2>1, <3>1, <3>2 DEF NoErrorMeansAll
  <2> QED BY <1>10, <2>1, <2>4
<1>12. CASE ~CappedBy(leads)
  <2>1. UNCHANGED pc
    BY <1>12 DEF Take
  <2>2. LeftEarly' /\ Position'
    BY <1>1, <1>8, <2>1 DEF LeftEarly, Position
  <2>3. Room'
    <3>1. kind \in CapsRecords \cup CapsAccounts => Len(out) < Limit
      BY <1>1, <1>4 DEF Take, NoRoomFor
    <3>2. kind \in {"html", "raw_links"} \/ (kind = "kerlos" /\ rest' # <<>>) => Len(leads) < Limit
      BY <1>3, <1>4, <1>5, <1>12 DEF CappedBy
    <3>3. kind = "kerlos" => Len(out) < Limit
      BY <1>1 DEF Room
    <3> QED BY <1>1, <1>3, <1>4, <1>5, <1>8, <2>1, <3>1, <3>2, <3>3 DEF Room
  <2> QED BY <1>1, <1>7, <1>9, <1>10, <2>1, <2>2, <2>3, GoesOn
<1> QED BY <1>11, <1>12

LEMMA CutOffStep == ASSUME ListingInv, CutOff PROVE ListingInv'
<1> USE DEF ListingInv
<1>1. Len(out) \in Nat /\ Limit \in Nat /\ Limit <= Len(out) /\ out \in Seq(Account)
  BY LenProperties, ListingAssumption DEF TypeOK, CutOff, TooMany
<1>2. \A i \in 1..Limit : out[i] \in Account
  BY <1>1, ElementOfSeq
<1>3. SubSeq(out, 1, Limit) \in Seq(Account) /\ Len(SubSeq(out, 1, Limit)) <= Limit
  BY <1>1, <1>2, SubSeqProperties
<1> QED BY <1>3, StopsWithError DEF CutOff, TypeOK

LEMMA FinishStep == ASSUME ListingInv, Finish PROVE ListingInv'
<1> USE DEF ListingInv
<1>1. Len(out) \in Nat /\ Limit \in Nat /\ out \in Seq(Account) /\ Delivered \subseteq Account
  BY LenProperties, ListingAssumption DEF TypeOK, Delivered
<1>2. PICK leads : /\ leads = out \/ (kind = "twitch_th" /\ leads \in [1..Limit -> Delivered])
                   /\ leads = out => Len(out) <= Limit \/ kind # "twitch_th"
                   /\ \E error \in BOOLEAN : Stop(leads, error)
  <2> DEFINE Choice == IF kind = "twitch_th" /\ Len(out) > Limit THEN [1..Limit -> Delivered]
                       ELSE {out}
  <2>1. PICK leads \in Choice : \E error : Stop(leads, error) /\ error \in BOOLEAN
    BY DEF Finish, TypeOK
  <2>2. CASE kind = "twitch_th" /\ Len(out) > Limit
    BY <1>1, <2>1, <2>2
  <2>3. CASE ~(kind = "twitch_th" /\ Len(out) > Limit)
    BY <1>1, <2>1, <2>3
  <2> QED BY <2>2, <2>3
<1>3. ASSUME leads \in [1..Limit -> Delivered]
      PROVE  leads \in Seq(Account) /\ Len(leads) = Limit
  BY <1>1, <1>3
<1>4. leads \in Seq(Account)
  BY <1>1, <1>2, <1>3
<1>5. Len(leads) <= Limit
  <2>1. kind # "twitch_th" => Len(out) <= Limit
    BY FoundFits DEF Finish
  <2> QED BY <1>1, <1>2, <1>3, <2>1
<1>6. rest = <<>> /\ pc = "finish"
  BY DEF Finish, Position
<1>7. TypeOK' /\ pc' = "done" /\ out' = leads
      /\ UNCHANGED <<kind, feeds, feed, offered, left>>
  BY <1>2, <1>4 DEF Finish, Stop, TypeOK
<1>8. offered \subseteq Delivered' \/ (kind = "twitch_th" /\ Len(out') = Limit)
  <2>1. offered \subseteq Delivered
    BY <1>6 DEF Owed, Elements
  <2> QED BY <1>2, <1>3, <1>7, <2>1 DEF Delivered
<1>9. feed < feeds => kind = "tipjai" /\ feed = MaxPages
  <2>1. feed \in Nat /\ feeds \in Nat /\ MaxPages \in Nat
    BY ListingAssumption DEF TypeOK
  <2> QED BY <1>6, <2>1 DEF Position, MoreFeeds
<1>10. NoErrorMeansAll' /\ LimitKept'
  BY <1>5, <1>6, <1>7, <1>8, <1>9 DEF NoErrorMeansAll, LimitKept, LeftEarly
<1> QED BY <1>7, <1>10

LEMMA ListingStep == ASSUME ListingInv, [Next]_vars PROVE ListingInv'
<1>1. CASE Next
  BY <1>1, FetchStep, FailingStep, LeavingStep, FollowStep, SkipStep, TakeStep, CutOffStep, FinishStep
  DEF Next
<1>2. CASE UNCHANGED vars
  BY <1>2 DEF vars, ListingInv, TypeOK, Owed, Delivered, LeftEarly, Position, MoreFeeds, Room,
              NoErrorMeansAll, LimitKept
<1> QED BY <1>1, <1>2

LEMMA ListingInit == ASSUME Init PROVE ListingInv
<1>1. <<>> \in Seq(Record) /\ <<>> \in Seq(Account) /\ Len(<<>>) = 0
  BY EmptySeq
<1>2. {Limit, MaxPages, MaxFeeds} \subseteq Nat \ {0}
  BY ListingAssumption
<1>3. TypeOK
  <2>1. feeds \in 1..MaxFeeds /\ feed \in 1..feeds /\ page \in 0..MaxPages
    BY <1>2 DEF Init
  <2>2. rest \in Seq(Record) /\ out \in Seq(Account)
    BY <1>1 DEF Init
  <2> QED BY <2>1, <2>2 DEF Init, TypeOK
<1>4. Owed /\ seen \subseteq Delivered /\ LeftEarly /\ Position
  BY <1>2 DEF Init, Owed, LeftEarly, Position
<1>5. Room
  <2>1. Len(out) = 0 /\ 0 < Limit
    BY <1>1, <1>2 DEF Init
  <2> QED BY <2>1, <1>2 DEF Room
<1> QED BY <1>3, <1>4, <1>5 DEF Init, ListingInv, NoErrorMeansAll, LimitKept

THEOREM ListingInvariant == Spec => []ListingInv
BY ListingInit, ListingStep, PTL DEF Spec

------------------------------------------------------------------------------
(* The theorems                                                              *)

\* A listing's counters, pages and leads have their types in every state.
THEOREM ListingTypeCorrect == Spec => []TypeOK
<1>1. ListingInv => TypeOK
  BY DEF ListingInv
<1> QED BY ListingInvariant, <1>1, PTL

\* A listing that returns no error has delivered all there is, but for the silent caps,
\* whatever its kind, its pages, the chain of its cursors and its caps.
THEOREM CompleteOrReported == Spec => []NoErrorMeansAll
<1>1. ListingInv => NoErrorMeansAll
  BY DEF ListingInv
<1> QED BY ListingInvariant, <1>1, PTL

\* No kind returns more than max_items leads.
THEOREM ItemCapKept == Spec => []LimitKept
<1>1. ListingInv => LimitKept
  BY DEF ListingInv
<1> QED BY ListingInvariant, <1>1, PTL
=============================================================================
