-------------------------- MODULE AnnouncementFeed --------------------------
(***************************************************************************)
(* The desktop clients that read the announcements of Announcements:       *)
(* listForDesktop with its cursor, markRead and dismiss.                   *)
(*                                                                         *)
(* A client polls: it walks the pages from the newest announcement to the  *)
(* oldest, following nextCursor.  Each page reads the rows, then the       *)
(* receipts and translations, and then writes one receipt after the other; *)
(* administrators and the client's own acknowledgements come in between.   *)
(***************************************************************************)
EXTENDS Announcements

CONSTANTS
  Limit,   \* announcements per page
  Acks     \* the acknowledgements clients send

ASSUME FeedAssumption ==
  /\ IsFiniteSet(Ids)
  /\ Limit \in Nat \ {0}
  /\ Acks \subseteq {"read", "dismiss"}

VARIABLES
  receipt,   \* announcement_receipts, null columns where there is no row
  trip,      \* the page each client is getting
  walk,      \* history: what each client was shown since its first page
  ack        \* the acknowledgement of each client that is being handled

feedVars == <<receipt, trip, walk, ack>>
vars == <<annVars, feedVars>>

NoReceipt == [first |-> Never, read |-> Never, gone |-> Never]
NoCursor == [at |-> Never, id |-> 0]
Trip(pc, cursor, page, time, blank) ==
  [pc |-> pc, cursor |-> cursor, page |-> page, time |-> time, blank |-> blank]
Home == Trip("home", NoCursor, {}, 0, {})
Told(due, hidden, seen, twice) ==
  [due |-> due, hidden |-> hidden, seen |-> seen, twice |-> twice]
Untold == Told({}, {}, {}, {})
NoAck == [kind |-> "none", ann |-> 0]

FeedInit ==
  /\ AnnInit
  /\ receipt = [a \in Ids |-> [u \in Users |-> NoReceipt]]
  /\ trip = [u \in Users |-> Home]
  /\ walk = [u \in Users |-> Untold]
  /\ ack = [u \in Users |-> NoAck]

-----------------------------------------------------------------------------
(* matchesAnnouncementTargeting: published, in its schedule, for the client. *)
Matches(a, u) ==
  /\ status[a] = "published"
  /\ content[a].from <= now /\ now < content[a].until
  /\ u \in content[a].audience

(* The rows listForDesktop lists.                                            *)
Listed(a, u) == Matches(a, u)

(* sortAnnouncementsForDesktop: publication time, then id, both descending.  *)
Precedes(a, b) == at[a] > at[b] \/ (at[a] = at[b] /\ a > b)
Before(a, feed) == {b \in feed : Precedes(b, a)}

OlderThan(a, c) == at[a] < c.at   \* faulty
(* isAnnouncementAfterCursor                                                 *)
AfterCursor(a, c) == at[a] < c.at \/ (at[a] = c.at /\ a < c.id)

CursorIgnored(a, c) == TRUE   \* faulty
OnNextPages(a, c) == c = NoCursor \/ AfterCursor(a, c)

(* paginateAnnouncements: the first rows, as many as the limit, and the      *)
(* position of the last of them when there are more.                         *)
Feed(u, c) == {a \in Ids : Listed(a, u) /\ OnNextPages(a, c)}
Page(feed) == {a \in feed : Cardinality(Before(a, feed)) < Limit}
IsLast(a, feed) == Cardinality(Before(a, feed)) = Limit - 1
NextCursors(feed) ==
  IF Cardinality(feed) > Limit
  THEN {[at |-> at[a], id |-> a] : a \in {b \in feed : IsLast(b, feed)}}
  ELSE {NoCursor}

(* listForDesktop: the first page, or the one after the cursor.              *)
ReadPage(u) ==
  LET t == trip[u]
      feed == Feed(u, t.cursor)
      matching == {a \in Ids : Matches(a, u)}
      muted == {a \in Ids : receipt[a][u].gone # Never}
  IN
  /\ t.pc \in {"home", "more"}
  /\ \E next \in NextCursors(feed) :
       trip' = [trip EXCEPT ![u] =
         Trip(IF Page(feed) = {} THEN "end" ELSE "receipts", next, Page(feed), 0, {})]
  /\ walk' = [walk EXCEPT ![u] =
       Told(IF t.pc = "home" THEN matching ELSE @.due \cap matching, muted, @.seen, @.twice)]
  /\ UNCHANGED <<annVars, receipt, ack>>

NeverMuted(a, u) == FALSE   \* faulty
Muted(a, u) == receipt[a][u].gone # Never

ReadReceipts(u) ==
  LET t == trip[u] IN
  /\ t.pc = "receipts"
  /\ trip' = [trip EXCEPT ![u] =
       Trip("deliver", t.cursor, {a \in t.page : ~Muted(a, u)}, now, {a \in Ids : copy[a] = {}})]
  /\ UNCHANGED <<annVars, receipt, walk, ack>>

(* COALESCE(old, new)                                                        *)
Coalesce(old, new) == IF old = Never THEN new ELSE old

FirstDelivery(old, new) == Coalesce(old, new)

(* The receipts of the page are written one after the other: which is first  *)
(* makes no difference to them.                                              *)
Deliver(u, a) ==
  LET t == trip[u]
      shown == IF a \in t.blank THEN {} ELSE {a}
  IN
  /\ t.pc = "deliver" /\ a \in t.page
  /\ receipt' = [receipt EXCEPT ![a][u].first = FirstDelivery(@, t.time)]
  /\ trip' = [trip EXCEPT ![u] = Trip("deliver", t.cursor, t.page \ {a}, t.time, t.blank)]
  /\ walk' = [walk EXCEPT ![u] =
       Told(@.due, @.hidden, @.seen \cup shown, @.twice \cup (@.seen \cap {a}))]
  /\ UNCHANGED <<annVars, ack>>

(* The page is answered; the client goes on if there is a cursor.            *)
Answer(u) ==
  LET t == trip[u] IN
  /\ t.pc = "deliver" /\ t.page = {}
  /\ trip' = [trip EXCEPT ![u] =
       Trip(IF t.cursor = NoCursor THEN "end" ELSE "more", t.cursor, {}, 0, {})]
  /\ walk' = [walk EXCEPT ![u] = Told(@.due, {}, @.seen, @.twice)]
  /\ UNCHANGED <<annVars, receipt, ack>>

(* The walk is over, or a request of it fails: the client polls again later. *)
GoHome(u) ==
  /\ trip' = [trip EXCEPT ![u] = Home]
  /\ walk' = [walk EXCEPT ![u] = Untold]
  /\ UNCHANGED <<annVars, receipt, ack>>

Finish(u) == trip[u].pc = "end" /\ GoHome(u)
Fail(u) == trip[u].pc \in {"receipts", "deliver", "more"} /\ GoHome(u)

-----------------------------------------------------------------------------
(* markRead and dismiss: assertAnnouncementDelivered, then the receipt.      *)
AckCheck(u, a, k) ==
  /\ ack[u] = NoAck
  /\ Matches(a, u)
  /\ receipt[a][u].first # Never
  /\ ack' = [ack EXCEPT ![u] = [kind |-> k, ann |-> a]]
  /\ UNCHANGED <<annVars, receipt, trip, walk>>

Acknowledged(r, k) ==
  [first |-> Coalesce(r.first, now),
   read |-> IF k = "read" THEN Coalesce(r.read, now) ELSE r.read,
   gone |-> IF k = "dismiss" THEN Coalesce(r.gone, now) ELSE r.gone]

AckWrite(u) ==
  /\ ack[u] # NoAck
  /\ receipt' = [receipt EXCEPT ![ack[u].ann][u] = Acknowledged(@, ack[u].kind)]
  /\ ack' = [ack EXCEPT ![u] = NoAck]
  /\ UNCHANGED <<annVars, trip, walk>>

AckFails(u) ==
  /\ ack[u] # NoAck
  /\ ack' = [ack EXCEPT ![u] = NoAck]
  /\ UNCHANGED <<annVars, receipt, trip, walk>>

Walk(u) ==
  \/ ReadPage(u) \/ ReadReceipts(u) \/ Answer(u) \/ Finish(u)
  \/ \E a \in Ids : Deliver(u, a)

Acknowledge(u) ==
  \/ \E a \in Ids, k \in Acks : AckCheck(u, a, k)
  \/ AckWrite(u) \/ AckFails(u)

FeedNext ==
  \/ AnnNext /\ UNCHANGED feedVars
  \/ \E u \in Users : Walk(u) \/ Fail(u) \/ Acknowledge(u)

FeedSafety == FeedInit /\ [][FeedNext]_vars

(* Clients poll for ever, and from some time on their requests get through.  *)
FeedSpec ==
  /\ FeedSafety
  /\ \A u \in Users : WF_vars(Walk(u)) /\ <>[][~Fail(u)]_vars

-----------------------------------------------------------------------------
(* Every variable has its type, and what a client does next is on the page.  *)
FeedTypeOK ==
  /\ AnnTypeOK
  /\ receipt \in [Ids -> [Users -> [first : Times, read : Times, gone : Times]]]
  /\ \A u \in Users :
       /\ trip[u].pc \in {"home", "receipts", "deliver", "more", "end"}
       /\ trip[u].cursor.at \in Times /\ trip[u].cursor.id \in Ids \cup {0}
       /\ trip[u].page \cup trip[u].blank \subseteq Ids
       /\ trip[u].time \in 0..now
       /\ \A s \in {"due", "hidden", "seen", "twice"} : walk[u][s] \subseteq Ids
       /\ ack[u].kind \in Acks \cup {"none"} /\ ack[u].ann \in Ids \cup {0}

(* The cursor is a position, not an offset: whatever is published, retired   *)
(* or expires during a walk over the pages, an announcement that was for the *)
(* client all the way and that it has not dismissed was shown,               *)
WalkMissesNothing ==
  \A u \in Users : trip[u].pc = "end" =>
    \A a \in walk[u].due \ torn : receipt[a][u].gone = Never => a \in walk[u].seen

(* ... and none was shown twice.                                             *)
WalkRepeatsNothing == \A u \in Users : walk[u].twice \subseteq torn

(* Both, for a walk over any number of pages.                                *)
WalkShowsEachOnce == WalkMissesNothing /\ WalkRepeatsNothing

(* "Dismissed items are omitted from later polls": what a client dismissed   *)
(* before it asked for a page is not on it.                                  *)
DismissedStaysHidden ==
  [][\A u \in Users : (walk'[u].seen \ walk[u].seen) \cap walk[u].hidden = {}]_vars

(* assertAnnouncementDelivered and the receipts of listForDesktop: nobody    *)
(* reads or dismisses what was not delivered, times are in order even when a *)
(* slow listing comes after, and nothing is delivered before it is public,   *)
(* to somebody it is not for, or before its time.                            *)
ReceiptsTellTheStory ==
  \A a \in Ids, u \in Users :
    LET r == receipt[a][u] IN
    /\ r.read # Never => r.first <= r.read
    /\ r.gone # Never => r.first <= r.gone
    /\ r.first # Never /\ a \notin torn =>
         /\ status[a] \in {"published"} \cup Retirements
         /\ u \in content[a].audience
         /\ content[a].from <= r.first

(* markRead and dismiss are idempotent, and so is the delivery: a timestamp  *)
(* of a receipt is set once.                                                 *)
ReceiptsAreKept ==
  [][\A a \in Ids, u \in Users : \A f \in {"first", "read", "gone"} :
       receipt[a][u][f] # Never => receipt'[a][u][f] = receipt[a][u][f]]_vars

(* Slow listings and acknowledgements that overtake them write receipts only *)
(* once, in order, and only for what was published and meant for the user;   *)
(* what was dismissed is on no page that is asked for later.                 *)
ReceiptsAreTrue == []ReceiptsTellTheStory /\ ReceiptsAreKept /\ DismissedStaysHidden

(* A client that polls is shown what is for it, unless it stops being so.    *)
PolledIsDelivered ==
  \A a \in Ids, u \in Users :
    Matches(a, u) ~> (receipt[a][u].first # Never \/ ~Matches(a, u))
=============================================================================
