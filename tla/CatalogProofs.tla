---------------------------- MODULE CatalogProofs ----------------------------
(***************************************************************************)
(* What administrators publish, for any number of requests at once, of any *)
(* contents: the announcements and the clients that read them, the         *)
(* versions of a content entry, and the artifacts of a release.  The three *)
(* services share no state.                                                *)
(***************************************************************************)
EXTENDS AnnouncementFeed, ContentVersions, ReleaseArtifacts, FiniteSetTheorems, TLAPS

-----------------------------------------------------------------------------
(* What administrators do to announcements.                                  *)

AnnOps == [kind : Kinds, ann : Ids \cup {0}, content : Content,
           bound : Releases \cup {NoRelease}, notify : BOOLEAN]

(* The types of the variables, without what AnnTypeOK says of the rows.      *)
AnnTypes ==
  /\ now \in 0..MaxTime
  /\ released \subseteq Releases
  /\ status \in [Ids -> {"none", "draft", "published"} \cup Retirements]
  /\ bound \in [Ids -> Releases \cup {NoRelease}]
  /\ at \in [Ids -> Times]
  /\ content \in [Ids -> Content]
  /\ copy \in [Ids -> SUBSET Locales]
  /\ op \in [Admins -> AnnOps]
  /\ torn \subseteq Ids

(* What a request has in hand: it works on a row from when it has one, it is *)
(* bound to the release of its button, and it retires what was published.    *)
Hands(p) ==
  /\ op[p].kind \in {"idle", "insert", "release", "notify"} => op[p].ann = 0
  /\ op[p].kind \notin {"idle", "insert", "find", "release", "notify"} => op[p].ann \in Ids
  /\ op[p].ann \in Ids => status[op[p].ann] # "none"
  /\ op[p].kind \in {"find", "insert", "save"} => op[p].bound \in {NoRelease, op[p].content.cta}
  /\ op[p].kind \in Retirements => status[op[p].ann] # "draft"
  /\ op[p].kind \in {"release", "notify"} => op[p].bound \in Releases

(* ... of every request, and the columns of a row agree.                     *)
HandsInv == \A p \in Admins : Hands(p)

RowsInv == \A a \in Ids :
  /\ at[a] = Never <=> status[a] \in {"none", "draft"}
  /\ bound[a] \in {NoRelease, content[a].cta}

(* Unless two requests overlapped, the request that works on an announcement *)
(* is the only one, the status it read is still there, and what it is about  *)
(* to publish has its default locale.  Without "torn" this is false: that is *)
(* what the races of the code come to.                                       *)
Edits == {"find", "save", "clear", "write", "publish", "copies", "commit"}

Fits(p, a) ==
  /\ op[p].kind \in Edits => status[a] = "draft"
  /\ op[p].kind \in Retirements => status[a] = "published"
  /\ op[p].kind = "commit" => "vi" \in copy[a]

Alone(a) ==
  /\ \A p, q \in Admins : WorksOn(p, a) /\ WorksOn(q, a) => p = q
  /\ \A p \in Admins : WorksOn(p, a) => Fits(p, a)
  /\ status[a] = "published" => "vi" \in copy[a]

AloneInv == \A a \in Ids \ torn : Alone(a)

(* The inductive invariant of Announcements.                                 *)
AnnInv == AnnTypes /\ HandsInv /\ RowsInv /\ AloneInv /\ OneAnnouncementPerRelease

-----------------------------------------------------------------------------
(* What a step makes of its request.                                         *)
Becomes(p, k, a, c, r, n) ==
  /\ op' \in [Admins -> AnnOps]
  /\ op'[p].kind = k /\ op'[p].ann = a /\ op'[p].content = c
  /\ op'[p].bound = r /\ op'[p].notify = n
  /\ \A q \in Admins : q # p => op'[q] = op[q]

LEMMA Assigned ==
  ASSUME AnnTypes, NEW p \in Admins, NEW k \in Kinds, NEW a \in Ids \cup {0}, NEW c \in Content,
         NEW r \in Releases \cup {NoRelease}, NEW n \in BOOLEAN,
         op' = [op EXCEPT ![p] = Doing(k, a, c, r, n)]
  PROVE  Becomes(p, k, a, c, r, n)
<1>1. Doing(k, a, c, r, n) \in AnnOps
  BY DEF AnnOps, Doing
<1> QED
  BY <1>1 DEF Becomes, AnnTypes, Doing

LEMMA GoesOn ==
  ASSUME AnnTypes, NEW p \in Admins, NEW k \in Kinds, Goes(p, k)
  PROVE  Becomes(p, k, op[p].ann, op[p].content, op[p].bound, op[p].notify)
BY DEF Goes, Becomes, AnnTypes, AnnOps

(* Members of the sets the columns range over.                               *)
LEMMA Constants ==
  /\ Ids \subseteq Nat \ {0} /\ NoRelease \notin Releases
  /\ Blank \in Content
  /\ \A r \in Releases : WhatsNew(r) \in Content /\ WhatsNew(r).cta = r
  /\ \A t \in 0..MaxTime : t \in Times /\ t # Never
  /\ Never \in Times
<1>1. \A t \in 0..MaxTime : t \in Times /\ t # Never
  BY AnnouncementAssumption DEF Times, Never
<1>2. Never \in Times /\ 0 \in Times
  BY AnnouncementAssumption DEF Times, Never
<1>3. Blank \in Content
  BY <1>2 DEF Blank, Content, Times
<1>4. \A r \in Releases : Audience[r] \in SUBSET Users
  BY AnnouncementAssumption
<1>5. \A r \in Releases : WhatsNew(r) \in Content /\ WhatsNew(r).cta = r
  BY <1>2, <1>4 DEF WhatsNew, Content
<1> QED
  BY <1>1, <1>2, <1>3, <1>5, AnnouncementAssumption

LEMMA WorkStarts ==
  ASSUME AnnTypes, NEW p \in Admins, NEW k \in Kinds, NEW a \in Ids \cup {0},
         op' = [op EXCEPT ![p] = WorkingOn(k, a)]
  PROVE  Becomes(p, k, a, Blank, NoRelease, FALSE)
BY Assigned, Constants DEF WorkingOn

LEMMA GoesHome ==
  ASSUME AnnTypes, NEW p \in Admins, Returns(p)
  PROVE  Becomes(p, "idle", 0, Blank, NoRelease, FALSE)
BY WorkStarts DEF Returns, Idle, Kinds

-----------------------------------------------------------------------------
(* Announcements a step leaves alone, and those only its request works on.   *)

LEMMA AloneKept ==
  ASSUME NEW a \in Ids, Alone(a), status'[a] = status[a], copy'[a] = copy[a],
         \A q \in Admins : WorksOn(q, a)' => op'[q] = op[q]
  PROVE  Alone(a)'
BY DEF Alone, WorksOn, Fits

LEMMA AloneWorked ==
  ASSUME NEW a \in Ids, NEW p \in Admins,
         \A q \in Admins : q # p => ~WorksOn(q, a)',
         WorksOn(p, a)' => Fits(p, a)',
         status'[a] = "published" => "vi" \in copy'[a]
  PROVE  Alone(a)'
BY DEF Alone

LEMMA OnlyWorker ==
  ASSUME NEW a \in Ids, Alone(a), NEW p \in Admins, WorksOn(p, a),
         \A q \in Admins : q # p => op'[q] = op[q]
  PROVE  \A q \in Admins : q # p => ~WorksOn(q, a)'
BY DEF Alone, WorksOn

(* Steps that write no row: only the request itself changes.                 *)
Quiet(p) ==
  /\ UNCHANGED <<rowVars, copy, torn>>
  /\ now' \in 0..MaxTime /\ released' \subseteq Releases
  /\ op' \in [Admins -> AnnOps]
  /\ \A q \in Admins : q # p => op'[q] = op[q]
  /\ Hands(p)'
  /\ \A a \in Ids \ torn : WorksOn(p, a)' => WorksOn(p, a) /\ Fits(p, a)'

LEMMA QuietStep ==
  ASSUME AnnInv, NEW p \in Admins, Quiet(p)
  PROVE  AnnInv'
<1> USE DEF AnnInv
<1>1. AnnTypes'
  BY DEF Quiet, AnnTypes, rowVars
<1>2. HandsInv'
  BY DEF Quiet, HandsInv, Hands, rowVars
<1>3. RowsInv' /\ OneAnnouncementPerRelease'
  BY DEF Quiet, RowsInv, OneAnnouncementPerRelease, rowVars
<1>4. AloneInv'
  <2>1. ASSUME NEW a \in Ids, a \notin torn' PROVE Alone(a)'
    <3>1. a \notin torn /\ Alone(a)
      BY <2>1 DEF Quiet, AloneInv
    <3>2. CASE WorksOn(p, a)'
      BY <3>1, <3>2, OnlyWorker, AloneWorked DEF Quiet, Alone, rowVars
    <3>3. CASE ~WorksOn(p, a)'
      BY <3>1, <3>3, AloneKept DEF Quiet, rowVars
    <3> QED
      BY <3>2, <3>3
  <2> QED
    BY <2>1 DEF AloneInv
<1> QED
  BY <1>1, <1>2, <1>3, <1>4

(* Steps that end a request's work on its announcement, or begin a draft.    *)
LEMMA FreshStep ==
  ASSUME AnnInv, NEW p \in Admins, UNCHANGED <<rowVars, copy, torn>>,
         now' \in 0..MaxTime, released' \subseteq Releases,
         NEW k \in Kinds, NEW a \in Ids \cup {0}, NEW c \in Content,
         NEW r \in Releases \cup {NoRelease}, NEW n \in BOOLEAN, Becomes(p, k, a, c, r, n),
         a = 0 \/ (k = "cloneCopy" /\ status[a] # "none"),
         k \in {"idle", "find", "insert", "release", "notify", "cloneCopy"},
         k = "cloneCopy" => a \in Ids,
         k \in {"find", "insert"} => r \in {NoRelease, c.cta},
         k \in {"release", "notify"} => r \in Releases
  PROVE  AnnInv'
<1>1. Hands(p)'
  BY Constants DEF Becomes, Hands, Retirements, rowVars
<1>2. \A b \in Ids : ~WorksOn(p, b)'
  BY Constants DEF Becomes, WorksOn
<1> QED
  BY <1>1, <1>2, QuietStep DEF Quiet, Becomes

LEMMA HomeStep ==
  ASSUME AnnInv, NEW p \in Admins, UNCHANGED <<rowVars, copy, torn>>,
         now' \in 0..MaxTime, released' \subseteq Releases, Returns(p)
  PROVE  AnnInv'
<1>1. Becomes(p, "idle", 0, Blank, NoRelease, FALSE)
  BY GoesHome DEF AnnInv
<1> QED
  BY <1>1, FreshStep, Constants DEF Kinds

(* A request that goes on with what it was doing.                            *)
LEMMA GoesStep ==
  ASSUME AnnInv, NEW p \in Admins, UNCHANGED <<rowVars, copy, torn>>,
         now' \in 0..MaxTime, released' \subseteq Releases, NEW k \in Kinds, Goes(p, k),
         \/ op[p].kind = "find" /\ k = "insert" /\ op[p].ann = 0
         \/ op[p].kind = "find" /\ k = "save" /\ op[p].ann # 0
         \/ op[p].kind = "copies" /\ k = "commit" /\ "vi" \in copy[op[p].ann]
         \/ op[p].kind = "release" /\ k = "notify"
  PROVE  AnnInv'
<1>1. Becomes(p, k, op[p].ann, op[p].content, op[p].bound, op[p].notify)
  BY GoesOn DEF AnnInv
<1>2. op[p] \in AnnOps
  BY DEF AnnInv, AnnTypes
<1>3. Hands(p)'
  BY <1>1, <1>2 DEF AnnInv, HandsInv, Hands, Becomes, Retirements, rowVars, AnnOps
<1>4. ASSUME NEW a \in Ids, a \notin torn, WorksOn(p, a)' PROVE WorksOn(p, a) /\ Fits(p, a)'
  <2>1. WorksOn(p, a) /\ op[p].ann = a
    BY <1>1, <1>4 DEF Becomes, WorksOn
  <2>2. Fits(p, a)
    BY <1>4, <2>1 DEF AnnInv, AloneInv, Alone
  <2> QED
    BY <1>1, <2>1, <2>2, Constants DEF Fits, Becomes, Edits, Retirements, rowVars, AnnInv, HandsInv,
       Hands
<1> QED
  BY <1>1, <1>3, <1>4, QuietStep DEF Quiet, Becomes

LEMMA ClockTypes ==
  ASSUME AnnInv
  PROVE  now \in 0..MaxTime /\ released \subseteq Releases
BY DEF AnnInv, AnnTypes

-----------------------------------------------------------------------------
(* createDraft and updateDraft.                                              *)

LEMMA DraftingStep ==
  ASSUME AnnInv, NEW p \in Admins, UNCHANGED <<now, released, rowVars, copy, torn>>,
         NEW c \in Content, NEW r \in Releases \cup {NoRelease}, NEW n \in BOOLEAN,
         r \in {NoRelease, c.cta}, op' = [op EXCEPT ![p] = Drafting(c, r, n)]
  PROVE  AnnInv'
<1>1. PICK k \in {"insert", "find"}, z \in {0} : op' = [op EXCEPT ![p] = Doing(k, z, c, r, n)]
  BY DEF Drafting
<1>2. k \in Kinds /\ z \in Ids \cup {0}
  BY DEF Kinds
<1>3. Becomes(p, k, z, c, r, n)
  <2>1. Doing(k, z, c, r, n) \in AnnOps
    BY <1>2 DEF AnnOps, Doing
  <2> QED
    BY <1>1, <2>1 DEF Becomes, Doing, AnnInv, AnnTypes
<1>4. now' \in 0..MaxTime /\ released' \subseteq Releases
  BY ClockTypes
<1> QED
  BY <1>2, <1>3, <1>4, FreshStep

LEMMA CreateDraftStep ==
  ASSUME AnnInv, NEW p \in Admins, NEW c \in Contents, CreateDraft(p, c)
  PROVE  AnnInv'
<1>1. c \in Content /\ c.cta \in Releases \cup {NoRelease}
  BY AnnouncementAssumption DEF Content
<1> QED
  BY <1>1, DraftingStep DEF CreateDraft, Begins

LEMMA FindBoundStep ==
  ASSUME AnnInv, NEW p \in Admins, FindBound(p)
  PROVE  AnnInv'
<1>1. CASE Returns(p)
  BY <1>1, HomeStep, ClockTypes DEF FindBound
<1>2. CASE Goes(p, "insert") /\ op[p].ann = 0
  BY <1>2, GoesStep, ClockTypes DEF FindBound, Kinds
<1>3. CASE Goes(p, "save") /\ op[p].ann # 0
  BY <1>3, GoesStep, ClockTypes DEF FindBound, Kinds
<1> QED
  BY <1>1, <1>2, <1>3 DEF FindBound

LEMMA IndexRefusesStep ==
  ASSUME AnnInv, NEW p \in Admins, IndexRefuses(p)
  PROVE  AnnInv'
BY HomeStep, ClockTypes DEF IndexRefuses

LEMMA InsertStep ==
  ASSUME AnnInv, NEW p \in Admins, NEW a \in Ids, Insert(p, a)
  PROVE  AnnInv'
<1> USE DEF AnnInv
<1>1. op[p] \in AnnOps /\ op[p].ann = 0 /\ op[p].bound \in {NoRelease, op[p].content.cta}
  BY DEF AnnTypes, Insert, HandsInv, Hands
<1>2. Becomes(p, "clear", a, op[p].content, op[p].bound, op[p].notify)
  <2>1. "clear" \in Kinds /\ a \in Ids \cup {0} /\ op[p].content \in Content
        /\ op[p].bound \in Releases \cup {NoRelease} /\ op[p].notify \in BOOLEAN
    BY <1>1 DEF AnnOps, Kinds
  <2> QED
    BY <2>1, Assigned DEF Insert
<1>3. AnnTypes'
  BY <1>1, <1>2 DEF Becomes, Insert, AnnTypes, AnnOps
<1>4. HandsInv'
  <2>1. Hands(p)'
    BY <1>2 DEF Becomes, Insert, Hands, AnnTypes, Retirements
  <2>2. ASSUME NEW q \in Admins, q # p PROVE Hands(q)'
    BY <1>2, <2>2 DEF Becomes, Insert, Hands, HandsInv, AnnTypes, Retirements
  <2> QED
    BY <2>1, <2>2 DEF HandsInv
<1>5. RowsInv'
  BY <1>1 DEF Insert, RowsInv, AnnTypes
<1>6. OneAnnouncementPerRelease'
  BY <1>1, Constants DEF Insert, OneAnnouncementPerRelease, BoundIsFree, BoundElsewhere, AnnTypes
<1>7. AloneInv'
  <2>1. ASSUME NEW b \in Ids, b \notin torn' PROVE Alone(b)'
    <3>1. Alone(b)
      BY <2>1 DEF AloneInv, Insert
    <3>2. CASE b = a
      <4>1. \A q \in Admins : op[q].ann # a
        BY DEF Insert, HandsInv, Hands
      <4>2. status'[b] = "draft" /\ \A q \in Admins : q # p => ~WorksOn(q, b)'
        BY <1>2, <3>2, <4>1 DEF Becomes, Insert, AnnTypes, WorksOn
      <4>3. Fits(p, b)'
        BY <1>2, <4>2 DEF Fits, Becomes, Retirements
      <4> QED
        BY <4>2, <4>3, AloneWorked
    <3>3. CASE b # a
      <4>1. ~WorksOn(p, b)'
        BY <1>2, <3>3 DEF Becomes, WorksOn
      <4> QED
        BY <1>2, <3>1, <3>3, <4>1, AloneKept DEF Becomes, Insert, AnnTypes
    <3> QED
      BY <3>2, <3>3
  <2> QED
    BY <2>1 DEF AloneInv
<1> QED
  BY <1>3, <1>4, <1>5, <1>6, <1>7

(* A request begins to work on an announcement that is there.                *)
LEMMA TearingStep ==
  ASSUME AnnInv, NEW p \in Admins, NEW a \in Ids, Tears(p, a),
         UNCHANGED <<now, released, rowVars, copy>>,
         NEW k \in Kinds, NEW c \in Content, NEW r \in Releases \cup {NoRelease},
         NEW n \in BOOLEAN, Becomes(p, k, a, c, r, n),
         op[p].ann \in {0, a} \/ op[p].kind = "cloneCopy",
         \/ k \in {"find", "save", "copies"} /\ status[a] = "draft"
         \/ k \in Retirements /\ status[a] = "published",
         k \in {"find", "save"} => r \in {NoRelease, c.cta}
  PROVE  AnnInv'
<1> USE DEF AnnInv
<1>1. AnnTypes'
  BY DEF AnnTypes, Becomes, Tears, rowVars
<1>2. HandsInv'
  <2>1. Hands(p)'
    BY DEF Becomes, Hands, Retirements, rowVars
  <2> QED
    BY <2>1 DEF Becomes, HandsInv, Hands, rowVars
<1>3. RowsInv' /\ OneAnnouncementPerRelease'
  BY DEF RowsInv, OneAnnouncementPerRelease, rowVars
<1>4. AloneInv'
  <2>1. ASSUME NEW b \in Ids, b \notin torn' PROVE Alone(b)'
    <3>1. Alone(b)
      BY <2>1 DEF AloneInv, Tears
    <3>2. CASE b = a
      <4>1. \A q \in Admins : q # p => ~WorksOn(q, b)'
        BY <2>1, <3>2 DEF Becomes, Tears, WorksOn
      <4>2. Fits(p, b)'
        BY <3>2 DEF Fits, Becomes, Retirements, Edits, rowVars
      <4> QED
        BY <3>1, <4>1, <4>2, AloneWorked DEF Alone, rowVars
    <3>3. CASE b # a
      <4>1. ~WorksOn(p, b)'
        BY <3>3 DEF Becomes, WorksOn
      <4> QED
        BY <3>1, <4>1, AloneKept DEF Becomes, rowVars
    <3> QED
      BY <3>2, <3>3
  <2> QED
    BY <2>1 DEF AloneInv
<1> QED
  BY <1>1, <1>2, <1>3, <1>4

LEMMA UpdateDraftStep ==
  ASSUME AnnInv, NEW p \in Admins, NEW a \in Ids, NEW c \in Contents, UpdateDraft(p, a, c)
  PROVE  AnnInv'
<1>1. c \in Content /\ c.cta \in Releases \cup {NoRelease}
  BY AnnouncementAssumption DEF Content
<1>2. PICK k \in {"save", "find"} : op' = [op EXCEPT ![p] = Doing(k, a, c, c.cta, FALSE)]
  BY DEF UpdateDraft, Begins
<1>3. Becomes(p, k, a, c, c.cta, FALSE)
  BY <1>1, <1>2, Assigned DEF AnnInv, Kinds
<1>4. op[p].ann = 0
  BY DEF UpdateDraft, Begins, Idle, WorkingOn, Doing
<1> QED
  BY <1>1, <1>2, <1>3, <1>4, TearingStep DEF UpdateDraft, MayEdit, Kinds

(* A statement of the only request that works on an announcement.            *)
LEMMA WorkingStep ==
  ASSUME AnnInv, NEW p \in Admins, NEW a \in Ids, op[p].ann = a, op[p].kind # "cloneCopy",
         UNCHANGED torn, AnnTypes', RowsInv', OneAnnouncementPerRelease',
         \A b \in Ids : b # a => status'[b] = status[b] /\ copy'[b] = copy[b],
         status'[a] = status[a] \/ status'[a] \notin {"none", "draft"},
         \A q \in Admins : q # p => op'[q] = op[q],
         op'[p].ann \in {0, a}, Hands(p)',
         a \notin torn /\ Fits(p, a) =>
           /\ op'[p].ann = a => Fits(p, a)'
           /\ status'[a] = "published" => "vi" \in copy'[a] \/ status[a] = "published"
           /\ status[a] = "published" => copy'[a] = copy[a] \/ "vi" \in copy'[a]
                \/ status'[a] # "published"
  PROVE  AnnInv'
<1> USE DEF AnnInv
<1>1. HandsInv'
  <2>1. ASSUME NEW q \in Admins, q # p PROVE Hands(q)'
    <3>1. op'[q] = op[q] /\ Hands(q)
      BY <2>1 DEF HandsInv
    <3>2. op[q].ann \in Ids =>
            status'[op[q].ann] \in {status[op[q].ann]} \cup {"published", "expired", "archived"}
      BY DEF AnnTypes, Retirements
    <3> QED
      BY <3>1, <3>2 DEF Hands, Retirements
  <2> QED
    BY <2>1 DEF HandsInv
<1>2. ASSUME NEW b \in Ids, b \notin torn' PROVE Alone(b)'
  <2>1. Alone(b) /\ b \notin torn
    BY <1>2 DEF AloneInv
  <2>2. CASE b = a
    <3>1. WorksOn(p, b) /\ Fits(p, b)
      BY <2>1, <2>2 DEF WorksOn, Alone
    <3>2. \A q \in Admins : q # p => ~WorksOn(q, b)'
      BY <2>1, <3>1, OnlyWorker
    <3>3. WorksOn(p, b)' => Fits(p, b)'
      BY <2>1, <2>2, <3>1 DEF WorksOn
    <3>4. status'[b] = "published" => "vi" \in copy'[b]
      BY <2>1, <2>2, <3>1 DEF Alone
    <3> QED
      BY <3>2, <3>3, <3>4, AloneWorked
  <2>3. CASE b # a
    <3>1. ~WorksOn(p, b)'
      BY <2>3, Constants DEF WorksOn
    <3> QED
      BY <2>1, <2>3, <3>1, AloneKept
  <2> QED
    BY <2>2, <2>3
<1> QED
  BY <1>1, <1>2 DEF AloneInv

LEMMA SaveRowStep ==
  ASSUME AnnInv, NEW p \in Admins, SaveRow(p)
  PROVE  AnnInv'
<1> USE DEF AnnInv
<1>1. PICK a \in Ids : a = op[p].ann
  BY DEF SaveRow, HandsInv, Hands, Retirements
<1>2. Becomes(p, "clear", a, op[p].content, op[p].bound, op[p].notify)
  BY <1>1, GoesOn DEF SaveRow, Kinds
<1>3. op[p] \in AnnOps /\ op[p].bound \in {NoRelease, op[p].content.cta}
  BY DEF AnnTypes, SaveRow, HandsInv, Hands
<1>4. AnnTypes'
  BY <1>2, <1>3 DEF Becomes, SaveRow, AnnTypes, AnnOps
<1>5. RowsInv'
  BY <1>1, <1>3 DEF SaveRow, RowsInv, AnnTypes
<1>6. OneAnnouncementPerRelease'
  BY <1>1, <1>3 DEF SaveRow, OneAnnouncementPerRelease, BoundIsFree, BoundElsewhere, AnnTypes
<1>7. Hands(p)'
  BY <1>1, <1>2 DEF Becomes, Hands, HandsInv, SaveRow, Retirements
<1>8. Fits(p, a) => Fits(p, a)'
  BY <1>1, <1>2 DEF Becomes, Fits, SaveRow, Edits, Retirements
<1> QED
  BY <1>1, <1>2, <1>4, <1>5, <1>6, <1>7, <1>8, WorkingStep DEF SaveRow, Becomes

LEMMA ClearCopyStep ==
  ASSUME AnnInv, NEW p \in Admins, ClearCopy(p)
  PROVE  AnnInv'
<1> USE DEF AnnInv
<1>1. PICK a \in Ids : a = op[p].ann
  BY DEF ClearCopy, HandsInv, Hands, Retirements
<1>2. Becomes(p, "write", a, op[p].content, op[p].bound, op[p].notify)
  BY <1>1, GoesOn DEF ClearCopy, Kinds
<1>3. AnnTypes'
  BY <1>2 DEF Becomes, ClearCopy, AnnTypes, rowVars
<1>4. RowsInv' /\ OneAnnouncementPerRelease'
  BY DEF ClearCopy, RowsInv, OneAnnouncementPerRelease, rowVars
<1>5. Hands(p)'
  BY <1>1, <1>2 DEF Becomes, Hands, HandsInv, ClearCopy, Retirements, rowVars
<1>6. Fits(p, a) => Fits(p, a)' /\ status[a] = "draft"
  BY <1>1, <1>2 DEF Becomes, Fits, ClearCopy, Edits, Retirements, rowVars
<1>7. \A b \in Ids : b # a => copy'[b] = copy[b]
  BY <1>1 DEF ClearCopy, AnnTypes
<1> QED
  BY <1>1, <1>2, <1>3, <1>4, <1>5, <1>6, <1>7, WorkingStep DEF ClearCopy, Becomes, rowVars

LEMMA WriteCopyStep ==
  ASSUME AnnInv, NEW p \in Admins, WriteCopy(p)
  PROVE  AnnInv'
<1> USE DEF AnnInv
<1>1. PICK a \in Ids : a = op[p].ann
  BY DEF WriteCopy, HandsInv, Hands, Retirements
<1>2. CASE CopyConflicts(p)
  BY <1>2, HomeStep, ClockTypes DEF WriteCopy
<1>3. CASE ~CopyConflicts(p)
  <2>1. PICK k \in {"idle", "publish"}, b \in {0, a}, c \in Content,
          r \in Releases \cup {NoRelease},
          n \in BOOLEAN : Becomes(p, k, b, c, r, n) /\ (k = "publish" => b = a)
            /\ (k = "idle" => b = 0)
    <3>1. CASE Goes(p, "publish")
      <4>1. Becomes(p, "publish", a, op[p].content, op[p].bound, op[p].notify)
        BY <1>1, <3>1, GoesOn DEF Kinds
      <4>2. op[p] \in AnnOps
        BY DEF AnnTypes
      <4> QED
        BY <4>1, <4>2 DEF AnnOps
    <3>2. CASE Returns(p)
      BY <3>2, GoesHome, Constants
    <3> QED
      BY <1>3, <3>1, <3>2 DEF WriteCopy
  <2>2. op[p] \in AnnOps /\ op[p].content.locales \subseteq Locales
    BY DEF AnnTypes, AnnOps, Content
  <2>3. copy' = [copy EXCEPT ![a] = @ \cup op[p].content.locales]
    BY <1>1, <1>3 DEF WriteCopy
  <2>4. AnnTypes'
    BY <2>1, <2>2, <2>3 DEF Becomes, WriteCopy, AnnTypes, rowVars
  <2>5. RowsInv' /\ OneAnnouncementPerRelease'
    BY DEF WriteCopy, RowsInv, OneAnnouncementPerRelease, rowVars
  <2>6. Hands(p)'
    BY <1>1, <2>1, Constants DEF Becomes, Hands, HandsInv, WriteCopy, Retirements, rowVars
  <2>7. op'[p].ann = a /\ Fits(p, a) => Fits(p, a)'
    BY <1>1, <2>1 DEF Becomes, Fits, WriteCopy, Edits, Retirements, rowVars
  <2>8. Fits(p, a) => status[a] = "draft"
    BY DEF Fits, WriteCopy, Edits
  <2>9. \A d \in Ids : d # a => copy'[d] = copy[d]
    BY <2>3 DEF AnnTypes
  <2> QED
    BY <1>1, <2>1, <2>4, <2>5, <2>6, <2>7, <2>8, <2>9, WorkingStep DEF WriteCopy, Becomes, rowVars
<1> QED
  BY <1>2, <1>3

LEMMA CloneStep ==
  ASSUME AnnInv, NEW p \in Admins, NEW a \in Ids, Clone(p, a)
  PROVE  AnnInv'
<1>1. "cloneCopy" \in Kinds /\ a \in Ids \cup {0} /\ content[a] \in Content
  BY DEF Kinds, AnnInv, AnnTypes
<1>2. Becomes(p, "cloneCopy", a, content[a], NoRelease, FALSE)
  BY <1>1, Assigned DEF Clone, Begins, AnnInv
<1> QED
  BY <1>1, <1>2, FreshStep, ClockTypes DEF Clone

LEMMA CloneCopyStep ==
  ASSUME AnnInv, NEW p \in Admins, CloneCopy(p)
  PROVE  AnnInv'
<1>1. CASE Returns(p)
  BY <1>1, HomeStep, ClockTypes DEF CloneCopy
<1>2. CASE ~Returns(p)
  <2> DEFINE of == op[p].content
             c == [cta |-> of.cta, locales |-> copy[op[p].ann], audience |-> of.audience,
                   from |-> of.from, until |-> of.until]
  <2>1. op[p] \in AnnOps /\ op[p].ann \in Ids
    BY DEF AnnInv, AnnTypes, HandsInv, Hands, CloneCopy, Retirements
  <2>2. c \in Content
    BY <2>1 DEF AnnOps, Content, AnnInv, AnnTypes
  <2>3. op' = [op EXCEPT ![p] = Drafting(c, NoRelease, FALSE)]
    BY <1>2 DEF CloneCopy
  <2> QED
    BY <2>2, <2>3, DraftingStep DEF CloneCopy
<1> QED
  BY <1>1, <1>2

-----------------------------------------------------------------------------
(* publish, expire and archive.                                              *)

LEMMA PublishReadStep ==
  ASSUME AnnInv, NEW p \in Admins, NEW a \in Ids, PublishRead(p, a)
  PROVE  AnnInv'
<1>1. Becomes(p, "copies", a, Blank, NoRelease, FALSE)
  BY WorkStarts DEF PublishRead, AnnInv, Kinds
<1>2. op[p].ann \in {0, a}
  BY DEF PublishRead, Idle, WorkingOn, Doing
<1> QED
  BY <1>1, <1>2, TearingStep, Constants DEF PublishRead, MayPublish, Kinds

LEMMA PublishRefusedStep ==
  ASSUME AnnInv, NEW p \in Admins, PublishRefused(p)
  PROVE  AnnInv'
BY HomeStep, ClockTypes DEF PublishRefused

LEMMA ReadCopyStep ==
  ASSUME AnnInv, NEW p \in Admins, ReadCopy(p)
  PROVE  AnnInv'
<1>1. CASE Returns(p)
  BY <1>1, HomeStep, ClockTypes DEF ReadCopy
<1>2. CASE Goes(p, "commit") /\ "vi" \in copy[op[p].ann]
  BY <1>2, GoesStep, ClockTypes DEF ReadCopy, Kinds
<1> QED
  BY <1>1, <1>2 DEF ReadCopy, HasDefaultLocale

LEMMA PublishRowStep ==
  ASSUME AnnInv, NEW p \in Admins, PublishRow(p)
  PROVE  AnnInv'
<1> USE DEF AnnInv
<1>1. PICK a \in Ids : a = op[p].ann
  BY DEF PublishRow, HandsInv, Hands, Retirements
<1>2. Becomes(p, "idle", 0, Blank, NoRelease, FALSE)
  BY GoesHome DEF PublishRow
<1>3. now \in Times /\ now # Never
  BY Constants DEF AnnTypes
<1>4. AnnTypes'
  BY <1>1, <1>2, <1>3 DEF Becomes, PublishRow, Stamp, AnnTypes
<1>5. RowsInv'
  BY <1>1, <1>3 DEF PublishRow, Stamp, RowsInv, AnnTypes
<1>6. OneAnnouncementPerRelease'
  BY DEF PublishRow, OneAnnouncementPerRelease
<1>7. Hands(p)'
  BY <1>2, Constants DEF Becomes, Hands, Retirements
<1>8. Fits(p, a) => "vi" \in copy'[a]
  BY DEF Fits, PublishRow
<1>9. status'[a] = "published" /\ \A b \in Ids : b # a => status'[b] = status[b]
  BY <1>1 DEF PublishRow, AnnTypes
<1> QED
  BY <1>1, <1>2, <1>4, <1>5, <1>6, <1>7, <1>8, <1>9, WorkingStep, Constants DEF PublishRow, Becomes

LEMMA RetireReadStep ==
  ASSUME AnnInv, NEW p \in Admins, NEW a \in Ids, NEW s \in Retirements, RetireRead(p, a, s)
  PROVE  AnnInv'
<1>1. Becomes(p, s, a, Blank, NoRelease, FALSE)
  BY WorkStarts DEF RetireRead, Begins, AnnInv, Kinds
<1>2. op[p].ann = 0
  BY DEF RetireRead, Begins, Idle, WorkingOn, Doing
<1> QED
  BY <1>1, <1>2, TearingStep, Constants DEF RetireRead, Kinds, Retirements

LEMMA RetireRowStep ==
  ASSUME AnnInv, NEW p \in Admins, RetireRow(p)
  PROVE  AnnInv'
<1> USE DEF AnnInv
<1>1. PICK a \in Ids : a = op[p].ann
  BY DEF RetireRow, HandsInv, Hands, Retirements
<1>2. Becomes(p, "idle", 0, Blank, NoRelease, FALSE)
  BY GoesHome DEF RetireRow
<1>3. status[a] \notin {"none", "draft"}
  BY <1>1 DEF HandsInv, Hands, RetireRow
<1>4. AnnTypes'
  BY <1>1, <1>2 DEF Becomes, RetireRow, AnnTypes
<1>5. RowsInv'
  BY <1>1, <1>3 DEF RetireRow, RowsInv, AnnTypes, Retirements
<1>6. OneAnnouncementPerRelease'
  BY DEF RetireRow, OneAnnouncementPerRelease
<1>7. Hands(p)'
  BY <1>2, Constants DEF Becomes, Hands, Retirements
<1>8. status'[a] \in Retirements /\ \A b \in Ids : b # a => status'[b] = status[b]
  BY <1>1 DEF RetireRow, AnnTypes
<1>9. status'[a] \notin {"none", "draft", "published"}
  BY <1>8 DEF Retirements
<1>10. op[p].kind # "cloneCopy"
  BY DEF RetireRow, Retirements
<1> QED
  BY <1>1, <1>2, <1>4, <1>5, <1>6, <1>7, <1>8, <1>9, <1>10, WorkingStep, Constants DEF RetireRow,
     Becomes

-----------------------------------------------------------------------------
(* The announcement of a release.                                            *)

LEMMA ReleaseReadyStep ==
  ASSUME AnnInv, NEW p \in Admins, NEW r \in Releases, NEW n \in BOOLEAN, ReleaseReady(p, r, n)
  PROVE  AnnInv'
<1>1. "release" \in Kinds /\ 0 \in Ids \cup {0} /\ r \in Releases \cup {NoRelease}
        /\ Blank \in Content
  BY Constants DEF Kinds
<1>2. Becomes(p, "release", 0, Blank, r, n)
  BY <1>1, Assigned DEF ReleaseReady, Begins, AnnInv
<1> QED
  BY <1>1, <1>2, FreshStep, ClockTypes DEF ReleaseReady

LEMMA ReleasePublishStep ==
  ASSUME AnnInv, NEW p \in Admins, ReleasePublish(p)
  PROVE  AnnInv'
<1>1. now' \in 0..MaxTime /\ released' \subseteq Releases
  BY ClockTypes DEF ReleasePublish, AnnInv, HandsInv, Hands
<1>2. CASE Goes(p, "notify")
  BY <1>1, <1>2, GoesStep DEF ReleasePublish, Kinds
<1>3. CASE Returns(p)
  BY <1>1, <1>3, HomeStep DEF ReleasePublish
<1> QED
  BY <1>2, <1>3 DEF ReleasePublish

LEMMA NotifyStep ==
  ASSUME AnnInv, NEW p \in Admins, Notify(p)
  PROVE  AnnInv'
<1>1. op[p].bound \in Releases
  BY DEF Notify, AnnInv, HandsInv, Hands
<1>2. CASE Returns(p)
  BY <1>2, HomeStep, ClockTypes DEF Notify
<1>3. CASE op' = [op EXCEPT ![p] = Drafting(WhatsNew(op[p].bound), op[p].bound, TRUE)]
  BY <1>1, <1>3, DraftingStep, Constants DEF Notify
<1> QED
  BY <1>2, <1>3 DEF Notify

LEMMA TickStep ==
  ASSUME AnnInv, Tick
  PROVE  AnnInv'
<1>1. now' \in 0..MaxTime
  BY AnnouncementAssumption DEF Tick, AnnInv, AnnTypes
<1> QED
  BY <1>1 DEF Tick, AnnInv, AnnTypes, HandsInv, Hands, RowsInv, AloneInv, Alone, Fits, WorksOn,
     OneAnnouncementPerRelease, rowVars

(* The invariant is inductive.                                               *)
LEMMA AnnInitHolds == AnnInit => AnnInv
<1> SUFFICES ASSUME AnnInit PROVE AnnInv
  OBVIOUS
<1>1. Idle \in AnnOps
  BY Constants DEF Idle, WorkingOn, Doing, AnnOps, Kinds
<1>2. AnnTypes
  BY <1>1, Constants, AnnouncementAssumption DEF AnnInit, AnnTypes
<1>3. HandsInv
  BY Constants DEF AnnInit, HandsInv, Hands, Idle, WorkingOn, Doing, Retirements
<1> QED
  BY <1>2, <1>3, Constants DEF AnnInit, AnnInv, RowsInv, AloneInv, Alone, WorksOn, Idle, WorkingOn,
     Doing, OneAnnouncementPerRelease

LEMMA AnnStepHolds == AnnInv /\ [AnnNext]_annVars => AnnInv'
<1> SUFFICES ASSUME AnnInv, [AnnNext]_annVars PROVE AnnInv'
  OBVIOUS
<1>1. ASSUME NEW p \in Admins, Write(p) PROVE AnnInv'
  BY <1>1, CreateDraftStep, UpdateDraftStep, InsertStep, CloneStep, FindBoundStep, IndexRefusesStep,
     SaveRowStep, CloneCopyStep, ClearCopyStep, WriteCopyStep DEF Write
<1>2. ASSUME NEW p \in Admins, Decide(p) PROVE AnnInv'
  BY <1>2, PublishReadStep, RetireReadStep, PublishRefusedStep, ReadCopyStep, PublishRowStep,
     RetireRowStep DEF Decide
<1>3. ASSUME NEW p \in Admins, ReleaseNotified(p) PROVE AnnInv'
  <2>1. CASE ReleaseLost(p)
    BY <2>1, HomeStep, ClockTypes DEF ReleaseLost
  <2> QED
    BY <1>3, <2>1, ReleaseReadyStep, ReleasePublishStep, NotifyStep DEF ReleaseNotified
<1>4. ASSUME NEW p \in Admins, Stop(p) PROVE AnnInv'
  BY <1>4, HomeStep, ClockTypes DEF Stop
<1>5. CASE UNCHANGED annVars
  BY <1>5 DEF annVars, AnnInv, AnnTypes, HandsInv, Hands, RowsInv, AloneInv, Alone, Fits, WorksOn,
     OneAnnouncementPerRelease
<1> QED
  BY <1>1, <1>2, <1>3, <1>4, <1>5, TickStep DEF AnnNext

(* The strengthened invariant holds: rows, requests and who works on what.   *)
THEOREM AnnInvariance == AnnSpec => []AnnInv
<1> QED
  BY AnnInitHolds, AnnStepHolds, PTL DEF AnnSpec

(* Every column and request has its type, published_at is set from the first *)
(* publication on, and a row is bound to no release but its button's.        *)
THEOREM AnnTypeCorrect == AnnSpec => []AnnTypeOK
<1>1. AnnInv => AnnTypeOK
  BY DEF AnnInv, AnnTypes, AnnOps, RowsInv, AnnTypeOK
<1> QED
  BY <1>1, AnnInvariance, PTL

(* However requests that look for the announcement of a release and insert   *)
(* it overlap, the unique index leaves one of them at most.                  *)
THEOREM OnePerRelease == AnnSpec => []OneAnnouncementPerRelease
<1>1. AnnInv => OneAnnouncementPerRelease
  BY DEF AnnInv
<1> QED
  BY <1>1, AnnInvariance, PTL

-----------------------------------------------------------------------------
(* What is public.                                                           *)

(* Only the request that works on an announcement changes it.                *)
LEMMA ChangedByItsWorker ==
  ASSUME AnnInv, [AnnNext]_annVars, NEW a \in Ids, status[a] # "none",
         <<status[a], bound[a], content[a], copy[a]>>' # <<status[a], bound[a], content[a],
           copy[a]>>
  PROVE  \E p \in Admins :
           /\ WorksOn(p, a)
           /\ \/ op[p].kind \in Edits /\ status'[a] = status[a]
              \/ op[p].kind = "commit" /\ status'[a] = "published"
                   /\ UNCHANGED <<bound, content, copy>>
              \/ op[p].kind \in Retirements /\ status'[a] = op[p].kind
                   /\ UNCHANGED <<bound, content, copy>>
<1> USE DEF AnnInv, AnnTypes
<1>1. ASSUME NEW p \in Admins, NEW b \in Ids, Insert(p, b) PROVE FALSE
  BY <1>1 DEF Insert
<1>2. ASSUME NEW p \in Admins, SaveRow(p) \/ ClearCopy(p) \/ WriteCopy(p)
      PROVE  WorksOn(p, a) /\ op[p].kind \in Edits /\ status'[a] = status[a]
  BY <1>2 DEF SaveRow, ClearCopy, WriteCopy, WorksOn, Edits, rowVars
<1>3. ASSUME NEW p \in Admins, PublishRow(p)
      PROVE  WorksOn(p, a) /\ op[p].kind = "commit" /\ status'[a] = "published"
             /\ UNCHANGED <<bound, content, copy>>
  BY <1>3 DEF PublishRow, WorksOn
<1>4. ASSUME NEW p \in Admins, RetireRow(p)
      PROVE  WorksOn(p, a) /\ op[p].kind \in Retirements /\ status'[a] = op[p].kind
             /\ UNCHANGED <<bound, content, copy>>
  BY <1>4 DEF RetireRow, WorksOn, Retirements
<1> QED
  BY <1>1, <1>2, <1>3, <1>4 DEF AnnNext, Write, Decide, ReleaseNotified, CreateDraft, UpdateDraft,
     Clone, FindBound, IndexRefuses, CloneCopy, PublishRead, RetireRead, PublishRefused, ReadCopy,
     ReleaseReady, ReleasePublish, ReleaseLost, Notify, Stop, Tick, annVars, rowVars

(* What overlapped once stays marked.                                        *)
LEMMA TornStays == AnnInv /\ [AnnNext]_annVars => torn \subseteq torn'
BY DEF AnnNext, Write, Decide, ReleaseNotified, CreateDraft, UpdateDraft, Insert, Clone, FindBound,
   IndexRefuses, SaveRow, CloneCopy, ClearCopy, WriteCopy, PublishRead, RetireRead, PublishRefused,
   ReadCopy, PublishRow, RetireRow, ReleaseReady, ReleasePublish, ReleaseLost, Notify, Stop, Tick,
   annVars, Tears

(* A row begins as a draft.                                                  *)
LEMMA NewIsDraft ==
  ASSUME AnnInv, [AnnNext]_annVars, NEW a \in Ids, status[a] = "none"
  PROVE  status'[a] \in {"none", "draft"}
<1> USE DEF AnnInv, AnnTypes
<1>1. ASSUME NEW p \in Admins, NEW b \in Ids, Insert(p, b) PROVE status'[a] \in {"none", "draft"}
  BY <1>1 DEF Insert
<1>2. ASSUME NEW p \in Admins, PublishRow(p) \/ RetireRow(p) PROVE status'[a] = status[a]
  BY <1>2 DEF PublishRow, RetireRow, HandsInv, Hands
<1> QED
  BY <1>1, <1>2 DEF AnnNext, Write, Decide, ReleaseNotified, CreateDraft, UpdateDraft, Clone,
     SaveRow, FindBound, IndexRefuses, CloneCopy, PublishRead, RetireRead, PublishRefused, ReadCopy,
     ClearCopy, WriteCopy, ReleaseReady, ReleasePublish, ReleaseLost, Notify, Stop, Tick, annVars,
     rowVars

(* What users are shown has its default locale, does not change, and once    *)
(* expired or archived does not come back, unless requests overlapped.       *)
THEOREM WhatIsPublicIsFinal == AnnSpec => PublicIsFinal
<1>1. AnnInv => PublishedHasCopy
  BY DEF AnnInv, AloneInv, Alone, PublishedHasCopy
<1>2. ASSUME AnnInv, [AnnNext]_annVars, NEW a \in Ids \ torn', status[a] \notin {"none", "draft"}
      PROVE  content'[a] = content[a] /\ copy'[a] = copy[a] /\ bound'[a] = bound[a]
  <2>1. a \notin torn
    BY <1>2, TornStays
  <2>2. \A p \in Admins : WorksOn(p, a) => op[p].kind \notin Edits
    BY <1>2, <2>1 DEF AnnInv, AloneInv, Alone, Fits
  <2> QED
    BY <1>2, <2>2, ChangedByItsWorker DEF Edits
<1>3. ASSUME AnnInv, [AnnNext]_annVars, NEW a \in Ids \ torn'
      PROVE  status'[a] \in Successors(status[a]) \cup {status[a]}
  <2>1. CASE status[a] = "none"
    <3>1. status'[a] \in {"none", "draft"}
      BY <1>3, <2>1, NewIsDraft
    <3> QED
      BY <2>1, <3>1 DEF Successors
  <2>2. CASE status[a] # "none"
    <3>1. a \notin torn
      BY <1>3, TornStays
    <3>2. \A p \in Admins : WorksOn(p, a) => Fits(p, a)
      BY <1>3, <3>1 DEF AnnInv, AloneInv, Alone
    <3>3. \/ status'[a] = status[a]
          \/ status[a] = "draft" /\ status'[a] = "published"
          \/ status[a] = "published" /\ status'[a] \in Retirements
      BY <1>3, <2>2, <3>2, ChangedByItsWorker DEF Fits, Edits
    <3> QED
      BY <3>3 DEF Successors
  <2> QED
    BY <2>1, <2>2
<1>4. AnnInv /\ [AnnNext]_annVars =>
        /\ \A a \in Ids \ torn' : status[a] \notin {"none", "draft"} =>
             content'[a] = content[a] /\ copy'[a] = copy[a] /\ bound'[a] = bound[a]
        /\ \A a \in Ids \ torn' : status'[a] \in Successors(status[a]) \cup {status[a]}
  BY <1>2, <1>3
<1> QED
  BY <1>1, <1>4, AnnInvariance, PTL DEF AnnSpec, PublicIsFinal, PublishedIsFixed, StatusGoesForward

-----------------------------------------------------------------------------
(* The feed: pages, receipts and acknowledgements of the clients.            *)

(* The types of the receipts, the pages, the walks and the acknowledgements. *)
Stamps == [first : Times, read : Times, gone : Times]
Cursors == [at : Times, id : Ids \cup {0}]
Trips == [pc : {"home", "receipts", "deliver", "more", "end"}, cursor : Cursors,
          page : SUBSET Ids, time : 0..MaxTime, blank : SUBSET Ids]
Walks == [due : SUBSET Ids, hidden : SUBSET Ids, seen : SUBSET Ids, twice : SUBSET Ids]

FeedTypes ==
  /\ receipt \in [Ids -> [Users -> Stamps]]
  /\ trip \in [Users -> Trips]
  /\ walk \in [Users -> Walks]
  /\ ack \in [Users -> [kind : Acks \cup {"none"}, ann : Ids \cup {0}]]

(* Where a client is: no page is left when it asks for one, and it goes on   *)
(* exactly when there is a cursor.                                           *)
TripFits(u) ==
  /\ trip[u].time <= now
  /\ trip[u].pc \in {"home", "more", "end"} => trip[u].page = {}
  /\ trip[u].pc = "home" => walk[u] = Untold
  /\ trip[u].pc \in {"home", "end"} => trip[u].cursor = NoCursor
  /\ trip[u].pc = "more" => trip[u].cursor # NoCursor

(* What was public when it was listed still is what it was, or was withdrawn. *)
MetInPublic(u) ==
  \A a \in (walk[u].due \cup walk[u].seen \cup trip[u].page) \ torn :
    status[a] \notin {"none", "draft"} /\ copy[a] # {}

(* What is on the page is for the client, and its time has come.             *)
PageIsMeant(u) ==
  \A a \in trip[u].page \ torn :
    /\ u \in content[a].audience /\ content[a].from <= now
    /\ trip[u].pc = "deliver" => content[a].from <= trip[u].time /\ a \notin trip[u].blank

(* What comes on the pages after this one.                                   *)
Comes(a, u) == trip[u].cursor # NoCursor /\ AfterCursor(a, trip[u].cursor)

(* The cursor divides what is due: before it what was shown and what is on   *)
(* the page, after it what comes.                                            *)
CursorDivides(u) ==
  /\ \A a \in walk[u].due \ torn : receipt[a][u].gone = Never =>
       a \in walk[u].seen \cup trip[u].page \/ Comes(a, u)
  /\ \A a \in walk[u].seen \ torn : a \notin trip[u].page
  /\ \A a \in (walk[u].seen \cup trip[u].page) \ torn : ~Comes(a, u)
  /\ walk[u].twice \subseteq torn

(* What was dismissed when the page was asked for is dismissed now, and not  *)
(* on the page.                                                              *)
HiddenIsGone(u) ==
  /\ \A a \in walk[u].hidden : receipt[a][u].gone # Never
  /\ trip[u].pc = "deliver" => trip[u].page \cap walk[u].hidden = {}

(* An acknowledgement that was checked has a delivered row.                  *)
AckFits(u) == ack[u] # NoAck =>
  ack[u].ann \in Ids /\ ack[u].kind \in Acks /\ receipt[ack[u].ann][u].first # Never

(* A receipt tells its story: in order, not from the future, and only of     *)
(* what was public, for the client, and due.                                 *)
Tells(a, u) ==
  LET r == receipt[a][u] IN
  /\ r.first # Never => r.first <= now
  /\ r.read # Never => r.read <= now /\ r.first <= r.read
  /\ r.gone # Never => r.gone <= now /\ r.first <= r.gone
  /\ r.first # Never /\ a \notin torn =>
       /\ status[a] \notin {"none", "draft"}
       /\ u \in content[a].audience
       /\ content[a].from <= r.first

ClientFits(u) ==
  /\ TripFits(u) /\ MetInPublic(u) /\ PageIsMeant(u) /\ CursorDivides(u) /\ HiddenIsGone(u)
  /\ AckFits(u)
  /\ \A a \in Ids : Tells(a, u)

(* The inductive invariant of the feed.  "Missed nothing, repeated nothing"  *)
(* is not inductive by itself: it needs to know that the cursor divides what *)
(* is due, and that this division survives publications and withdrawals,     *)
(* because the time of what was once public is fixed.                        *)
FeedInv ==
  /\ AnnInv
  /\ FeedTypes
  /\ \A u \in Users : ClientFits(u)

-----------------------------------------------------------------------------
(* Pages.                                                                    *)

(* A proper subset of a finite set has fewer elements.                       *)
LEMMA Fewer ==
  ASSUME NEW S, IsFiniteSet(S), NEW T \in SUBSET S, NEW x \in S, x \notin T
  PROVE  Cardinality(T) \in Nat /\ Cardinality(S) \in Nat /\ Cardinality(T) < Cardinality(S)
<1>1. Cardinality(T) <= Cardinality(S) /\ IsFiniteSet(T)
        /\ (Cardinality(T) = Cardinality(S) => S = T)
  BY FS_Subset
<1>2. Cardinality(T) \in Nat /\ Cardinality(S) \in Nat
  BY <1>1, FS_CardinalityType
<1> QED
  BY <1>1, <1>2

(* Ids and times are numbers.                                                *)
LEMMA Numbers ==
  /\ \A a \in Ids : a \in Nat
  /\ \A t \in Times : t \in Nat
  /\ MaxTime \in Nat /\ Never = MaxTime + 1
BY AnnouncementAssumption DEF Times, Never

LEMMA CursorNumbers ==
  ASSUME NEW c \in Cursors
  PROVE  c.at \in Nat /\ c.id \in Nat
<1>1. c.at \in Times /\ c.id \in Ids \cup {0}
  BY DEF Cursors
<1> QED
  BY <1>1, Numbers

(* The order of the feed is total, strict and transitive.                    *)
LEMMA InOrder ==
  ASSUME AnnTypes, NEW a \in Ids, NEW b \in Ids
  PROVE  /\ a = b \/ Precedes(a, b) \/ Precedes(b, a)
         /\ ~Precedes(a, a)
         /\ \A c \in Ids : Precedes(a, b) /\ Precedes(b, c) => Precedes(a, c)
<1>1. \A c \in Ids : at[c] \in Nat
  BY Numbers DEF AnnTypes
<1> QED
  BY <1>1, Numbers DEF Precedes

(* What comes earlier has fewer announcements before it.                     *)
LEMMA FewerBefore ==
  ASSUME AnnTypes, NEW feed \in SUBSET Ids, NEW a \in feed, NEW b \in feed, Precedes(a, b)
  PROVE  /\ Cardinality(Before(a, feed)) \in Nat /\ Cardinality(Before(b, feed)) \in Nat
         /\ Cardinality(Before(a, feed)) < Cardinality(Before(b, feed))
<1>1. IsFiniteSet(Before(b, feed))
  BY FeedAssumption, FS_Subset DEF Before
<1>2. a \in Before(b, feed) /\ a \notin Before(a, feed)
  BY InOrder DEF Before
<1>3. Before(a, feed) \subseteq Before(b, feed)
  BY InOrder DEF Before
<1> QED
  BY <1>1, <1>2, <1>3, Fewer

(* Every announcement of the feed is on the page or after the next cursor,   *)
(* and not both.                                                             *)
LEMMA PageDivides ==
  ASSUME AnnTypes, NEW feed \in SUBSET Ids, NEW next \in NextCursors(feed)
  PROVE  /\ next \in Cursors
         /\ Page(feed) = {} => next = NoCursor
         /\ \A a \in feed : a \in Page(feed) \/ (next # NoCursor /\ AfterCursor(a, next))
         /\ \A a \in Page(feed) : next = NoCursor \/ ~AfterCursor(a, next)
         /\ next # NoCursor => \E m \in feed : next = [at |-> at[m], id |-> m]
<1>1. IsFiniteSet(feed) /\ Cardinality(feed) \in Nat /\ Limit \in Nat \ {0}
  BY FeedAssumption, FS_Subset, FS_CardinalityType
<1>2. NoCursor \in Cursors /\ \A m \in Ids : [at |-> at[m], id |-> m] \in Cursors \ {NoCursor}
  BY Constants DEF NoCursor, Cursors, AnnTypes
<1>3. CASE Cardinality(feed) <= Limit
  <2>1. next = NoCursor
    BY <1>1, <1>3 DEF NextCursors
  <2>2. ASSUME NEW a \in feed PROVE a \in Page(feed)
    <3>1. a \notin Before(a, feed) /\ Before(a, feed) \subseteq feed
      BY InOrder DEF Before
    <3>2. /\ Cardinality(Before(a, feed)) \in Nat
          /\ Cardinality(Before(a, feed)) < Cardinality(feed)
      BY <1>1, <3>1, Fewer
    <3> QED
      BY <1>1, <1>3, <3>2 DEF Page
  <2>3. Page(feed) \subseteq feed
    BY DEF Page
  <2> QED
    BY <1>2, <2>1, <2>2
<1>4. CASE ~(Cardinality(feed) <= Limit)
  <2>1. PICK m \in feed : next = [at |-> at[m], id |-> m] /\ IsLast(m, feed)
    BY <1>1, <1>4 DEF NextCursors
  <2>2. m \in Page(feed) /\ next # NoCursor /\ next \in Cursors
    BY <1>1, <1>2, <2>1 DEF Page, IsLast
  <2>3. ASSUME NEW a \in Ids PROVE AfterCursor(a, next) <=> Precedes(m, a)
    BY <2>1, AnnouncementAssumption DEF AfterCursor, Precedes, AnnTypes, Times, Never
  <2>4. ASSUME NEW a \in feed, a \notin Page(feed) PROVE Precedes(m, a)
    <3>1. ~Precedes(a, m) /\ a # m
      BY <1>1, <2>1, <2>2, <2>4, FewerBefore DEF Page, IsLast
    <3> QED
      BY <3>1, InOrder
  <2>5. ASSUME NEW a \in Page(feed) PROVE ~Precedes(m, a)
    BY <1>1, <2>1, <2>5, FewerBefore DEF Page, IsLast
  <2>6. Page(feed) \subseteq Ids
    BY DEF Page
  <2> QED
    BY <2>1, <2>2, <2>3, <2>4, <2>5, <2>6
<1> QED
  BY <1>1, <1>3, <1>4

-----------------------------------------------------------------------------
(* The steps of the administrators.                                          *)

(* A published announcement is not published again.                          *)
LEMMA StampIsFixed ==
  ASSUME AnnInv, [AnnNext]_annVars, NEW a \in Ids, a \notin torn, status[a] \notin {"none", "draft"}
  PROVE  at'[a] = at[a]
<1>1. ASSUME NEW p \in Admins, PublishRow(p) PROVE at'[a] = at[a]
  <2>1. ~WorksOn(p, a)
    BY <1>1 DEF AnnInv, AloneInv, Alone, Fits, Edits, PublishRow
  <2> QED
    BY <1>1, <2>1 DEF PublishRow, WorksOn, AnnInv, AnnTypes
<1> QED
  BY <1>1 DEF AnnNext, Write, Decide, ReleaseNotified, CreateDraft, UpdateDraft, Insert, Clone,
     FindBound, IndexRefuses, SaveRow, CloneCopy, ClearCopy, WriteCopy, PublishRead, RetireRead,
     PublishRefused, ReadCopy, RetireRow, ReleaseReady, ReleasePublish, ReleaseLost, Notify, Stop,
     Tick, annVars, rowVars

(* Time passes.                                                              *)
LEMMA ClockGoesOn ==
  ASSUME AnnInv, [AnnNext]_annVars
  PROVE  now \in Nat /\ now' \in Nat /\ now <= now'
<1>1. now \in Nat
  BY AnnouncementAssumption DEF AnnInv, AnnTypes
<1>2. now' = now \/ now' = now + 1
  BY DEF AnnNext, Write, Decide, ReleaseNotified, CreateDraft, UpdateDraft, Insert, Clone,
     FindBound, IndexRefuses, SaveRow, CloneCopy, ClearCopy, WriteCopy, PublishRead, RetireRead,
     PublishRefused, ReadCopy, PublishRow, RetireRow, ReleaseReady, ReleasePublish, ReleaseLost,
     Notify, Stop, Tick, annVars
<1> QED
  BY <1>1, <1>2

(* What was public stays what it was, unless requests overlapped.            *)
LEMMA PublicStays ==
  ASSUME AnnInv, [AnnNext]_annVars, NEW a \in Ids, a \notin torn',
         status[a] \notin {"none", "draft"}
  PROVE  /\ a \notin torn /\ status'[a] \notin {"none", "draft"}
         /\ at'[a] = at[a] /\ content'[a] = content[a] /\ copy'[a] = copy[a]
<1>1. a \notin torn
  BY TornStays
<1>2. \A p \in Admins : WorksOn(p, a) => op[p].kind \notin Edits
  BY <1>1 DEF AnnInv, AloneInv, Alone, Fits
<1>3. content'[a] = content[a] /\ copy'[a] = copy[a] /\ status'[a] \notin {"none", "draft"}
  BY <1>2, ChangedByItsWorker DEF Edits, Retirements
<1> QED
  BY <1>1, <1>3, StampIsFixed

(* No step of an administrator disturbs a client, but through "torn".        *)
LEMMA AdminStep ==
  ASSUME FeedInv, [AnnNext]_annVars, UNCHANGED feedVars
  PROVE  FeedInv'
<1>1. AnnInv' /\ FeedTypes'
  BY AnnStepHolds DEF FeedInv, FeedTypes, feedVars
<1>2. torn \subseteq torn' /\ now \in Nat /\ now' \in Nat /\ now <= now'
  BY TornStays, ClockGoesOn DEF FeedInv
<1>3. ASSUME NEW u \in Users PROVE ClientFits(u)'
  <2>1. /\ ClientFits(u) /\ trip[u] \in Trips /\ walk[u] \in Walks
        /\ UNCHANGED <<receipt, trip, walk, ack>>
    BY DEF FeedInv, FeedTypes, feedVars
  <2>2. TripFits(u)' /\ AckFits(u)' /\ HiddenIsGone(u)'
    BY <1>2, <2>1 DEF ClientFits, TripFits, AckFits, HiddenIsGone, Trips
  <2>3. ASSUME NEW a \in (walk[u].due \cup walk[u].seen \cup trip[u].page) \ torn'
        PROVE  /\ a \in Ids /\ a \notin torn
               /\ status[a] \notin {"none", "draft"} /\ status'[a] \notin {"none", "draft"}
               /\ copy'[a] # {} /\ at'[a] = at[a] /\ content'[a] = content[a]
    BY <1>2, <2>1, <2>3, PublicStays DEF FeedInv, ClientFits, MetInPublic, Trips, Walks
  <2>4. MetInPublic(u)'
    BY <2>1, <2>3 DEF MetInPublic
  <2>5. PageIsMeant(u)'
    <3> SUFFICES ASSUME NEW a \in trip[u].page \ torn'
                 PROVE  /\ u \in content'[a].audience /\ content'[a].from <= now'
                        /\ trip[u].pc = "deliver" =>
                             content'[a].from <= trip[u].time /\ a \notin trip[u].blank
      BY <2>1 DEF PageIsMeant
    <3>1. content[a] \in Content
      BY <2>3 DEF FeedInv, AnnInv, AnnTypes
    <3>2. content[a].from \in Nat
      BY <3>1, AnnouncementAssumption DEF Content, Times, Never
    <3> QED
      BY <1>2, <2>1, <2>3, <3>2 DEF ClientFits, PageIsMeant
  <2>6. CursorDivides(u)'
    <3>1. ASSUME NEW a \in (walk[u].due \cup walk[u].seen \cup trip[u].page) \ torn'
          PROVE  Comes(a, u)' <=> Comes(a, u)
      BY <2>1, <2>3 DEF Comes, AfterCursor
    <3> QED
      BY <1>2, <2>1, <3>1 DEF ClientFits, CursorDivides
  <2>7. ASSUME NEW a \in Ids PROVE Tells(a, u)'
    <3>1. receipt[a][u] \in Stamps /\ \A t \in Times : t \in Nat
      BY AnnouncementAssumption DEF FeedInv, FeedTypes, Times, Never
    <3>2. CASE receipt[a][u].first # Never /\ a \notin torn'
      <4>1. status[a] \notin {"none", "draft"}
        BY <1>2, <2>1, <3>2 DEF ClientFits, Tells
      <4>2. status'[a] \notin {"none", "draft"} /\ content'[a] = content[a]
        BY <3>2, <4>1, PublicStays DEF FeedInv
      <4> QED
        BY <1>2, <2>1, <3>1, <4>2 DEF ClientFits, Tells, Stamps
    <3>3. CASE ~(receipt[a][u].first # Never /\ a \notin torn')
      BY <1>2, <2>1, <3>1, <3>3 DEF ClientFits, Tells, Stamps
    <3> QED
      BY <3>2, <3>3
  <2> QED
    BY <2>2, <2>4, <2>5, <2>6, <2>7 DEF ClientFits
<1> QED
  BY <1>1, <1>3 DEF FeedInv

-----------------------------------------------------------------------------
(* The steps of the clients.                                                 *)

(* At first there are no receipts, and nobody has asked.                     *)
LEMMA FeedInitHolds == FeedInit => FeedInv
<1> SUFFICES ASSUME FeedInit PROVE FeedInv
  OBVIOUS
<1>1. AnnInv /\ now = 0 /\ torn = {} /\ MaxTime \in Nat
  BY AnnInitHolds, AnnouncementAssumption DEF FeedInit, AnnInit
<1>2. NoReceipt \in Stamps /\ Home \in Trips /\ Untold \in Walks
  BY <1>1, Constants DEF NoReceipt, Stamps, Home, Trip, NoCursor, Trips, Cursors, Untold, Told,
     Walks
<1>3. FeedTypes
  BY <1>2 DEF FeedInit, FeedTypes, NoAck
<1>4. ASSUME NEW u \in Users PROVE ClientFits(u)
  <2>1. trip[u] = Home /\ walk[u] = Untold /\ ack[u] = NoAck /\ \A a \in Ids :
          receipt[a][u] = NoReceipt
    BY DEF FeedInit
  <2> QED
    BY <1>1, <2>1 DEF ClientFits, TripFits, MetInPublic, PageIsMeant, CursorDivides, HiddenIsGone,
       AckFits, Tells, Comes, Home, Trip, Untold, Told, NoReceipt
<1> QED
  BY <1>1, <1>3, <1>4 DEF FeedInv

(* A client's step disturbs no other client.                                 *)
LEMMA ClientStep ==
  ASSUME FeedInv, UNCHANGED annVars, NEW u \in Users, FeedTypes',
         \A v \in Users \ {u} : trip'[v] = trip[v] /\ walk'[v] = walk[v] /\ ack'[v] = ack[v],
         \A a \in Ids, v \in Users \ {u} : receipt'[a][v] = receipt[a][v],
         ClientFits(u)'
  PROVE  FeedInv'
<1>1. AnnInv'
  BY AnnStepHolds DEF FeedInv
<1>2. ASSUME NEW v \in Users, v # u PROVE ClientFits(v)'
  <2>1. /\ ClientFits(v) /\ trip'[v] = trip[v] /\ walk'[v] = walk[v] /\ ack'[v] = ack[v]
        /\ \A a \in Ids : receipt'[a][v] = receipt[a][v]
        /\ walk[v] \in Walks
    BY <1>2 DEF FeedInv, FeedTypes
  <2>2. UNCHANGED <<now, status, at, content, copy, torn>>
    BY DEF annVars, rowVars
  <2>3. TripFits(v)' /\ MetInPublic(v)' /\ PageIsMeant(v)'
    BY <2>1, <2>2 DEF ClientFits, TripFits, MetInPublic, PageIsMeant
  <2>4. CursorDivides(v)' /\ HiddenIsGone(v)'
    BY <2>1, <2>2 DEF ClientFits, CursorDivides, HiddenIsGone, Comes, AfterCursor, Walks
  <2>5. AckFits(v)' /\ \A a \in Ids : Tells(a, v)'
    BY <2>1, <2>2 DEF ClientFits, AckFits, Tells
  <2> QED
    BY <2>3, <2>4, <2>5 DEF ClientFits
<1> QED
  BY <1>1, <1>2 DEF FeedInv

(* Steps that write no receipt.                                              *)
LEMMA ReceiptsStay ==
  ASSUME FeedInv, UNCHANGED <<annVars, receipt, ack>>, NEW u \in Users
  PROVE  AckFits(u)' /\ \A a \in Ids : Tells(a, u)'
BY DEF FeedInv, ClientFits, AckFits, Tells, annVars, rowVars

(* listForDesktop selects the rows of a page: the page takes the first of    *)
(* what is after the old cursor, and the new cursor divides the rest from    *)
(* it.                                                                       *)
LEMMA ReadPageStep ==
  ASSUME FeedInv, NEW u \in Users, ReadPage(u)
  PROVE  FeedInv'
<1> DEFINE t == trip[u]
           feed == Feed(u, t.cursor)
           matching == {a \in Ids : Matches(a, u)}
           muted == {a \in Ids : receipt[a][u].gone # Never}
           due == IF t.pc = "home" THEN matching ELSE walk[u].due \cap matching
<1>1. PICK next \in NextCursors(feed) :
        trip' = [trip EXCEPT ![u] =
          Trip(IF Page(feed) = {} THEN "end" ELSE "receipts", next, Page(feed), 0, {})]
  BY DEF ReadPage
<1>2. /\ AnnInv /\ AnnTypes /\ FeedTypes /\ ClientFits(u) /\ t \in Trips /\ walk[u] \in Walks
      /\ t.pc \in {"home", "more"} /\ UNCHANGED <<annVars, receipt, ack>>
      /\ UNCHANGED <<now, status, at, content, copy, torn>>
      /\ now \in Nat /\ MaxTime \in Nat
  BY AnnouncementAssumption DEF FeedInv, FeedTypes, ReadPage, annVars, rowVars, AnnInv, AnnTypes
<1>3. /\ feed \subseteq matching /\ Page(feed) \subseteq feed /\ matching \subseteq Ids
           /\ muted \subseteq Ids
      /\ due \subseteq matching
  BY DEF Feed, Page, Listed
<1>4. /\ walk' = [walk EXCEPT ![u] = Told(due, muted, walk[u].seen, walk[u].twice)]
  BY <1>2 DEF ReadPage, FeedTypes
<1>5. /\ next \in Cursors
      /\ Page(feed) = {} => next = NoCursor
      /\ \A a \in feed : a \in Page(feed) \/ (next # NoCursor /\ AfterCursor(a, next))
      /\ \A a \in Page(feed) : next = NoCursor \/ ~AfterCursor(a, next)
      /\ next # NoCursor => \E m \in feed : next = [at |-> at[m], id |-> m]
  BY <1>2, <1>3, PageDivides
<1>6. /\ trip'[u].cursor = next /\ trip'[u].page = Page(feed) /\ trip'[u].time = 0
      /\ trip'[u].blank = {} /\ trip'[u].pc = IF Page(feed) = {} THEN "end" ELSE "receipts"
      /\ walk'[u].due = due /\ walk'[u].hidden = muted
      /\ walk'[u].seen = walk[u].seen /\ walk'[u].twice = walk[u].twice
      /\ \A v \in Users \ {u} : trip'[v] = trip[v] /\ walk'[v] = walk[v]
  BY <1>1, <1>2, <1>4 DEF FeedTypes, Trip, Told
<1>7. FeedTypes'
  <2>1. trip'[u] \in Trips
    BY <1>1, <1>2, <1>3, <1>5 DEF FeedTypes, Trip, Trips
  <2>2. walk'[u] \in Walks
    BY <1>2, <1>3, <1>4 DEF FeedTypes, Told, Walks
  <2> QED
    BY <1>1, <1>2, <1>4, <2>1, <2>2 DEF FeedTypes
<1>8. TripFits(u)'
  BY <1>2, <1>5, <1>6 DEF TripFits
<1>9. ASSUME NEW a \in matching
      PROVE  /\ a \notin torn => status[a] \notin {"none", "draft"} /\ copy[a] # {}
             /\ u \in content[a].audience /\ content[a].from <= now
  BY <1>2 DEF Matches, AnnInv, AloneInv, Alone
<1>10. MetInPublic(u)'
  BY <1>2, <1>3, <1>6, <1>9 DEF ClientFits, MetInPublic
<1>11. PageIsMeant(u)'
  BY <1>2, <1>3, <1>6, <1>9 DEF PageIsMeant
<1>12. HiddenIsGone(u)'
  BY <1>2, <1>6 DEF HiddenIsGone
<1>13. CursorDivides(u)'
  <2>1. ASSUME NEW a \in Ids PROVE Comes(a, u)' <=> next # NoCursor /\ AfterCursor(a, next)
    BY <1>2, <1>6 DEF Comes, AfterCursor
  <2>2. CASE t.pc = "home"
    <3>1. walk[u].seen = {} /\ walk[u].twice = {} /\ feed = matching
      BY <1>2, <2>2 DEF ClientFits, TripFits, Untold, Told, Feed, OnNextPages, Listed
    <3> QED
      BY <1>2, <1>3, <1>5, <1>6, <2>1, <2>2, <3>1 DEF CursorDivides
  <2>3. CASE t.pc = "more"
    <3>1. t.cursor # NoCursor /\ t.page = {} /\ t.cursor \in Cursors
      BY <1>2, <2>3 DEF ClientFits, TripFits, Trips
    <3>2. feed = {a \in matching : AfterCursor(a, t.cursor)}
      BY <3>1 DEF Feed, OnNextPages, Listed
    <3>3. ASSUME NEW a \in due \ torn, receipt[a][u].gone = Never
          PROVE  a \in walk[u].seen \/ a \in feed
      BY <1>2, <2>3, <3>1, <3>2, <3>3 DEF ClientFits, CursorDivides, Comes
    <3>4. ASSUME NEW a \in walk[u].seen \ torn PROVE a \notin feed /\ ~Comes(a, u)'
      <4>1. a \in Ids /\ ~AfterCursor(a, t.cursor)
        BY <1>2, <3>1, <3>4 DEF ClientFits, CursorDivides, Comes, Walks
      <4>2. ASSUME NEW m \in feed, next = [at |-> at[m], id |-> m] PROVE ~AfterCursor(a, next)
        <5>1. AfterCursor(m, t.cursor) /\ m \in Ids
          BY <1>3, <3>2, <4>2
        <5>2. a \in Nat /\ m \in Nat /\ at[a] \in Nat /\ at[m] \in Nat
          BY <1>2, <4>1, <5>1, Numbers DEF AnnTypes
        <5>3. t.cursor.at \in Nat /\ t.cursor.id \in Nat
          BY <3>1, CursorNumbers
        <5> QED
          BY <4>1, <4>2, <5>1, <5>2, <5>3 DEF AfterCursor
      <4> QED
        BY <1>5, <2>1, <3>2, <4>1, <4>2
    <3> QED
      BY <1>2, <1>3, <1>5, <1>6, <2>1, <2>3, <3>3, <3>4 DEF ClientFits, CursorDivides
  <2> QED
    BY <1>2, <2>2, <2>3
<1>14. ClientFits(u)'
  BY <1>2, <1>8, <1>10, <1>11, <1>12, <1>13, ReceiptsStay DEF ClientFits
<1> QED
  BY <1>2, <1>6, <1>7, <1>14, ClientStep

(* ... reads receipts and translations,                                      *)
LEMMA ReadReceiptsStep ==
  ASSUME FeedInv, NEW u \in Users, ReadReceipts(u)
  PROVE  FeedInv'
<1> DEFINE t == trip[u]
           page == {a \in t.page : ~Muted(a, u)}
           blank == {a \in Ids : copy[a] = {}}
<1>1. /\ FeedTypes /\ ClientFits(u) /\ t \in Trips /\ t.pc = "receipts" /\ now \in 0..MaxTime
      /\ UNCHANGED <<annVars, receipt, walk, ack>>
      /\ UNCHANGED <<now, status, at, content, copy, torn>>
      /\ trip' = [trip EXCEPT ![u] = Trip("deliver", t.cursor, page, now, blank)]
  BY DEF FeedInv, FeedTypes, ReadReceipts, annVars, rowVars, AnnInv, AnnTypes
<1>2. trip'[u] \in Trips
  BY <1>1 DEF FeedTypes, Trip, Trips
<1>3. FeedTypes'
  BY <1>1, <1>2 DEF FeedTypes
<1>4. /\ trip'[u].cursor = t.cursor /\ trip'[u].page = page /\ trip'[u].time = now
      /\ trip'[u].blank = blank /\ trip'[u].pc = "deliver"
      /\ \A v \in Users \ {u} : trip'[v] = trip[v]
  BY <1>1 DEF FeedTypes, Trip
<1>5. TripFits(u)'
  BY <1>1, <1>4 DEF TripFits
<1>6. MetInPublic(u)'
  BY <1>1, <1>4 DEF ClientFits, MetInPublic
<1>7. PageIsMeant(u)'
  BY <1>1, <1>4 DEF ClientFits, PageIsMeant, MetInPublic
<1>8. CursorDivides(u)'
  BY <1>1, <1>4 DEF ClientFits, CursorDivides, Comes, AfterCursor, Muted
<1>9. HiddenIsGone(u)'
  BY <1>1, <1>4 DEF ClientFits, HiddenIsGone, Muted
<1>10. ClientFits(u)'
  BY <1>1, <1>5, <1>6, <1>7, <1>8, <1>9, ReceiptsStay DEF ClientFits
<1> QED
  BY <1>1, <1>3, <1>4, <1>10, ClientStep

(* ... writes the receipts one by one,                                       *)
LEMMA DeliverStep ==
  ASSUME FeedInv, NEW u \in Users, NEW a \in Ids, Deliver(u, a)
  PROVE  FeedInv'
<1> DEFINE t == trip[u]
           shown == IF a \in t.blank THEN {} ELSE {a}
           r == receipt[a][u]
           time == FirstDelivery(r.first, t.time)
<1>1. /\ AnnTypes /\ FeedTypes /\ ClientFits(u) /\ t \in Trips /\ walk[u] \in Walks /\ r \in Stamps
      /\ t.pc = "deliver" /\ a \in t.page /\ now \in 0..MaxTime
      /\ UNCHANGED <<annVars, ack>> /\ UNCHANGED <<now, status, at, content, copy, torn>>
      /\ trip' = [trip EXCEPT ![u] = Trip("deliver", t.cursor, t.page \ {a}, t.time, t.blank)]
      /\ walk' = [walk EXCEPT ![u] =
           Told(walk[u].due, walk[u].hidden, walk[u].seen \cup shown,
             walk[u].twice \cup (walk[u].seen \cap {a}))]
  BY DEF FeedInv, FeedTypes, Deliver, annVars, rowVars, AnnInv, AnnTypes
<1>2. /\ receipt' \in [Ids -> [Users -> Stamps]]
      /\ receipt'[a][u].first = time /\ receipt'[a][u].read = r.read /\ receipt'[a][u].gone = r.gone
      /\ \A b \in Ids, v \in Users : b # a \/ v # u => receipt'[b][v] = receipt[b][v]
  <2>1. time \in Times /\ time \in 0..Never
    BY <1>1, Constants DEF FirstDelivery, Coalesce, Trips, Stamps, Times
  <2>2. receipt' = [receipt EXCEPT ![a][u].first = time]
    BY <1>1 DEF Deliver, FeedTypes
  <2> QED
    BY <1>1, <2>1, <2>2 DEF FeedTypes, Stamps
<1>3. trip'[u] \in Trips /\ walk'[u] \in Walks
  BY <1>1 DEF FeedTypes, Trip, Trips, Told, Walks
<1>4. FeedTypes'
  BY <1>1, <1>2, <1>3 DEF FeedTypes
<1>5. /\ trip'[u].cursor = t.cursor /\ trip'[u].page = t.page \ {a} /\ trip'[u].time = t.time
      /\ trip'[u].blank = t.blank /\ trip'[u].pc = "deliver"
      /\ walk'[u].due = walk[u].due /\ walk'[u].hidden = walk[u].hidden
      /\ walk'[u].seen = walk[u].seen \cup shown
      /\ walk'[u].twice = walk[u].twice \cup (walk[u].seen \cap {a})
      /\ \A v \in Users \ {u} : trip'[v] = trip[v] /\ walk'[v] = walk[v]
  BY <1>1 DEF FeedTypes, Trip, Told
<1>6. TripFits(u)'
  BY <1>1, <1>5 DEF ClientFits, TripFits
<1>7. MetInPublic(u)'
  BY <1>1, <1>5 DEF ClientFits, MetInPublic
<1>8. PageIsMeant(u)'
  BY <1>1, <1>5 DEF ClientFits, PageIsMeant
<1>9. CursorDivides(u)'
  <2>1. a \notin torn => shown = {a} /\ a \notin walk[u].seen /\ ~Comes(a, u)
    BY <1>1 DEF ClientFits, PageIsMeant, CursorDivides
  <2>2. \A b \in Ids : (Comes(b, u)' <=> Comes(b, u)) /\ receipt'[b][u].gone = receipt[b][u].gone
    BY <1>1, <1>2, <1>5 DEF Comes, AfterCursor
  <2> QED
    BY <1>1, <1>5, <2>1, <2>2 DEF ClientFits, CursorDivides, Walks, Trips
<1>10. HiddenIsGone(u)'
  <2>1. \A b \in Ids : receipt'[b][u].gone = receipt[b][u].gone
    BY <1>2
  <2> QED
    BY <1>1, <1>5, <2>1 DEF ClientFits, HiddenIsGone, Walks
<1>11. AckFits(u)'
  BY <1>1, <1>2, Numbers DEF ClientFits, AckFits, FirstDelivery, Coalesce
<1>12. ASSUME NEW b \in Ids PROVE Tells(b, u)'
  <2>1. Tells(b, u)
    BY <1>1 DEF ClientFits
  <2>2. CASE b # a
    BY <1>1, <1>2, <2>1, <2>2 DEF Tells
  <2>3. CASE b = a /\ r.first # Never
    BY <1>1, <1>2, <2>1, <2>3 DEF Tells, FirstDelivery, Coalesce
  <2>4. CASE b = a /\ r.first = Never
    <3>1. r.read = Never /\ r.gone = Never
      <4>1. /\ r.first \in Nat /\ r.read \in Nat /\ r.gone \in Nat
            /\ now \in Nat /\ now < r.first
        <5>1. r.first \in Times /\ r.read \in Times /\ r.gone \in Times
          BY <1>1 DEF Stamps
        <5> QED
          BY <1>1, <2>4, <5>1, Numbers
      <4> QED
        BY <2>1, <2>4, <4>1 DEF Tells
    <3>2. time = t.time /\ t.time <= now
      BY <1>1, <2>4 DEF ClientFits, TripFits, FirstDelivery, Coalesce
    <3>3. a \notin torn =>
            /\ status[a] \notin {"none", "draft"} /\ u \in content[a].audience
            /\ content[a].from <= t.time
      BY <1>1 DEF ClientFits, MetInPublic, PageIsMeant
    <3> QED
      BY <1>1, <1>2, <2>4, <3>1, <3>2, <3>3 DEF Tells
  <2> QED
    BY <2>2, <2>3, <2>4
<1>13. ClientFits(u)'
  BY <1>6, <1>7, <1>8, <1>9, <1>10, <1>11, <1>12 DEF ClientFits
<1> QED
  BY <1>1, <1>2, <1>4, <1>5, <1>13, ClientStep

(* ... and answers.                                                          *)
LEMMA AnswerStep ==
  ASSUME FeedInv, NEW u \in Users, Answer(u)
  PROVE  FeedInv'
<1> DEFINE t == trip[u]
<1>1. /\ FeedTypes /\ ClientFits(u) /\ t \in Trips /\ walk[u] \in Walks /\ t.page = {}
           /\ now \in 0..MaxTime
      /\ UNCHANGED <<annVars, receipt, ack>> /\ UNCHANGED <<now, status, at, content, copy, torn>>
      /\ trip' = [trip EXCEPT ![u] =
           Trip(IF t.cursor = NoCursor THEN "end" ELSE "more", t.cursor, {}, 0, {})]
      /\ walk' = [walk EXCEPT ![u] = Told(walk[u].due, {}, walk[u].seen, walk[u].twice)]
  BY DEF FeedInv, FeedTypes, Answer, annVars, rowVars, AnnInv, AnnTypes
<1>2. /\ 0 \in 0..MaxTime
      /\ Trip("end", t.cursor, {}, 0, {}) \in Trips /\ Trip("more", t.cursor, {}, 0, {}) \in Trips
      /\ Told(walk[u].due, {}, walk[u].seen, walk[u].twice) \in Walks
  BY <1>1, Numbers DEF Trip, Trips, Told, Walks
<1>3. FeedTypes'
  BY <1>1, <1>2 DEF FeedTypes
<1>4. /\ trip'[u].cursor = t.cursor /\ trip'[u].page = {} /\ trip'[u].time = 0
      /\ trip'[u].blank = {} /\ trip'[u].pc = IF t.cursor = NoCursor THEN "end" ELSE "more"
      /\ walk'[u].due = walk[u].due /\ walk'[u].hidden = {}
      /\ walk'[u].seen = walk[u].seen /\ walk'[u].twice = walk[u].twice
      /\ \A v \in Users \ {u} : trip'[v] = trip[v] /\ walk'[v] = walk[v]
  BY <1>1 DEF FeedTypes, Trip, Told
<1>5. TripFits(u)'
  BY <1>1, <1>4 DEF TripFits
<1>6. MetInPublic(u)' /\ PageIsMeant(u)' /\ HiddenIsGone(u)'
  BY <1>1, <1>4 DEF ClientFits, MetInPublic, PageIsMeant, HiddenIsGone
<1>7. CursorDivides(u)'
  BY <1>1, <1>4 DEF ClientFits, CursorDivides, Comes, AfterCursor
<1>8. ClientFits(u)'
  BY <1>1, <1>5, <1>6, <1>7, ReceiptsStay DEF ClientFits
<1> QED
  BY <1>1, <1>3, <1>4, <1>8, ClientStep

LEMMA GoHomeStep ==
  ASSUME FeedInv, NEW u \in Users, GoHome(u)
  PROVE  FeedInv'
<1>1. /\ FeedTypes /\ now \in Nat
      /\ UNCHANGED <<annVars, receipt, ack>> /\ now' = now
      /\ trip' = [trip EXCEPT ![u] = Home] /\ walk' = [walk EXCEPT ![u] = Untold]
  BY Numbers DEF FeedInv, GoHome, annVars, rowVars, AnnInv, AnnTypes
<1>2. Home \in Trips /\ Untold \in Walks
  BY Numbers, Constants DEF Home, Trip, NoCursor, Trips, Cursors, Untold, Told, Walks
<1>3. FeedTypes'
  BY <1>1, <1>2 DEF FeedTypes
<1>4. trip'[u] = Home /\ walk'[u] = Untold
  BY <1>1 DEF FeedTypes
<1>5. /\ TripFits(u)' /\ MetInPublic(u)' /\ PageIsMeant(u)' /\ CursorDivides(u)' /\ HiddenIsGone(u)'
  BY <1>1, <1>4 DEF TripFits, MetInPublic, PageIsMeant, CursorDivides, HiddenIsGone, Comes, Home,
     Trip, Untold, Told
<1>6. ClientFits(u)'
  BY <1>1, <1>5, ReceiptsStay DEF ClientFits
<1> QED
  BY <1>1, <1>3, <1>6, ClientStep DEF FeedTypes

(* Steps that leave the client's walk alone.                                 *)
LEMMA AckStep ==
  ASSUME FeedInv, NEW u \in Users, UNCHANGED <<annVars, trip, walk>>, FeedTypes',
         \A v \in Users \ {u} : ack'[v] = ack[v] /\ \A a \in Ids : receipt'[a][v] = receipt[a][v],
         \A a \in Ids : receipt[a][u].gone # Never => receipt'[a][u].gone # Never,
         AckFits(u)', \A a \in Ids : Tells(a, u)'
  PROVE  FeedInv'
<1>1. /\ FeedTypes /\ ClientFits(u) /\ walk[u] \in Walks
      /\ UNCHANGED <<now, status, at, content, copy, torn>>
  BY DEF FeedInv, FeedTypes, annVars, rowVars
<1>2. TripFits(u)' /\ MetInPublic(u)' /\ PageIsMeant(u)' /\ HiddenIsGone(u)'
  BY <1>1 DEF ClientFits, TripFits, MetInPublic, PageIsMeant, HiddenIsGone, Walks
<1>3. CursorDivides(u)'
  BY <1>1 DEF ClientFits, CursorDivides, Comes, AfterCursor, Walks
<1>4. ClientFits(u)'
  BY <1>2, <1>3 DEF ClientFits
<1> QED
  BY <1>4, ClientStep

LEMMA AckCheckStep ==
  ASSUME FeedInv, NEW u \in Users, NEW a \in Ids, NEW k \in Acks, AckCheck(u, a, k)
  PROVE  FeedInv'
<1>1. /\ FeedTypes /\ ClientFits(u) /\ receipt[a][u].first # Never
      /\ UNCHANGED <<annVars, receipt, trip, walk>>
      /\ UNCHANGED <<now, status, at, content, copy, torn>>
      /\ ack' = [ack EXCEPT ![u] = [kind |-> k, ann |-> a]]
  BY DEF FeedInv, AckCheck, annVars, rowVars
<1>2. FeedTypes' /\ ack'[u] = [kind |-> k, ann |-> a]
  BY <1>1 DEF FeedTypes
<1>3. AckFits(u)' /\ \A b \in Ids : Tells(b, u)'
  BY <1>1, <1>2 DEF ClientFits, AckFits, Tells
<1> QED
  BY <1>1, <1>2, <1>3, AckStep DEF FeedTypes

LEMMA AckFailsStep ==
  ASSUME FeedInv, NEW u \in Users, AckFails(u)
  PROVE  FeedInv'
<1>1. /\ FeedTypes /\ ClientFits(u)
      /\ UNCHANGED <<annVars, receipt, trip, walk>>
      /\ UNCHANGED <<now, status, at, content, copy, torn>>
      /\ ack' = [ack EXCEPT ![u] = NoAck]
  BY DEF FeedInv, AckFails, annVars, rowVars
<1>2. FeedTypes' /\ ack'[u] = NoAck
  BY <1>1 DEF FeedTypes, NoAck
<1>3. AckFits(u)' /\ \A b \in Ids : Tells(b, u)'
  BY <1>1, <1>2 DEF ClientFits, AckFits, Tells
<1> QED
  BY <1>1, <1>2, <1>3, AckStep DEF FeedTypes

LEMMA AckWriteStep ==
  ASSUME FeedInv, NEW u \in Users, AckWrite(u)
  PROVE  FeedInv'
<1> DEFINE a == ack[u].ann
           k == ack[u].kind
           r == receipt[a][u]
           s == Acknowledged(r, k)
<1>1. /\ FeedTypes /\ ClientFits(u) /\ a \in Ids /\ r.first # Never /\ r \in Stamps
      /\ now \in 0..MaxTime /\ now \in Times /\ now # Never
      /\ UNCHANGED <<annVars, trip, walk>> /\ UNCHANGED <<now, status, at, content, copy, torn>>
      /\ ack' = [ack EXCEPT ![u] = NoAck] /\ receipt' = [receipt EXCEPT ![a][u] = s]
  <2>1. /\ FeedTypes /\ ClientFits(u) /\ ack[u] # NoAck /\ AnnTypes
    BY DEF FeedInv, AckWrite, AnnInv
  <2>2. a \in Ids /\ r.first # Never /\ r \in Stamps
    BY <2>1 DEF ClientFits, AckFits, FeedTypes
  <2>3. now \in 0..MaxTime /\ now \in Times /\ now # Never
    BY <2>1, Constants DEF AnnTypes
  <2>4. /\ UNCHANGED <<annVars, trip, walk>>
        /\ ack' = [ack EXCEPT ![u] = NoAck] /\ receipt' = [receipt EXCEPT ![a][u] = s]
    BY <2>1, <2>2 DEF AckWrite, FeedTypes
  <2> QED
    BY <2>1, <2>2, <2>3, <2>4 DEF annVars, rowVars
<1>2. /\ s \in Stamps /\ s.first = r.first
      /\ s.read = r.read \/ s.read = now
      /\ s.gone = r.gone \/ s.gone = now
      /\ r.gone # Never => s.gone # Never
  BY <1>1 DEF Acknowledged, Coalesce, Stamps
<1>3. /\ FeedTypes' /\ ack'[u] = NoAck /\ receipt'[a][u] = s
      /\ \A b \in Ids, v \in Users : b # a \/ v # u => receipt'[b][v] = receipt[b][v]
  BY <1>1, <1>2 DEF FeedTypes, NoAck
<1>4. AckFits(u)'
  BY <1>3 DEF AckFits
<1>5. ASSUME NEW b \in Ids PROVE Tells(b, u)'
  <2>1. Tells(b, u)
    BY <1>1 DEF ClientFits
  <2>2. CASE b # a
    BY <1>1, <1>3, <2>1, <2>2 DEF Tells
  <2>3. CASE b = a
    <3>1. receipt'[b][u] = s /\ r.first <= now /\ now \in Nat
      BY <1>1, <1>3, <2>1, <2>3, Numbers DEF Tells
    <3> QED
      BY <1>1, <1>2, <2>1, <2>3, <3>1 DEF Tells
  <2> QED
    BY <2>2, <2>3
<1>6. \A b \in Ids : receipt[b][u].gone # Never => receipt'[b][u].gone # Never
  BY <1>2, <1>3
<1> QED
  BY <1>1, <1>3, <1>4, <1>5, <1>6, AckStep DEF FeedTypes

(* The invariant is inductive.                                               *)
LEMMA FeedStepHolds == FeedInv /\ [FeedNext]_vars => FeedInv'
<1> SUFFICES ASSUME FeedInv, [FeedNext]_vars PROVE FeedInv'
  OBVIOUS
<1>1. CASE AnnNext /\ UNCHANGED feedVars
  BY <1>1, AdminStep
<1>2. CASE UNCHANGED vars
  BY <1>2, AdminStep DEF vars
<1>3. ASSUME NEW u \in Users, Walk(u) \/ Fail(u) PROVE FeedInv'
  BY <1>3, ReadPageStep, ReadReceiptsStep, DeliverStep, AnswerStep, GoHomeStep DEF Walk, Finish,
     Fail
<1>4. ASSUME NEW u \in Users, Acknowledge(u) PROVE FeedInv'
  BY <1>4, AckCheckStep, AckWriteStep, AckFailsStep DEF Acknowledge
<1> QED
  BY <1>1, <1>2, <1>3, <1>4 DEF FeedNext

(* The strengthened invariant holds, for any number of clients,              *)
(* administrators, announcements and pages.                                  *)
THEOREM FeedInvariance == FeedSafety => []FeedInv
<1> QED
  BY FeedInitHolds, FeedStepHolds, PTL DEF FeedSafety

(* Whatever is published, withdrawn or expires while a client walks over the *)
(* pages, what was for it all the way is shown, and nothing is shown twice,  *)
(* unless the requests of administrators overlapped.                         *)
THEOREM WalksAreWhole == FeedSafety => []WalkShowsEachOnce
<1>1. FeedInv => WalkShowsEachOnce
  <2> SUFFICES ASSUME FeedInv, NEW u \in Users
               PROVE  /\ trip[u].pc = "end" =>
                           \A a \in walk[u].due \ torn : receipt[a][u].gone = Never =>
                             a \in walk[u].seen
                      /\ walk[u].twice \subseteq torn
    BY DEF WalkShowsEachOnce, WalkMissesNothing, WalkRepeatsNothing
  <2> QED
    BY DEF FeedInv, ClientFits, CursorDivides, TripFits, Comes
<1> QED
  BY <1>1, FeedInvariance, PTL

(* Timestamps of receipts.                                                   *)
LEMMA ReceiptsKept ==
  ASSUME FeedInv, [FeedNext]_vars, NEW a \in Ids, NEW u \in Users,
         NEW f \in {"first", "read", "gone"},
         receipt[a][u][f] # Never
  PROVE  receipt'[a][u][f] = receipt[a][u][f]
<1>1. CASE receipt' = receipt
  BY <1>1
<1>2. ASSUME NEW v \in Users, NEW b \in Ids, Deliver(v, b)
      PROVE  receipt'[a][u][f] = receipt[a][u][f]
  BY <1>2 DEF Deliver, FeedInv, FeedTypes, Stamps, FirstDelivery, Coalesce
<1>3. ASSUME NEW v \in Users, AckWrite(v)
      PROVE  receipt'[a][u][f] = receipt[a][u][f]
  BY <1>3 DEF AckWrite, FeedInv, FeedTypes, Stamps, Acknowledged, Coalesce
<1> QED
  BY <1>1, <1>2, <1>3 DEF FeedNext, feedVars, vars, Walk, Fail, Finish, GoHome, Acknowledge,
     ReadPage, ReadReceipts, Answer, AckCheck, AckFails

(* Only a delivery shows something.                                          *)
LEMMA ShownIsNotHidden ==
  ASSUME FeedInv, [FeedNext]_vars, NEW u \in Users
  PROVE  (walk'[u].seen \ walk[u].seen) \cap walk[u].hidden = {}
<1>1. CASE walk'[u].seen \subseteq walk[u].seen
  BY <1>1
<1>2. ASSUME NEW a \in Ids, Deliver(u, a)
      PROVE  (walk'[u].seen \ walk[u].seen) \cap walk[u].hidden = {}
  <2>1. walk'[u].seen \subseteq walk[u].seen \cup {a} /\ a \in trip[u].page
          /\ trip[u].pc = "deliver"
    BY <1>2 DEF Deliver, FeedInv, FeedTypes, Told
  <2> QED
    BY <2>1 DEF FeedInv, ClientFits, HiddenIsGone
<1>3. ASSUME NEW v \in Users, ReadPage(v) \/ ReadReceipts(v) \/ Answer(v) \/ GoHome(v)
               \/ Acknowledge(v)
      PROVE  walk'[u].seen \subseteq walk[u].seen
  BY <1>3 DEF FeedInv, FeedTypes, ReadPage, ReadReceipts, Answer, GoHome, Acknowledge, AckCheck,
     AckWrite, AckFails, Told, Untold
<1>4. ASSUME NEW v \in Users, NEW a \in Ids, Deliver(v, a), v # u
      PROVE  walk'[u].seen \subseteq walk[u].seen
  BY <1>4 DEF Deliver
<1> QED
  BY <1>1, <1>2, <1>3, <1>4 DEF FeedNext, feedVars, vars, Walk, Fail, Finish

(* Receipts are set once, in order, and only for what was published and      *)
(* meant for the user; what was dismissed is on no page that is asked for    *)
(* later.                                                                    *)
THEOREM ReceiptsTellTruth == FeedSafety => ReceiptsAreTrue
<1>1. FeedInv => ReceiptsTellTheStory
  <2> SUFFICES ASSUME FeedInv, NEW a \in Ids, NEW u \in Users
               PROVE  LET r == receipt[a][u] IN
                      /\ r.read # Never => r.first <= r.read
                      /\ r.gone # Never => r.first <= r.gone
                      /\ r.first # Never /\ a \notin torn =>
                           /\ status[a] \in {"published"} \cup Retirements
                           /\ u \in content[a].audience
                           /\ content[a].from <= r.first
    BY DEF ReceiptsTellTheStory
  <2>1. Tells(a, u) /\ status[a] \in {"none", "draft", "published"} \cup Retirements
    BY DEF FeedInv, ClientFits, AnnInv, AnnTypes
  <2> QED
    BY <2>1 DEF Tells
<1>2. FeedInv /\ [FeedNext]_vars =>
        /\ [\A a \in Ids, u \in Users : \A f \in {"first", "read", "gone"} :
              receipt[a][u][f] # Never => receipt'[a][u][f] = receipt[a][u][f]]_vars
        /\ [\A u \in Users : (walk'[u].seen \ walk[u].seen) \cap walk[u].hidden = {}]_vars
  BY ReceiptsKept, ShownIsNotHidden
<1> QED
  BY <1>1, <1>2, FeedInvariance, PTL DEF FeedSafety, ReceiptsAreTrue, ReceiptsAreKept,
     DismissedStaysHidden

-----------------------------------------------------------------------------
(* Versions of a content entry.                                              *)

(* The types of the variables.                                               *)
ContentOps ==
  [kind : EditKinds, ver : Versions, body : Bodies \cup {NoBody}, listed : SUBSET Versions]

ContentTypes ==
  /\ entry \in BOOLEAN
  /\ version \in [Versions -> {"none", "DRAFT", "PUBLISHED", "ARCHIVED"}]
  /\ recorded \in [Versions -> Bodies \cup {NoBody}]
  /\ object \in [Versions -> Bodies \cup {NoBody}]
  /\ editing \in [Requests -> ContentOps]
  /\ given \in [Versions -> SUBSET (Bodies \cup {NoBody})]
  /\ cut \subseteq Versions /\ late \subseteq Versions

Creating(p) == editing[p].kind \in {"firstBody", "firstRow"}
Writes(p, v) == editing[p].ver = v /\ editing[p].kind \in Writing

(* The numbers taken have no gap, a request inserts the number after the     *)
(* highest it read, which stays the highest or is taken by another; only the *)
(* request that created the entry makes its first version.                   *)
NumbersInv ==
  /\ \E n \in 0..MaxVersion : Taken = 1..n
  /\ \A p \in Requests : editing[p].kind = "insert" => 1..(editing[p].ver - 1) \subseteq Taken
  /\ \A p \in Requests :
       editing[p].kind \in Writing \cup {"publish", "publishing"} => editing[p].ver \in Taken
  /\ \A p \in Requests : editing[p].kind \in {"allocate", "insert"} => Taken # {}
  /\ \A p \in Requests : Creating(p) => entry /\ Taken = {} /\ editing[p].ver = 1
  /\ \A p, q \in Requests : Creating(p) /\ Creating(q) => p = q
  /\ ~entry => Taken = {}

(* The transaction of publish archives what was published.                   *)
OnePublished == \A u, v \in Published : u = v

(* A version has a body that was given for it, and a request writes no       *)
(* other.                                                                    *)
BodiesInv ==
  /\ \A p \in Requests : editing[p].kind \in Writing \cup {"firstBody", "firstRow"} =>
                         editing[p].body \in given[editing[p].ver] \cup {NoBody}
  /\ BodyOfItsVersion

(* Unless it was cut, a version is written by one request at most, whose     *)
(* progress says which of its two copies, row and object, is behind.         *)
Whole(v) ==
  /\ \A p, q \in Requests : Writes(p, v) /\ Writes(q, v) => p = q
  /\ \/ recorded[v] \in {NoBody, object[v]}
     \/ \E p \in Requests : Writes(p, v) /\ editing[p].kind = "save"
  /\ \A p \in Requests : Writes(p, v) =>
       /\ editing[p].kind \in {"put", "record"} => recorded[v] = NoBody
       /\ editing[p].kind = "record" => object[v] = editing[p].body
       /\ editing[p].kind = "save" => editing[p].body \in {NoBody, object[v]}
UntornInv ==
  /\ \A v \in Versions \ cut : Whole(v)
  /\ \A v \in Versions : version[v] = "none" => recorded[v] = NoBody
  /\ \A p \in Requests : editing[p].kind = "firstRow" => object[1] = editing[p].body

(* Nobody edits a published version, but requests that were late.            *)
LateInv == \A v \in Published \ late : \A p \in Requests : ~Writes(p, v)

-----------------------------------------------------------------------------
(* What the steps do to the requests.                                        *)

(* What a step makes of its request.                                         *)
EditBecomes(p, k, v, b) ==
  /\ editing' \in [Requests -> ContentOps]
  /\ editing'[p].kind = k /\ editing'[p].ver = v /\ editing'[p].body = b
  /\ \A q \in Requests : q # p => editing'[q] = editing[q]

LEMMA EditAssigned ==
  ASSUME ContentTypes, NEW p \in Requests, NEW k \in EditKinds, NEW v \in Versions,
         NEW b \in Bodies \cup {NoBody}, NEW L \in SUBSET Versions,
         editing' = [editing EXCEPT ![p] = [kind |-> k, ver |-> v, body |-> b, listed |-> L]]
  PROVE  EditBecomes(p, k, v, b)
<1>1. [kind |-> k, ver |-> v, body |-> b, listed |-> L] \in ContentOps
  BY DEF ContentOps
<1> QED
  BY <1>1 DEF EditBecomes, ContentTypes

LEMMA EditGoesOn ==
  ASSUME ContentTypes, NEW p \in Requests, NEW k \in EditKinds, EditGoes(p, k)
  PROVE  EditBecomes(p, k, editing[p].ver, editing[p].body)
BY DEF EditGoes, EditBecomes, ContentTypes, ContentOps

LEMMA EditStarts ==
  ASSUME ContentTypes, NEW p \in Requests, NEW k \in EditKinds, NEW v \in Versions,
         NEW b \in Bodies \cup {NoBody}, editing' = [editing EXCEPT ![p] = Editing(k, v, b)]
  PROVE  EditBecomes(p, k, v, b)
<1>1. {} \in SUBSET Versions
  OBVIOUS
<1> QED
  BY <1>1, EditAssigned DEF Editing

LEMMA EditGoesHome ==
  ASSUME ContentTypes, NEW p \in Requests, EditEnds(p)
  PROVE  EditBecomes(p, "idle", 1, NoBody)
<1>1. "idle" \in EditKinds /\ 1 \in Versions
  BY ContentAssumption DEF EditKinds, Versions
<1> QED
  BY <1>1, EditStarts DEF EditEnds, NotEditing

(* A body that is given for a version.                                       *)
LEMMA Given ==
  ASSUME ContentTypes, NEW v \in Versions, NEW b \in Bodies \cup {NoBody}, Gives(v, b)
  PROVE  /\ given' \in [Versions -> SUBSET (Bodies \cup {NoBody})]
         /\ b \in given'[v]
         /\ \A u \in Versions : given[u] \subseteq given'[u]
BY DEF ContentTypes, Gives

(* What each of the first statements makes of its request.                   *)
LEMMA FirstDraftEffect ==
  ASSUME ContentTypes, NEW p \in Requests, NEW b \in Bodies \cup {NoBody},
         CreateEntry(p, b)
  PROVE  EditBecomes(p, "firstBody", 1, b)
<1>1. "firstBody" \in EditKinds /\ 1 \in Versions
  BY ContentAssumption DEF EditKinds, Versions
<1> QED
  BY <1>1, EditStarts DEF CreateEntry

LEMMA ForkEffect ==
  ASSUME ContentTypes, NEW p \in Requests, Fork(p)
  PROVE  \E v \in Published, b \in Bodies \cup {NoBody} : EditBecomes(p, "allocate", v, b)
<1>1. PICK v \in Published :
        editing' = [editing EXCEPT ![p] = Editing("allocate", v,
                                      IF recorded[v] = NoBody THEN NoBody ELSE object[v])]
  BY DEF Fork
<1>2. v \in Versions /\ object[v] \in Bodies \cup {NoBody}
  BY DEF Published, ContentTypes
<1>3. (IF recorded[v] = NoBody THEN NoBody ELSE object[v]) \in Bodies \cup {NoBody}
  BY <1>2
<1>4. "allocate" \in EditKinds
  BY DEF EditKinds
<1> QED
  BY <1>1, <1>2, <1>3, <1>4, EditStarts

LEMMA AllocateEffect ==
  ASSUME ContentTypes, NEW p \in Requests, Allocate(p)
  PROVE  NextVersion \in Versions /\ EditBecomes(p, "insert", NextVersion, editing[p].body)
<1>1. "insert" \in EditKinds /\ editing[p].body \in Bodies \cup {NoBody}
  BY DEF ContentTypes, ContentOps, EditKinds
<1> QED
  BY <1>1, EditStarts DEF Allocate

LEMMA PublishReadEffect ==
  ASSUME ContentTypes, NEW p \in Requests, NEW v \in Versions, PublishFind(p, v)
  PROVE  EditBecomes(p, "publish", v, NoBody)
<1>1. "publish" \in EditKinds
  BY DEF EditKinds
<1> QED
  BY <1>1, EditStarts DEF PublishFind

LEMMA PublishArchiveEffect ==
  ASSUME ContentTypes, NEW p \in Requests, PublishArchive(p)
  PROVE  EditBecomes(p, "publishing", editing[p].ver, NoBody)
<1>1. Published \in SUBSET Versions /\ editing[p].ver \in Versions /\ "publishing" \in EditKinds
  BY DEF Published, ContentTypes, ContentOps, EditKinds
<1> QED
  BY <1>1, EditAssigned DEF PublishArchive

LEMMA EditReadEffect ==
  ASSUME ContentTypes, NEW p \in Requests, NEW v \in Versions, NEW b \in Bodies,
         EditRead(p, v, b)
  PROVE  EditBecomes(p, "edit", v, b)
<1>1. "edit" \in EditKinds
  BY DEF EditKinds, Writing
<1> QED
  BY <1>1, EditStarts DEF EditRead

LEMMA EditWithoutBodyEffect ==
  ASSUME ContentTypes, NEW p \in Requests, NEW v \in Versions, EditWithoutBody(p, v)
  PROVE  \E b \in {NoBody, recorded[v]} : EditBecomes(p, "save", v, b)
<1>1. "save" \in EditKinds /\ recorded[v] \in Bodies \cup {NoBody}
  BY DEF EditKinds, Writing, ContentTypes
<1>2. PICK b \in {NoBody, recorded[v]} : editing' = [editing EXCEPT ![p] = Editing("save", v, b)]
  BY DEF EditWithoutBody
<1> QED
  BY <1>1, <1>2, EditStarts

-----------------------------------------------------------------------------
(* Steps that leave the rows, the objects and the edits alone, but that an   *)
(* edit may be cut short.                                                    *)

EditQuiet(p) ==
  /\ UNCHANGED <<version, recorded, object, given, late>>
  /\ \A q \in Requests : q # p => editing'[q] = editing[q]
  /\ editing'[p].kind \in {"idle", "allocate", "insert", "publish", "publishing"}
  /\ editing' \in [Requests -> ContentOps]
  /\ cut \subseteq cut' /\ cut' \subseteq Versions
  /\ editing[p].kind = "save" => editing[p].ver \in cut'

LEMMA QuietTypes ==
  ASSUME ContentTypes, NEW p \in Requests, EditQuiet(p), UNCHANGED entry
  PROVE  ContentTypes'
BY DEF ContentTypes, EditQuiet

LEMMA QuietBodies ==
  ASSUME ContentTypes, BodiesInv, NEW p \in Requests, EditQuiet(p)
  PROVE  BodiesInv'
BY DEF ContentTypes, EditQuiet, BodiesInv, BodyOfItsVersion, Writing

LEMMA QuietLate ==
  ASSUME ContentTypes, LateInv, NEW p \in Requests, EditQuiet(p)
  PROVE  LateInv'
BY DEF ContentTypes, EditQuiet, LateInv, Writes, Writing, Published

LEMMA QuietVersions ==
  ASSUME ContentTypes, UntornInv, NEW p \in Requests, EditQuiet(p)
  PROVE  UntornInv'
BY DEF ContentTypes, EditQuiet, UntornInv, Whole, Writes, Writing

LEMMA QuietNumbers ==
  ASSUME ContentTypes, NumbersInv, NEW p \in Requests, EditQuiet(p), UNCHANGED entry,
         editing'[p].kind \in {"allocate", "insert"} => Taken # {},
         editing'[p].kind \in {"publish", "publishing"} => editing'[p].ver \in Taken,
         editing'[p].kind = "insert" => 1..(editing'[p].ver - 1) \subseteq Taken
  PROVE  NumbersInv'
<1>1. Taken' = Taken
  BY DEF EditQuiet, Taken
<1>2. \A q \in Requests : q # p => editing'[q] = editing[q] /\ (Creating(q)' <=> Creating(q))
  BY DEF EditQuiet, Creating
<1>3. ~Creating(p)' /\ editing'[p].kind \notin Writing
  BY DEF EditQuiet, Creating, Writing
<1> QED
  BY <1>1, <1>2, <1>3 DEF NumbersInv
-----------------------------------------------------------------------------
(* A version that a step leaves alone, and one that only its request writes. *)

LEMMA VersionKept ==
  ASSUME NEW v \in Versions, Whole(v), recorded'[v] = recorded[v], object'[v] = object[v],
         \A q \in Requests : Writes(q, v)' => editing'[q] = editing[q],
         \A q \in Requests : Writes(q, v) => editing'[q] = editing[q]
  PROVE  Whole(v)'
BY DEF Whole, Writes

LEMMA VersionWritten ==
  ASSUME NEW v \in Versions, NEW p \in Requests,
         \A q \in Requests : q # p => ~Writes(q, v)',
         \/ recorded'[v] \in {NoBody, object'[v]}
         \/ Writes(p, v)' /\ editing'[p].kind = "save",
         Writes(p, v)' =>
           /\ editing'[p].kind \in {"put", "record"} => recorded'[v] = NoBody
           /\ editing'[p].kind = "record" => object'[v] = editing'[p].body
           /\ editing'[p].kind = "save" => editing'[p].body \in {NoBody, object'[v]}
  PROVE  Whole(v)'
BY DEF Whole, Writes

LEMMA OnlyWriter ==
  ASSUME NEW v \in Versions, Whole(v), NEW p \in Requests, Writes(p, v),
         \A q \in Requests : q # p => editing'[q] = editing[q]
  PROVE  \A q \in Requests : q # p => ~Writes(q, v)'
BY DEF Whole, Writes

LEMMA NotWritten ==
  ASSUME NumbersInv, NEW v \in Versions, v \notin Taken
  PROVE  \A q \in Requests : ~Writes(q, v)
BY DEF NumbersInv, Writes

(* The inductive invariant of ContentVersions.                               *)
ContentInv ==
  /\ ContentTypes
  /\ NumbersInv
  /\ OnePublished
  /\ BodiesInv
  /\ UntornInv
  /\ LateInv

(* Every step keeps the invariant: one lemma for each step that writes, and  *)
(* EditQuietStep for those that only read.                                   *)
LEMMA FirstDraftStep ==
  ASSUME ContentInv, NEW p \in Requests, NEW b \in Bodies \cup {NoBody},
         CreateEntry(p, b)
  PROVE  ContentInv'
<1> USE DEF ContentInv
<1>0. 1 \in Versions
  BY ContentAssumption DEF Versions
<1>1. EditBecomes(p, "firstBody", 1, b)
  BY FirstDraftEffect, Given DEF CreateEntry, NotEditing
<1>2. ContentTypes'
  BY <1>0, <1>1 DEF EditBecomes, CreateEntry, NotEditing, ContentTypes, ContentOps,
       versionRows, Gives
<1>3. NumbersInv'
  BY <1>1 DEF EditBecomes, CreateEntry, NumbersInv, Taken, versionRows, Creating, Writing
<1>4. OnePublished'
  BY <1>0, <1>1 DEF EditBecomes, CreateEntry, NotEditing, OnePublished, Published, ContentTypes,
     versionRows
<1>5. BodiesInv'
  BY <1>0, <1>1 DEF EditBecomes, CreateEntry, NotEditing, BodiesInv, BodyOfItsVersion, ContentTypes,
     ContentOps, versionRows, Writing, Gives
<1>6. UntornInv'
  BY <1>0, <1>1 DEF EditBecomes, CreateEntry, NotEditing, UntornInv, Whole, Writes, Writing,
     ContentTypes, ContentOps, versionRows, Creating, NumbersInv, Taken
<1>7. LateInv'
  BY <1>0, <1>1 DEF EditBecomes, CreateEntry, NotEditing, LateInv, Writes, Writing, Published,
     ContentTypes, ContentOps, versionRows, NumbersInv, Taken, Creating
<1> QED
  BY <1>2, <1>3, <1>4, <1>5, <1>6, <1>7

LEMMA StoreFirstBodyStep ==
  ASSUME ContentInv, NEW p \in Requests, StoreFirstBody(p)
  PROVE  ContentInv'
<1> USE DEF ContentInv
<1>0. 1 \in Versions
  BY ContentAssumption DEF Versions
<1>1. EditBecomes(p, "firstRow", editing[p].ver, editing[p].body)
  BY EditGoesOn DEF StoreFirstBody, EditKinds, Writing
<1>2. ContentTypes'
  BY <1>0, <1>1 DEF EditBecomes, StoreFirstBody, ContentTypes, ContentOps, ghosts, versionRows
<1>3. NumbersInv'
  <2>1. Taken' = Taken /\ editing[p].ver = 1 /\ entry /\ entry' = entry /\ Creating(p)
    BY DEF StoreFirstBody, versionRows, NumbersInv, Creating, Taken
  <2>2. \A q \in Requests : q # p => editing'[q] = editing[q]
    BY <1>1 DEF EditBecomes
  <2>3. editing'[p].kind = "firstRow" /\ editing'[p].ver = 1
    BY <1>1, <2>1 DEF EditBecomes
  <2>4. \A q \in Requests : Creating(q)' => Creating(q)
    BY <2>1, <2>2 DEF Creating
  <2> QED
    BY <2>1, <2>2, <2>3, <2>4 DEF NumbersInv, Writing, Creating
<1>4. OnePublished'
  BY <1>0, <1>1 DEF EditBecomes, StoreFirstBody, OnePublished, Published, ContentTypes,
     versionRows, ghosts
<1>5. BodiesInv'
  <2>1. editing[p].body \in given[editing[p].ver] \cup {NoBody} /\ editing[p].ver = 1
    BY DEF BodiesInv, StoreFirstBody, NumbersInv, Creating
  <2> QED
    BY <1>0, <1>1, <2>1 DEF BodiesInv, BodyOfItsVersion, StoreFirstBody, EditBecomes, versionRows,
       ghosts, ContentTypes, Writing
<1>6. UntornInv'
  <2>1. Taken = {} /\ editing[p].ver = 1 /\ version[1] = "none" /\ recorded[1] = NoBody
    BY <1>0 DEF StoreFirstBody, NumbersInv, Creating, UntornInv, Taken
  <2>2. \A q \in Requests : q # p => editing'[q].kind # "firstRow"
    BY <1>1 DEF EditBecomes, StoreFirstBody, NumbersInv, Creating
  <2>3. ASSUME NEW v \in Versions, v \notin cut' PROVE Whole(v)'
    <3>1. \A q \in Requests : ~Writes(q, v) /\ ~Writes(q, v)'
      BY <1>1, <2>1, NotWritten DEF EditBecomes, Writes, Writing
    <3>2. recorded'[v] = NoBody
      BY <2>1 DEF StoreFirstBody, versionRows, UntornInv, Taken, ContentTypes
    <3> QED
      BY <3>1, <3>2 DEF Whole
  <2> QED
    BY <1>0, <1>1, <2>1, <2>2, <2>3 DEF UntornInv, StoreFirstBody, versionRows, ghosts,
       EditBecomes, ContentTypes
<1>7. LateInv'
  BY <1>0, <1>1 DEF EditBecomes, StoreFirstBody, LateInv, Writes, Writing, Published,
     ContentTypes, ContentOps, versionRows, ghosts, NumbersInv, Taken, Creating
<1> QED
  BY <1>2, <1>3, <1>4, <1>5, <1>6, <1>7

LEMMA InsertFirstRowStep ==
  ASSUME ContentInv, NEW p \in Requests, InsertFirstRow(p)
  PROVE  ContentInv'
<1> USE DEF ContentInv
<1>0. 1 \in Versions
  BY ContentAssumption DEF Versions
<1>1. EditBecomes(p, "idle", 1, NoBody)
  BY EditGoesHome DEF InsertFirstRow, Writing
<1>2. ContentTypes'
  BY <1>0, <1>1 DEF EditBecomes, InsertFirstRow, ContentTypes, ContentOps, ghosts
<1>3. NumbersInv'
  <2>1. Taken = {} /\ editing[p].ver = 1 /\ entry /\ entry' = entry /\ Creating(p)
    BY DEF InsertFirstRow, NumbersInv, Creating
  <2>2. Taken' = {1}
    BY <1>0, <2>1 DEF InsertFirstRow, Taken, ContentTypes
  <2>3. 1 \in 0..MaxVersion /\ Taken' = 1..1
    BY <2>2, ContentAssumption
  <2>4. \A q \in Requests : ~Creating(q)'
    BY <1>1, <2>1 DEF Creating, NumbersInv, EditBecomes
  <2>5. \A q \in Requests : editing'[q].kind \notin Writing \cup {"publish", "publishing", "insert"}
    BY <1>1, <2>1 DEF NumbersInv, EditBecomes, Writing
  <2> QED
    BY <2>1, <2>2, <2>3, <2>4, <2>5 DEF NumbersInv
<1>4. OnePublished'
  BY <1>0, <1>1 DEF EditBecomes, InsertFirstRow, OnePublished, Published, ContentTypes, ghosts
<1>5. BodiesInv'
  <2>1. editing[p].body \in given[editing[p].ver] \cup {NoBody} /\ editing[p].ver = 1
    BY DEF BodiesInv, InsertFirstRow, NumbersInv, Creating
  <2> QED
    BY <1>0, <1>1, <2>1 DEF BodiesInv, BodyOfItsVersion, InsertFirstRow, EditBecomes, ghosts,
       ContentTypes, Writing
<1>6. UntornInv'
  <2>1. Taken = {} /\ editing[p].ver = 1 /\ object[1] = editing[p].body
    BY DEF InsertFirstRow, NumbersInv, Creating, UntornInv
  <2>2. \A q \in Requests : editing'[q].kind # "firstRow"
    BY <1>1 DEF EditBecomes, InsertFirstRow, NumbersInv, Creating
  <2>3. ASSUME NEW v \in Versions, v \notin cut' PROVE Whole(v)'
    <3>1. \A q \in Requests : ~Writes(q, v) /\ ~Writes(q, v)'
      BY <1>1, <2>1, NotWritten DEF EditBecomes, Writes, Writing
    <3>2. recorded'[v] \in {NoBody, object'[v]}
      BY <2>1 DEF InsertFirstRow, ghosts, UntornInv, Taken, ContentTypes
    <3> QED
      BY <3>1, <3>2 DEF Whole
  <2> QED
    BY <1>0, <1>1, <2>1, <2>2, <2>3 DEF UntornInv, InsertFirstRow, ghosts, ContentTypes
<1>7. LateInv'
  BY <1>0, <1>1 DEF EditBecomes, InsertFirstRow, LateInv, Writes, Writing, Published,
     ContentTypes, ContentOps, ghosts, NumbersInv, Taken, Creating
<1> QED
  BY <1>2, <1>3, <1>4, <1>5, <1>6, <1>7

LEMMA StoreBodyStep ==
  ASSUME ContentInv, NEW p \in Requests, StoreBody(p)
  PROVE  ContentInv'
<1> USE DEF ContentInv
<1>0. 1 \in Versions
  BY ContentAssumption DEF Versions
<1>1. EditBecomes(p, "record", editing[p].ver, editing[p].body)
  BY EditGoesOn DEF StoreBody, EditKinds, Writing
<1>2. ContentTypes'
  BY <1>0, <1>1 DEF EditBecomes, StoreBody, ContentTypes, ContentOps, ghosts, versionRows
<1>3. NumbersInv'
  BY <1>0, <1>1 DEF EditBecomes, StoreBody, NumbersInv, Taken, ContentTypes, ContentOps,
     ghosts, versionRows, Creating, Writing
<1>4. OnePublished'
  BY <1>0, <1>1 DEF EditBecomes, StoreBody, OnePublished, Published, ContentTypes, versionRows,
     ghosts
<1>5. BodiesInv'
  BY <1>0, <1>1 DEF EditBecomes, StoreBody, BodiesInv, BodyOfItsVersion, ContentTypes,
     ContentOps, versionRows, ghosts, Writing
<1>6. UntornInv'
  <2>1. editing[p].ver \in Taken /\ Writes(p, editing[p].ver) /\ Writes(p, editing[p].ver)'
    BY <1>1 DEF StoreBody, NumbersInv, Writing, Writes, EditBecomes
  <2>2. \A q \in Requests : q # p => editing'[q] = editing[q]
    BY <1>1 DEF EditBecomes
  <2>3. ASSUME NEW v \in Versions, v \notin cut' PROVE Whole(v)'
    <3>1. Whole(v)
      BY <2>3 DEF UntornInv, StoreBody, ghosts
    <3>2. CASE v = editing[p].ver
      <4>1. recorded'[v] = NoBody /\ object'[v] = editing'[p].body /\ editing'[p].kind = "record"
        BY <1>1, <2>1, <3>1, <3>2 DEF EditBecomes, StoreBody, versionRows, Whole, ContentTypes
      <4> QED
        BY <2>1, <2>2, <3>1, <3>2, <4>1, OnlyWriter, VersionWritten
    <3>3. CASE v # editing[p].ver
      <4>1. ~Writes(p, v) /\ ~Writes(p, v)'
        BY <1>1, <3>3 DEF EditBecomes, Writes
      <4>2. object'[v] = object[v] /\ recorded'[v] = recorded[v]
        BY <3>3 DEF StoreBody, versionRows, ContentTypes
      <4> QED
        BY <2>2, <3>1, <4>1, <4>2, VersionKept
    <3> QED
      BY <3>2, <3>3
  <2>4. Creating(p)' = FALSE /\ \A q \in Requests : ~Creating(q)
    BY <1>1, <2>1 DEF EditBecomes, Creating, NumbersInv
  <2> QED
    BY <1>1, <2>2, <2>3, <2>4 DEF UntornInv, StoreBody, versionRows, Creating
<1>7. LateInv'
  BY <1>0, <1>1 DEF EditBecomes, StoreBody, LateInv, Writes, Writing, Published, ContentTypes,
     ContentOps, versionRows, ghosts, NumbersInv, Taken, Creating
<1> QED
  BY <1>2, <1>3, <1>4, <1>5, <1>6, <1>7

LEMMA RecordBodyStep ==
  ASSUME ContentInv, NEW p \in Requests, RecordBody(p)
  PROVE  ContentInv'
<1> USE DEF ContentInv
<1>0. 1 \in Versions
  BY ContentAssumption DEF Versions
<1>1. EditBecomes(p, "idle", 1, NoBody)
  BY EditGoesHome DEF RecordBody
<1>2. ContentTypes'
  BY <1>0, <1>1 DEF EditBecomes, RecordBody, ContentTypes, ContentOps, ghosts
<1>3. NumbersInv'
  BY <1>0, <1>1 DEF EditBecomes, RecordBody, NumbersInv, Taken, ContentTypes, ContentOps,
     ghosts, Creating, Writing
<1>4. OnePublished'
  BY <1>0, <1>1 DEF EditBecomes, RecordBody, OnePublished, Published, ContentTypes, ghosts
<1>5. BodiesInv'
  BY <1>0, <1>1 DEF EditBecomes, RecordBody, BodiesInv, BodyOfItsVersion, ContentTypes,
     ContentOps, ghosts, Writing
<1>6. UntornInv'
  <2>1. editing[p].ver \in Taken /\ Writes(p, editing[p].ver)
    BY DEF RecordBody, NumbersInv, Writing, Writes
  <2>2. \A q \in Requests : q # p => editing'[q] = editing[q]
    BY <1>1 DEF EditBecomes
  <2>3. ~Writes(p, editing[p].ver)' /\ \A q \in Requests : ~Creating(q) /\ ~Creating(q)'
    BY <1>1, <2>1 DEF EditBecomes, Creating, NumbersInv, Writes, Writing
  <2>4. ASSUME NEW v \in Versions, v \notin cut' PROVE Whole(v)'
    <3>1. Whole(v)
      BY <2>4 DEF UntornInv, RecordBody, ghosts
    <3>2. CASE v = editing[p].ver
      <4>1. recorded'[v] = object'[v]
        BY <2>1, <3>1, <3>2 DEF RecordBody, Whole, ContentTypes
      <4>2. Writes(p, v) /\ ~Writes(p, v)'
        BY <1>1, <2>1, <3>2 DEF EditBecomes, Writes, Writing
      <4> QED
        BY <4>2, <2>2, <2>3, <3>1, <3>2, <4>1, OnlyWriter, VersionWritten
    <3>3. CASE v # editing[p].ver
      <4>1. ~Writes(p, v) /\ ~Writes(p, v)'
        BY <1>1, <3>3 DEF EditBecomes, Writes, Writing
      <4>2. object'[v] = object[v] /\ recorded'[v] = recorded[v]
        BY <3>3 DEF RecordBody, ContentTypes
      <4> QED
        BY <2>2, <3>1, <4>1, <4>2, VersionKept
    <3> QED
      BY <3>2, <3>3
  <2> QED
    BY <2>1, <2>3, <2>4 DEF UntornInv, RecordBody, Creating, Taken, ContentTypes
<1>7. LateInv'
  BY <1>0, <1>1 DEF EditBecomes, RecordBody, LateInv, Writes, Writing, Published,
     ContentTypes, ContentOps, ghosts, NumbersInv, Taken, Creating
<1> QED
  BY <1>2, <1>3, <1>4, <1>5, <1>6, <1>7

LEMMA EditStoreStep ==
  ASSUME ContentInv, NEW p \in Requests, EditStore(p)
  PROVE  ContentInv'
<1> USE DEF ContentInv
<1>0. 1 \in Versions
  BY ContentAssumption DEF Versions
<1>1. EditBecomes(p, "save", editing[p].ver, editing[p].body)
  BY EditGoesOn DEF EditStore, EditKinds, Writing
<1>2. ContentTypes'
  BY <1>0, <1>1 DEF EditBecomes, EditStore, ContentTypes, ContentOps, ghosts, versionRows
<1>3. NumbersInv'
  BY <1>0, <1>1 DEF EditBecomes, EditStore, NumbersInv, Taken, ContentTypes, ContentOps,
     ghosts, versionRows, Creating, Writing
<1>4. OnePublished'
  BY <1>0, <1>1 DEF EditBecomes, EditStore, OnePublished, Published, ContentTypes, versionRows,
     ghosts
<1>5. BodiesInv'
  BY <1>0, <1>1 DEF EditBecomes, EditStore, BodiesInv, BodyOfItsVersion, ContentTypes,
     ContentOps, versionRows, ghosts, Writing
<1>6. UntornInv'
  <2>1. editing[p].ver \in Taken /\ Writes(p, editing[p].ver) /\ Writes(p, editing[p].ver)'
    BY <1>1 DEF EditStore, NumbersInv, Writing, Writes, EditBecomes
  <2>2. \A q \in Requests : q # p => editing'[q] = editing[q]
    BY <1>1 DEF EditBecomes
  <2>3. ASSUME NEW v \in Versions, v \notin cut' PROVE Whole(v)'
    <3>1. Whole(v)
      BY <2>3 DEF UntornInv, EditStore, ghosts
    <3>2. CASE v = editing[p].ver
      <4>1. object'[v] = editing'[p].body /\ editing'[p].kind = "save"
        BY <1>1, <3>2 DEF EditBecomes, EditStore, ContentTypes
      <4>2. Writes(p, v) /\ Writes(p, v)'
        BY <1>1, <2>1, <3>2 DEF EditBecomes, Writes, Writing
      <4> QED
        BY <4>2, <2>2, <3>1, <3>2, <4>1, OnlyWriter, VersionWritten
    <3>3. CASE v # editing[p].ver
      <4>1. ~Writes(p, v) /\ ~Writes(p, v)'
        BY <1>1, <3>3 DEF EditBecomes, Writes
      <4>2. object'[v] = object[v] /\ recorded'[v] = recorded[v]
        BY <3>3 DEF EditStore, versionRows, ContentTypes
      <4> QED
        BY <2>2, <3>1, <4>1, <4>2, VersionKept
    <3> QED
      BY <3>2, <3>3
  <2>4. Creating(p)' = FALSE /\ \A q \in Requests : ~Creating(q)
    BY <1>1, <2>1 DEF EditBecomes, Creating, NumbersInv
  <2> QED
    BY <1>1, <2>2, <2>3, <2>4 DEF UntornInv, EditStore, versionRows, Creating
<1>7. LateInv'
  BY <1>0, <1>1 DEF EditBecomes, EditStore, LateInv, Writes, Writing, Published, ContentTypes,
     ContentOps, versionRows, ghosts, NumbersInv, Taken, Creating
<1> QED
  BY <1>2, <1>3, <1>4, <1>5, <1>6, <1>7

LEMMA EditSaveStep ==
  ASSUME ContentInv, NEW p \in Requests, EditSave(p)
  PROVE  ContentInv'
<1> USE DEF ContentInv
<1>0. 1 \in Versions
  BY ContentAssumption DEF Versions
<1>1. EditBecomes(p, "idle", 1, NoBody)
  BY EditGoesHome DEF EditSave, SavedBody
<1>2. ContentTypes'
  BY <1>0, <1>1 DEF EditBecomes, EditSave, SavedBody, ContentTypes, ContentOps, ghosts
<1>3. NumbersInv'
  BY <1>0, <1>1 DEF EditBecomes, EditSave, SavedBody, NumbersInv, Taken, ContentTypes,
     ContentOps, ghosts, Creating, Writing
<1>4. OnePublished'
  BY <1>0, <1>1 DEF EditBecomes, EditSave, SavedBody, OnePublished, Published, ContentTypes,
     ghosts
<1>5. BodiesInv'
  BY <1>0, <1>1 DEF EditBecomes, EditSave, SavedBody, BodiesInv, BodyOfItsVersion,
     ContentTypes, ContentOps, ghosts, Writing
<1>6. UntornInv'
  <2>1. editing[p].ver \in Taken /\ Writes(p, editing[p].ver)
    BY DEF EditSave, NumbersInv, Writing, Writes
  <2>2. \A q \in Requests : q # p => editing'[q] = editing[q]
    BY <1>1 DEF EditBecomes
  <2>3. ~Writes(p, editing[p].ver)' /\ \A q \in Requests : ~Creating(q) /\ ~Creating(q)'
    BY <1>1, <2>1 DEF EditBecomes, Creating, NumbersInv, Writes, Writing
  <2>4. ASSUME NEW v \in Versions, v \notin cut' PROVE Whole(v)'
    <3>1. Whole(v)
      BY <2>4 DEF UntornInv, EditSave, ghosts
    <3>2. CASE v = editing[p].ver
      <4>1. recorded'[v] \in {NoBody, object'[v]}
        BY <2>1, <3>1, <3>2 DEF EditSave, SavedBody, Whole, ContentTypes
      <4>2. Writes(p, v) /\ ~Writes(p, v)'
        BY <1>1, <2>1, <3>2 DEF EditBecomes, Writes, Writing
      <4> QED
        BY <4>2, <2>2, <2>3, <3>1, <3>2, <4>1, OnlyWriter, VersionWritten
    <3>3. CASE v # editing[p].ver
      <4>1. ~Writes(p, v) /\ ~Writes(p, v)'
        BY <1>1, <3>3 DEF EditBecomes, Writes, Writing
      <4>2. object'[v] = object[v] /\ recorded'[v] = recorded[v]
        BY <3>3 DEF EditSave, ContentTypes
      <4> QED
        BY <2>2, <3>1, <4>1, <4>2, VersionKept
    <3> QED
      BY <3>2, <3>3
  <2> QED
    BY <2>1, <2>3, <2>4 DEF UntornInv, EditSave, Creating, Taken, ContentTypes
<1>7. LateInv'
  BY <1>0, <1>1 DEF EditBecomes, EditSave, SavedBody, LateInv, Writes, Writing, Published,
     ContentTypes, ContentOps, ghosts, NumbersInv, Taken, Creating
<1> QED
  BY <1>2, <1>3, <1>4, <1>5, <1>6, <1>7

LEMMA CompensateStep ==
  ASSUME ContentInv, NEW p \in Requests, Compensate(p)
  PROVE  ContentInv'
<1> USE DEF ContentInv
<1>0. 1 \in Versions
  BY ContentAssumption DEF Versions
<1>1. EditBecomes(p, "idle", 1, NoBody)
  BY EditGoesHome DEF Compensate
<1>2. ContentTypes'
  BY <1>0, <1>1 DEF EditBecomes, Compensate, ContentTypes, ContentOps, ghosts, versionRows
<1>3. NumbersInv'
  BY <1>0, <1>1 DEF EditBecomes, Compensate, NumbersInv, Taken, ContentTypes, ContentOps,
     ghosts, versionRows, Creating, Writing
<1>4. OnePublished'
  BY <1>0, <1>1 DEF EditBecomes, Compensate, OnePublished, Published, ContentTypes, versionRows,
     ghosts
<1>5. BodiesInv'
  BY <1>0, <1>1 DEF EditBecomes, Compensate, BodiesInv, BodyOfItsVersion, ContentTypes,
     ContentOps, versionRows, ghosts, Writing
<1>6. UntornInv'
  <2>1. \A q \in Requests : ~Writes(q, editing[p].ver)' \/ (q # p /\ editing'[q] = editing[q])
    BY <1>1 DEF EditBecomes, Writes, Writing
  <2>2. ASSUME NEW v \in Versions, v \notin cut' PROVE Whole(v)'
    <3>1. Whole(v)
      BY <2>2 DEF UntornInv, Compensate, ghosts
    <3>2. CASE v = editing[p].ver
      <4>1. recorded[v] = NoBody /\ \A q \in Requests : q # p => ~Writes(q, v)'
        <5>1. CASE editing[p].kind = "record"
          <6>1. Writes(p, v)
            BY <3>2, <5>1 DEF Writes, Writing
          <6> QED
            BY <1>1, <3>1, <5>1, <6>1, OnlyWriter DEF Whole, EditBecomes
        <5>2. CASE editing[p].kind = "firstRow"
          <6>1. v \notin Taken
            BY <5>2 DEF NumbersInv, Creating
          <6> QED
            BY <1>1, <6>1, NotWritten DEF UntornInv, EditBecomes, Taken, Writes
        <5> QED
          BY <5>1, <5>2 DEF Compensate
      <4>2. recorded'[v] = NoBody /\ ~Writes(p, v)'
        BY <1>1, <4>1 DEF Compensate, versionRows, EditBecomes, Writes, Writing
      <4> QED
        BY <4>1, <4>2, VersionWritten
    <3>3. CASE v # editing[p].ver
      <4>1. ~Writes(p, v) /\ ~Writes(p, v)'
        BY <1>1, <3>3 DEF EditBecomes, Writes, Writing
      <4>2. object'[v] = object[v] /\ recorded'[v] = recorded[v]
        BY <3>3 DEF Compensate, versionRows, ContentTypes
      <4> QED
        BY <1>1, <3>1, <4>1, <4>2, VersionKept DEF EditBecomes
    <3> QED
      BY <3>2, <3>3
  <2>3. \A q \in Requests : editing'[q].kind = "firstRow" => editing[p].kind = "record"
    BY <1>1 DEF EditBecomes, Compensate, NumbersInv, Creating
  <2>4. \A q \in Requests : editing'[q].kind # "firstRow"
    BY <1>1, <2>3 DEF EditBecomes, Compensate, NumbersInv, Creating, Writing
  <2> QED
    BY <2>2, <2>4 DEF UntornInv, Compensate, versionRows
<1>7. LateInv'
  BY <1>0, <1>1 DEF EditBecomes, Compensate, LateInv, Writes, Writing, Published,
     ContentTypes, ContentOps, versionRows, ghosts, NumbersInv, Taken, Creating
<1> QED
  BY <1>2, <1>3, <1>4, <1>5, <1>6, <1>7

LEMMA PublishCommitStep ==
  ASSUME ContentInv, NEW p \in Requests, PublishCommit(p)
  PROVE  ContentInv'
<1> USE DEF ContentInv
<1>0. 1 \in Versions
  BY ContentAssumption DEF Versions
<1>1. EditBecomes(p, "idle", 1, NoBody)
  BY EditGoesHome DEF PublishCommit, StatusAfterPublish, WrittenByOther, OnlyOne, Writing
<1>2. ContentTypes'
  BY <1>0, <1>1 DEF EditBecomes, PublishCommit, StatusAfterPublish, WrittenByOther, OnlyOne,
     ContentTypes, ContentOps
<1>3. NumbersInv'
  <2>1. Taken' = Taken
    BY DEF PublishCommit, StatusAfterPublish, NumbersInv, Taken, ContentTypes
  <2>2. editing'[p].kind = "idle" /\ \A q \in Requests : q # p => editing'[q] = editing[q]
    BY <1>1 DEF EditBecomes
  <2>3. \A q \in Requests : Creating(q)' => Creating(q)
    BY <2>2 DEF Creating
  <2>4. entry' = entry
    BY DEF PublishCommit
  <2> QED
    BY <2>1, <2>2, <2>3, <2>4 DEF NumbersInv, Writing, Creating
<1>4. OnePublished'
  BY <1>0, <1>1 DEF EditBecomes, PublishCommit, StatusAfterPublish, WrittenByOther, OnlyOne,
     OnePublished, Published, ContentTypes
<1>5. BodiesInv'
  BY <1>0, <1>1 DEF EditBecomes, PublishCommit, StatusAfterPublish, WrittenByOther, OnlyOne,
     BodiesInv, BodyOfItsVersion, ContentTypes, ContentOps, Writing
<1>6. UntornInv'
  <2>1. \A v \in Versions : version'[v] = "none" => version[v] = "none"
    BY DEF PublishCommit, StatusAfterPublish, NumbersInv, ContentTypes
  <2>2. ~Writes(p, editing[p].ver) /\ \A v \in Versions : ~Writes(p, v) /\ ~Writes(p, v)'
    BY <1>1 DEF PublishCommit, Writes, Writing, EditBecomes
  <2>3. ASSUME NEW v \in Versions, v \notin cut' PROVE Whole(v)'
    BY <1>1, <2>2, <2>3, VersionKept DEF UntornInv, PublishCommit, EditBecomes
  <2> QED
    BY <1>1, <2>1, <2>3 DEF UntornInv, PublishCommit, EditBecomes
<1>7. LateInv'
  BY <1>0, <1>1 DEF EditBecomes, PublishCommit, StatusAfterPublish, WrittenByOther, OnlyOne,
     LateInv, Writes, Writing, Published, ContentTypes, ContentOps, NumbersInv, Taken,
     Creating
<1> QED
  BY <1>2, <1>3, <1>4, <1>5, <1>6, <1>7

LEMMA EditReadStep ==
  ASSUME ContentInv, NEW p \in Requests, NEW v \in Versions,
         NEW b \in Bodies, EditRead(p, v, b)
  PROVE  ContentInv'
<1> USE DEF ContentInv
<1>0. 1 \in Versions
  BY ContentAssumption DEF Versions
<1>1. EditBecomes(p, "edit", v, b)
  BY EditReadEffect, Given DEF EditRead, Cuts, WrittenByOther, IsDraft, NotEditing, Writing
<1>2. ContentTypes'
  BY <1>0, <1>1 DEF EditBecomes, EditRead, Cuts, WrittenByOther, IsDraft, NotEditing,
     ContentTypes, ContentOps, versionRows, Gives
<1>3. NumbersInv'
  BY <1>0, <1>1 DEF EditBecomes, EditRead, Cuts, WrittenByOther, IsDraft, NotEditing,
     NumbersInv, Taken, ContentTypes, ContentOps, versionRows, Creating, Writing
<1>4. OnePublished'
  BY <1>0, <1>1 DEF EditBecomes, EditRead, Cuts, WrittenByOther, IsDraft, NotEditing,
     OnePublished, Published, ContentTypes, versionRows
<1>5. BodiesInv'
  BY <1>0, <1>1 DEF EditBecomes, EditRead, Cuts, WrittenByOther, IsDraft, NotEditing,
     BodiesInv, BodyOfItsVersion, ContentTypes, ContentOps, versionRows, Writing, Gives
<1>6. UntornInv'
  <2>1. ASSUME NEW u \in Versions, u \notin cut' PROVE Whole(u)'
    <3>1. Whole(u)
      BY <2>1 DEF UntornInv, EditRead, Cuts
    <3>2. ~Writes(p, u)
      BY DEF EditRead, NotEditing, Editing, Writes, Writing
    <3>3. CASE u = v
      <4>1. \A q \in Requests : q # p => ~Writes(q, u) /\ ~Writes(q, u)'
        BY <1>1, <2>1, <3>3 DEF EditRead, Cuts, WrittenByOther, Writes, EditBecomes
      <4>2. recorded'[u] \in {NoBody, object'[u]}
        BY <3>1, <3>2, <4>1 DEF Whole, EditRead, versionRows
      <4> QED
        BY <1>1, <4>1, <4>2, VersionWritten DEF EditBecomes
    <3>4. CASE u # v
      <4>1. ~Writes(p, u)'
        BY <1>1, <3>4 DEF EditBecomes, Writes
      <4> QED
        BY <1>1, <3>1, <3>2, <4>1, VersionKept DEF EditRead, versionRows, EditBecomes
    <3> QED
      BY <3>3, <3>4
  <2> QED
    BY <1>1, <2>1 DEF UntornInv, EditRead, versionRows, EditBecomes
<1>7. LateInv'
  BY <1>0, <1>1 DEF EditBecomes, EditRead, Cuts, WrittenByOther, IsDraft, NotEditing, LateInv,
     Writes, Writing, Published, ContentTypes, ContentOps, versionRows, NumbersInv, Taken,
     Creating
<1> QED
  BY <1>2, <1>3, <1>4, <1>5, <1>6, <1>7

LEMMA EditWithoutBodyStep ==
  ASSUME ContentInv, NEW p \in Requests, NEW v \in Versions,
         EditWithoutBody(p, v)
  PROVE  ContentInv'
<1> USE DEF ContentInv
<1>1. PICK b \in {NoBody, recorded[v]} : EditBecomes(p, "save", v, b)
  BY EditWithoutBodyEffect
<1>2. ContentTypes'
  BY <1>1 DEF EditBecomes, EditWithoutBody, ContentTypes, versionRows, Cuts
<1>3. NumbersInv'
  BY <1>1 DEF EditBecomes, EditWithoutBody, IsDraft, NumbersInv, Taken, ContentTypes,
     versionRows, Creating, Writing
<1>4. OnePublished'
  BY DEF EditWithoutBody, OnePublished, Published, versionRows
<1>5. BodiesInv'
  BY <1>1 DEF EditBecomes, EditWithoutBody, BodiesInv, BodyOfItsVersion, versionRows, Writing
<1>6. UntornInv'
  <2>1. ASSUME NEW u \in Versions, u \notin cut' PROVE Whole(u)'
    <3>1. Whole(u)
      BY <2>1 DEF UntornInv, EditWithoutBody, Cuts
    <3>2. ~Writes(p, u)
      BY DEF EditWithoutBody, NotEditing, Editing, Writes, Writing
    <3>3. CASE u = v
      <4>1. \A q \in Requests : q # p => ~Writes(q, u) /\ ~Writes(q, u)'
        BY <1>1, <2>1, <3>3 DEF EditWithoutBody, Cuts, WrittenByOther, Writes, EditBecomes
      <4>2. recorded'[u] \in {NoBody, object'[u]} /\ editing'[p].body \in {NoBody, object'[u]}
        BY <1>1, <3>1, <3>2, <3>3, <4>1 DEF Whole, EditWithoutBody, versionRows, EditBecomes
      <4> QED
        BY <1>1, <4>1, <4>2, VersionWritten DEF EditBecomes
    <3>4. CASE u # v
      <4>1. ~Writes(p, u)'
        BY <1>1, <3>4 DEF EditBecomes, Writes
      <4> QED
        BY <1>1, <3>1, <3>2, <4>1, VersionKept DEF EditWithoutBody, versionRows, EditBecomes
    <3> QED
      BY <3>3, <3>4
  <2> QED
    BY <1>1, <2>1 DEF UntornInv, EditWithoutBody, versionRows, EditBecomes
<1>7. LateInv'
  BY <1>1 DEF EditBecomes, EditWithoutBody, IsDraft, LateInv, Writes, Published, versionRows
<1> QED
  BY <1>2, <1>3, <1>4, <1>5, <1>6, <1>7

LEMMA InsertRowStep ==
  ASSUME ContentInv, NEW p \in Requests, InsertRow(p)
  PROVE  ContentInv'
<1> USE DEF ContentInv
<1>0. PICK v \in Versions : v = editing[p].ver
  BY DEF ContentTypes, ContentOps
<1>1. /\ editing[p].kind = "insert" /\ version[v] = "none"
      /\ version' = [version EXCEPT ![v] = "DRAFT"]
      /\ Gives(v, editing[p].body)
      /\ editing[p].body \in Bodies \cup {NoBody}
  BY <1>0 DEF InsertRow, NumberIsFree, ContentTypes, ContentOps
<1>2. \/ editing[p].body = NoBody /\ EditBecomes(p, "idle", 1, NoBody)
      \/ EditBecomes(p, "put", v, editing[p].body)
  BY <1>0, EditGoesOn, EditGoesHome DEF InsertRow, EditKinds, Writing
<1>3. /\ \A q \in Requests : q # p => editing'[q] = editing[q]
      /\ editing' \in [Requests -> ContentOps]
      /\ editing'[p].kind \in {"idle", "put"}
      /\ editing'[p].kind = "put" => editing'[p].ver = v /\ editing'[p].body = editing[p].body
  BY <1>2 DEF EditBecomes
<1>4. recorded[v] = NoBody /\ \A q \in Requests : ~Writes(q, v)
  BY <1>1, NotWritten DEF UntornInv, Taken
<1>5. ContentTypes'
  BY <1>1, <1>3, Given DEF InsertRow, ContentTypes
<1>6. NumbersInv'
  <2>1. Taken' = Taken \cup {v} /\ Taken # {}
    BY <1>1 DEF ContentTypes, Taken, NumbersInv
  <2>2. PICK n \in 0..MaxVersion : Taken = 1..n
    BY DEF NumbersInv
  <2>3. v = n + 1
    <3>1. 1..(v - 1) \subseteq 1..n /\ v \notin 1..n
      BY <1>0, <1>1, <2>2 DEF NumbersInv, Taken
    <3>2. v \in Nat /\ v >= 1 /\ n \in Nat
      BY <2>2, ContentAssumption DEF Versions
    <3>3. v > n
      BY <3>1, <3>2
    <3>4. v - 1 > n => v - 1 \in 1..(v - 1) /\ v - 1 \notin 1..n
      BY <3>2
    <3> QED
      BY <3>1, <3>2, <3>3, <3>4
  <2>4. Taken' = 1..v /\ v \in 0..MaxVersion
    BY <2>1, <2>2, <2>3, ContentAssumption DEF Versions
  <2>5. \A q \in Requests : ~Creating(q) /\ ~Creating(q)'
    BY <1>3, <2>1 DEF NumbersInv, Creating
  <2>6. entry' = entry /\ entry
    BY <2>1 DEF InsertRow, NumbersInv, ContentTypes
  <2> QED
    BY <1>3, <2>1, <2>4, <2>5, <2>6 DEF NumbersInv, Writing
<1>7. OnePublished'
  BY <1>1 DEF OnePublished, Published, ContentTypes
<1>8. BodiesInv'
  <2>1. editing[p].body \in given'[v] /\ \A u \in Versions : given[u] \subseteq given'[u]
    BY <1>1, Given
  <2>2. ASSUME NEW q \in Requests, editing'[q].kind \in Writing \cup {"firstBody", "firstRow"}
        PROVE  editing'[q].body \in given'[editing'[q].ver] \cup {NoBody}
    <3>1. CASE q = p
      BY <1>3, <2>1, <2>2, <3>1 DEF Writing
    <3>2. CASE q # p
      <4>1. editing[q].ver \in Versions
        BY DEF ContentTypes, ContentOps
      <4> QED
        BY <1>3, <2>1, <2>2, <3>2, <4>1 DEF BodiesInv
    <3> QED
      BY <3>1, <3>2
  <2>3. BodyOfItsVersion'
    BY <2>1 DEF BodiesInv, BodyOfItsVersion, InsertRow
  <2> QED
    BY <2>2, <2>3 DEF BodiesInv
<1>9. UntornInv'
  <2>1. ASSUME NEW u \in Versions, u \notin cut' PROVE Whole(u)'
    <3>1. Whole(u)
      BY <2>1 DEF UntornInv, InsertRow
    <3>2. CASE u = v
      <4>1. \A q \in Requests : q # p => ~Writes(q, u)'
        BY <1>3, <1>4, <3>2 DEF Writes
      <4>2. recorded'[u] = NoBody /\ (Writes(p, u)' => editing'[p].kind = "put")
        BY <1>3, <1>4, <3>2 DEF InsertRow, Writes, Writing
      <4> QED
        BY <4>1, <4>2, VersionWritten
    <3>3. CASE u # v
      <4>1. ~Writes(p, u) /\ ~Writes(p, u)'
        BY <1>1, <1>3, <3>3 DEF Writes, Writing
      <4> QED
        BY <1>3, <3>1, <4>1, VersionKept DEF InsertRow
    <3> QED
      BY <3>2, <3>3
  <2> QED
    BY <1>1, <1>3, <2>1 DEF UntornInv, InsertRow, ContentTypes
<1>10. LateInv'
  BY <1>1, <1>3 DEF LateInv, Published, Writes, Writing, InsertRow, ContentTypes
<1> QED
  BY <1>5, <1>6, <1>7, <1>8, <1>9, <1>10

LEMMA ArchiveStep ==
  ASSUME ContentInv, NEW v \in Versions, Archive(v)
  PROVE  ContentInv'
<1> USE DEF ContentInv
<1>1. Taken' = Taken /\ Published' \subseteq Published
  BY DEF Archive, Taken, Published, ContentTypes
<1>2. ContentTypes'
  BY DEF Archive, ContentTypes, ghosts
<1>3. NumbersInv'
  BY <1>1 DEF Archive, NumbersInv, Creating
<1>4. OnePublished'
  BY <1>1 DEF OnePublished
<1>5. BodiesInv'
  BY DEF BodiesInv, BodyOfItsVersion, Archive, ghosts
<1>6. UntornInv'
  BY DEF Archive, UntornInv, Whole, Writes, ghosts, ContentTypes
<1>7. LateInv'
  BY <1>1 DEF Archive, LateInv, Writes, ghosts
<1> QED
  BY <1>2, <1>3, <1>4, <1>5, <1>6, <1>7

LEMMA EditQuietStep ==
  ASSUME ContentInv, NEW p \in Requests, EditQuiet(p), UNCHANGED entry,
         editing'[p].kind \in {"allocate", "insert"} => Taken # {},
         editing'[p].kind \in {"publish", "publishing"} => editing'[p].ver \in Taken,
         editing'[p].kind = "insert" => 1..(editing'[p].ver - 1) \subseteq Taken
  PROVE  ContentInv'
<1>1. OnePublished'
  BY DEF ContentInv, OnePublished, Published, EditQuiet
<1> QED
  BY <1>1, QuietTypes, QuietNumbers, QuietBodies, QuietVersions, QuietLate DEF ContentInv

(* createDraftVersion takes the number after the highest one.                *)
LEMMA NumberOfTaken ==
  ASSUME NumbersInv, Taken # {}
  PROVE  1..(NextVersion - 1) \subseteq Taken
<1>1. PICK n \in 0..MaxVersion : Taken = 1..n
  BY DEF NumbersInv
<1>2. n \in Nat /\ n >= 1
  BY <1>1, ContentAssumption
<1>3. Cardinality(Taken) = n
  BY <1>1, <1>2, FS_Interval
<1> QED
  BY <1>1, <1>2, <1>3 DEF NextVersion

LEMMA CreateStep ==
  ASSUME ContentInv, NEW p \in Requests, Create(p)
  PROVE  ContentInv'
<1>1. CASE Fork(p)
  <2>1. PICK v \in Published, b \in Bodies \cup {NoBody} : EditBecomes(p, "allocate", v, b)
    BY <1>1, ForkEffect DEF ContentInv
  <2>2. EditQuiet(p) /\ UNCHANGED entry
    BY <1>1, <2>1 DEF EditQuiet, EditBecomes, Fork, NotEditing, Editing, versionRows, ghosts,
       ContentInv, ContentTypes
  <2>3. Taken # {}
    BY DEF Taken, Published
  <2> QED
    BY <2>1, <2>2, <2>3, EditQuietStep DEF EditBecomes
<1>2. CASE Allocate(p)
  <2>1. EditBecomes(p, "insert", NextVersion, editing[p].body)
    BY <1>2, AllocateEffect DEF ContentInv
  <2>2. EditQuiet(p) /\ UNCHANGED entry
    BY <1>2, <2>1 DEF EditQuiet, EditBecomes, Allocate, versionRows, ghosts, ContentInv,
       ContentTypes
  <2>3. Taken # {} /\ NumbersInv
    BY <1>2 DEF ContentInv, NumbersInv, Allocate
  <2> QED
    BY <2>1, <2>2, <2>3, NumberOfTaken, EditQuietStep DEF EditBecomes
<1>3. CASE NumberTaken(p)
  <2>1. EditBecomes(p, "allocate", editing[p].ver, editing[p].body)
    BY <1>3, EditGoesOn DEF NumberTaken, EditKinds, Writing, ContentInv
  <2>2. EditQuiet(p) /\ UNCHANGED entry
    BY <1>3, <2>1 DEF EditQuiet, EditBecomes, NumberTaken, versionRows, ghosts, ContentInv,
       ContentTypes
  <2>3. Taken # {}
    BY <1>3 DEF ContentInv, NumbersInv, NumberTaken
  <2> QED
    BY <2>1, <2>2, <2>3, EditQuietStep DEF EditBecomes
<1> QED
  BY <1>1, <1>2, <1>3, FirstDraftStep, StoreFirstBodyStep, InsertFirstRowStep, InsertRowStep,
     StoreBodyStep, RecordBodyStep DEF Create

LEMMA EditStep ==
  ASSUME ContentInv, NEW p \in Requests, Edit(p)
  PROVE  ContentInv'
BY EditReadStep, EditWithoutBodyStep, EditStoreStep, EditSaveStep DEF Edit

LEMMA PublishStep ==
  ASSUME ContentInv, NEW p \in Requests, Publish(p)
  PROVE  ContentInv'
<1>1. ASSUME NEW v \in Versions, PublishFind(p, v) PROVE ContentInv'
  <2>1. EditBecomes(p, "publish", v, NoBody)
    BY <1>1, PublishReadEffect DEF ContentInv
  <2>2. EditQuiet(p) /\ UNCHANGED entry
    BY <1>1, <2>1 DEF EditQuiet, EditBecomes, PublishFind, NotEditing, Editing, versionRows, ghosts,
       ContentInv, ContentTypes
  <2>3. v \in Taken
    BY <1>1 DEF PublishFind, Taken
  <2> QED
    BY <2>1, <2>2, <2>3, EditQuietStep DEF EditBecomes
<1>2. CASE PublishArchive(p)
  <2>1. EditBecomes(p, "publishing", editing[p].ver, NoBody)
    BY <1>2, PublishArchiveEffect DEF ContentInv
  <2>2. EditQuiet(p) /\ UNCHANGED entry
    BY <1>2, <2>1 DEF EditQuiet, EditBecomes, PublishArchive, versionRows, ghosts, ContentInv,
       ContentTypes
  <2>3. editing[p].ver \in Taken
    BY <1>2 DEF PublishArchive, ContentInv, NumbersInv
  <2> QED
    BY <2>1, <2>2, <2>3, EditQuietStep DEF EditBecomes
<1> QED
  BY <1>1, <1>2, PublishCommitStep DEF Publish

LEMMA StopStep ==
  ASSUME ContentInv, NEW p \in Requests, EditStops(p)
  PROVE  ContentInv'
<1>1. EditBecomes(p, "idle", 1, NoBody)
  BY EditGoesHome DEF EditStops, ContentInv
<1>2. editing[p].ver \in Versions
  BY DEF ContentInv, ContentTypes, ContentOps
<1>3. EditQuiet(p) /\ UNCHANGED entry
  BY <1>1, <1>2 DEF EditQuiet, EditBecomes, EditStops, versionRows, ContentInv, ContentTypes
<1> QED
  BY <1>1, <1>3, EditQuietStep DEF EditBecomes

(* The invariant is inductive.                                               *)
LEMMA ContentInitHolds == ContentInit => ContentInv
<1> SUFFICES ASSUME ContentInit PROVE ContentInv
  OBVIOUS
<1>1. Taken = {} /\ Published = {}
  BY DEF ContentInit, Taken, Published
<1>2. ContentTypes
  <2>1. NotEditing \in ContentOps
    BY ContentAssumption DEF NotEditing, Editing, ContentOps, EditKinds, Versions
  <2> QED
    BY <2>1 DEF ContentInit, ContentTypes
<1>3. NumbersInv
  <2>1. 0 \in 0..MaxVersion /\ Taken = 1..0
    BY <1>1, ContentAssumption
  <2> QED
    BY <1>1, <2>1 DEF NumbersInv, ContentInit, NotEditing, Editing, Creating, Writing
<1>4. BodiesInv
  BY DEF BodiesInv, BodyOfItsVersion, ContentInit, NotEditing, Editing, Writing
<1>5. UntornInv
  BY DEF UntornInv, Whole, Writes, Writing, ContentInit, NotEditing, Editing
<1> QED
  BY <1>1, <1>2, <1>3, <1>4, <1>5 DEF ContentInv, OnePublished, LateInv

LEMMA ContentStepHolds == ContentInv /\ [ContentNext]_contentVars => ContentInv'
<1> SUFFICES ASSUME ContentInv, [ContentNext]_contentVars PROVE ContentInv'
  OBVIOUS
<1>1. CASE UNCHANGED contentVars
  BY <1>1 DEF contentVars, ContentInv, ContentTypes, NumbersInv, OnePublished, BodiesInv, UntornInv,
     LateInv, Taken, Published, Creating, Writes, Whole, BodyOfItsVersion
<1> QED
  BY <1>1, CreateStep, EditStep, PublishStep, CompensateStep, StopStep, ArchiveStep DEF ContentNext

(* The strengthened invariant of the versions holds.                         *)
THEOREM ContentInvariance == ContentSpec => []ContentInv
<1>1. ContentInit => ContentInv
  BY ContentInitHolds
<1>2. ContentInv /\ [ContentNext]_contentVars => ContentInv'
  BY ContentStepHolds
<1> QED
  BY <1>1, <1>2, PTL DEF ContentSpec

(* Every variable has its type, version numbers have no gap, and one version *)
(* at most is published.                                                     *)
LEMMA ContentTyped == ContentInv => ContentTypeOK
<1> SUFFICES ASSUME ContentInv PROVE ContentTypeOK
  OBVIOUS
<1>1. ASSUME NEW v \in Taken PROVE 1..v \subseteq Taken
  BY ContentAssumption DEF ContentInv, NumbersInv
<1>2. Cardinality(Published) <= 1
  <2>1. CASE Published = {}
    BY <2>1, FS_EmptySet
  <2>2. ASSUME NEW v \in Published PROVE Cardinality(Published) = 1
    <3>1. Published = {v}
      BY DEF ContentInv, OnePublished
    <3> QED
      BY <3>1, FS_Singleton
  <2> QED
    BY <2>1, <2>2
<1> QED
  BY <1>1, <1>2 DEF ContentInv, ContentTypes, ContentOps, ContentTypeOK

(* The type invariant of content versions, numbers and publication included. *)
THEOREM ContentTypeCorrect == ContentSpec => []ContentTypeOK
BY ContentTyped, ContentInvariance, PTL

(* However forks, edits and publications overlap, numbers have no gaps, one  *)
(* version at most is published, each version keeps a body that was given    *)
(* for it, and the recorded body is the stored one unless an edit was        *)
(* overlapped or cut short.                                                  *)
THEOREM BodiesAreKept == ContentSpec => []VersionsKeepTheirBodies
<1>1. ASSUME ContentInv PROVE BodyOfItsVersion /\ RecordedIsStored
  BY <1>1 DEF ContentInv, BodiesInv, UntornInv, Whole, Writes, RecordedIsStored,
     BodyOfItsVersion
<1>2. ContentInv => VersionsKeepTheirBodies
  BY <1>1, ContentTyped DEF VersionsKeepTheirBodies
<1> QED
  BY <1>2, ContentInvariance, PTL

(* The public page disappears with archive only.                             *)
LEMMA PageStays ==
  ASSUME ContentInv, [ContentNext]_contentVars, Published # {}, Published' = {}
  PROVE  \E v \in Versions : Archive(v)
<1>1. version' # version
  BY DEF Published
<1>2. CASE \E p \in Requests : InsertFirstRow(p) \/ InsertRow(p)
  <2>1. Published \subseteq Published'
    BY <1>2 DEF InsertFirstRow, InsertRow, NumberIsFree, Published, ContentInv,
       ContentTypes, NumbersInv, Creating, Taken
  <2> QED
    BY <2>1
<1>3. ASSUME NEW p \in Requests, PublishCommit(p) PROVE FALSE
  <2>1. editing[p].ver \in Published'
    BY <1>3 DEF PublishCommit, StatusAfterPublish, Published, ContentInv, ContentTypes,
       ContentOps
  <2> QED
    BY <2>1
<1> QED
  BY <1>1, <1>2, <1>3 DEF ContentNext, Create, Edit, Publish, CreateEntry, StoreFirstBody,
     Fork, Allocate, NumberTaken, StoreBody, RecordBody, EditRead, EditWithoutBody,
     EditStore, EditSave, PublishFind, PublishArchive, Compensate, EditStops, versionRows,
     contentVars

(* The body of a published version changes under late requests only.         *)
LEMMA BodyStays ==
  ASSUME ContentInv, [ContentNext]_contentVars, NEW v \in Published, v \notin late
  PROVE  object'[v] = object[v]
<1>1. v \in Taken /\ v \in Versions
  BY DEF Published, Taken
<1>2. \A p \in Requests : ~Writes(p, v) /\ ~Creating(p)
  BY <1>1 DEF ContentInv, LateInv, NumbersInv
<1>3. ASSUME NEW p \in Requests, StoreFirstBody(p) \/ StoreBody(p) \/ EditStore(p) \/ Compensate(p)
      PROVE  object'[v] = object[v]
  BY <1>1, <1>2, <1>3 DEF StoreFirstBody, StoreBody, EditStore, Compensate, Writes,
     Writing, Creating, ContentInv, ContentTypes
<1> QED
  BY <1>3 DEF ContentNext, Create, Edit, Publish, CreateEntry, InsertFirstRow, Fork,
     Allocate, InsertRow, NumberTaken, RecordBody, EditRead, EditWithoutBody,
     EditSave, PublishFind, PublishArchive, PublishCommit, Archive, EditStops, versionRows,
     contentVars

(* The public page of an entry only disappears when its version is archived, *)
(* and changes only under an edit that began before it was published.        *)
THEOREM PublicPage == ContentSpec => PublicPageIsKept
<1>1. ASSUME ContentInv, [ContentNext]_contentVars
      PROVE  /\ Published # {} /\ Published' = {} => \E v \in Versions : Archive(v)
             /\ \A v \in Published : object'[v] # object[v] => v \in late
  BY <1>1, PageStays, BodyStays
<1> QED
  BY <1>1, ContentInvariance, PTL DEF ContentSpec, PublicPageIsKept, ReadersKeepAPage,
     PublishedBodyIsKept

-----------------------------------------------------------------------------
(* Artifacts of a release.                                                   *)

(* The types of the variables.                                               *)
RelOps == [pc : {"idle", "media", "row", "context", "publish", "delete"},
           object : Objects, seen : SUBSET Objects]

RelTypes ==
  /\ release \in {"draft", "published"}
  /\ context \in [Objects -> {"none", "product", "release"}]
  /\ working \in [Packers -> RelOps]
  /\ verified \subseteq Objects /\ missed \subseteq Objects /\ artifacts \subseteq Objects

(* Of each kind but deltas there is one artifact.                            *)
OneOfAKind == \A a, b \in artifacts : KindOf[a] = KindOf[b] /\ KindOf[a] \in Singletons => a = b

(* Artifacts have their media rows, and so do those that are to be added;    *)
(* what a publication has seen is what it takes, and is still there.         *)
MediaInv ==
  /\ \A a \in artifacts : context[a] # "none"
  /\ \A p \in Packers : working[p].pc = "row" => context[working[p].object] # "none"
  /\ \A p \in Packers : working[p].pc = "publish" =>
       working[p].seen \subseteq artifacts /\ HasRequired(working[p].seen)

(* What is published was verified, and whatever joins it later was on its    *)
(* way.                                                                      *)
PublishedInv ==
  release = "published" =>
    /\ verified \subseteq artifacts /\ HasRequired(verified)
    /\ artifacts \subseteq verified \cup missed
    /\ OnItsWay \subseteq missed

(* The inductive invariant of ReleaseArtifacts.                              *)
RelInv == RelTypes /\ OneOfAKind /\ MediaInv /\ PublishedInv

-----------------------------------------------------------------------------
(* What a step makes of its request.                                         *)
RelBecomes(p, k, o, s) ==
  /\ working' \in [Packers -> RelOps]
  /\ working'[p].pc = k /\ working'[p].object = o /\ working'[p].seen = s
  /\ \A q \in Packers : q # p => working'[q] = working[q]

LEMMA RelBegins ==
  ASSUME RelTypes, NEW p \in Packers, NEW k \in {"media", "publish", "delete"},
         NEW o \in Objects, NEW s \in SUBSET Objects, WorkBegins(p, k, o, s)
  PROVE  working[p].pc = "idle" /\ RelBecomes(p, k, o, s)
BY DEF RelTypes, RelOps, WorkBegins, NoWork, RelBecomes

LEMMA RelGoes ==
  ASSUME RelTypes, NEW p \in Packers, NEW k \in {"row", "context"}, WorkGoes(p, k)
  PROVE  RelBecomes(p, k, working[p].object, working[p].seen)
BY DEF RelTypes, RelOps, WorkGoes, RelBecomes

LEMMA RelReturns ==
  ASSUME RelTypes, NEW p \in Packers, WorkEnds(p)
  PROVE  RelBecomes(p, "idle", Main, {})
BY ArtifactsAssumption DEF RelTypes, RelOps, WorkEnds, NoWork, RelBecomes

(* A step that starts or ends a request, and touches nothing else.           *)
LEMMA RelQuietStep ==
  ASSUME RelInv, NEW p \in Packers, UNCHANGED <<release, context, artifacts, verified, missed>>,
         NEW k \in {"idle", "media", "publish", "delete"}, NEW o \in Objects,
         NEW s \in SUBSET Objects,
         RelBecomes(p, k, o, s),
         k = "media" => release = "draft",
         k = "publish" => s \subseteq artifacts /\ HasRequired(s)
  PROVE  RelInv'
<1>1. RelTypes' /\ OneOfAKind'
  BY DEF RelInv, RelTypes, OneOfAKind, RelBecomes
<1>2. MediaInv'
  BY DEF RelInv, MediaInv, RelBecomes, HasRequired
<1>3. PublishedInv'
  BY DEF RelInv, RelTypes, PublishedInv, RelBecomes, HasRequired, OnItsWay
<1> QED
  BY <1>1, <1>2, <1>3 DEF RelInv

LEMMA AddMediaStep ==
  ASSUME RelInv, NEW p \in Packers, AddMedia(p)
  PROVE  RelInv'
<1> USE DEF RelInv
<1>1. CASE WorkEnds(p) /\ UNCHANGED context
  <2>1. Main \in Objects /\ {} \in SUBSET Objects
    BY ArtifactsAssumption
  <2> QED
    BY <1>1, <2>1, RelReturns, RelQuietStep DEF AddMedia
<1>2. CASE WorkGoes(p, "row") /\ context' = [context EXCEPT ![working[p].object] = "product"]
  <2>1. RelBecomes(p, "row", working[p].object, working[p].seen)
    BY <1>2, RelGoes
  <2>2. RelTypes' /\ OneOfAKind'
    BY <1>2, <2>1 DEF AddMedia, RelTypes, OneOfAKind, RelBecomes
  <2>3. MediaInv'
    BY <1>2, <2>1 DEF AddMedia, RelTypes, RelOps, MediaInv, RelBecomes, HasRequired
  <2>4. PublishedInv'
    BY <2>1 DEF AddMedia, PublishedInv, RelBecomes, HasRequired, OnItsWay
  <2> QED
    BY <2>2, <2>3, <2>4
<1> QED
  BY <1>1, <1>2 DEF AddMedia

LEMMA AddRowStep ==
  ASSUME RelInv, NEW p \in Packers, AddRow(p)
  PROVE  RelInv'
<1> USE DEF RelInv
<1>1. CASE WorkEnds(p) /\ UNCHANGED artifacts
  <2>1. Main \in Objects /\ {} \in SUBSET Objects
    BY ArtifactsAssumption
  <2> QED
    BY <1>1, <2>1, RelReturns, RelQuietStep DEF AddRow
<1>2. CASE ~KindTaken(working[p].object) /\ artifacts' = artifacts \cup {working[p].object}
             /\ WorkGoes(p, "context")
  <2>1. RelBecomes(p, "context", working[p].object, working[p].seen)
    BY <1>2, RelGoes
  <2>2. working[p].object \in Objects
    BY DEF RelTypes, RelOps
  <2>3. RelTypes' /\ OneOfAKind'
    BY <1>2, <2>1, <2>2 DEF AddRow, RelTypes, OneOfAKind, RelBecomes, KindTaken
  <2>4. MediaInv'
    BY <1>2, <2>1 DEF AddRow, MediaInv, RelBecomes, HasRequired
  <2>5. PublishedInv'
    BY <1>2, <2>1 DEF AddRow, PublishedInv, RelBecomes, HasRequired, OnItsWay
  <2> QED
    BY <2>3, <2>4, <2>5
<1> QED
  BY <1>1, <1>2 DEF AddRow

LEMMA AddContextStep ==
  ASSUME RelInv, NEW p \in Packers, AddContext(p)
  PROVE  RelInv'
<1> USE DEF RelInv
<1>1. RelBecomes(p, "idle", Main, {})
  BY RelReturns DEF AddContext
<1>2. RelTypes' /\ OneOfAKind'
  BY <1>1 DEF AddContext, RelTypes, OneOfAKind, RelBecomes
<1>3. MediaInv'
  BY <1>1 DEF AddContext, RelTypes, RelOps, MediaInv, RelBecomes, HasRequired
<1>4. PublishedInv'
  BY <1>1 DEF AddContext, PublishedInv, RelBecomes, HasRequired, OnItsWay
<1> QED
  BY <1>2, <1>3, <1>4

LEMMA PublishWriteStep ==
  ASSUME RelInv, NEW p \in Packers, ReleaseWrite(p)
  PROVE  RelInv'
<1> USE DEF RelInv
<1>1. RelBecomes(p, "idle", Main, {})
  BY RelReturns DEF ReleaseWrite
<1>2. working[p] \in RelOps /\ OnItsWay \subseteq Objects
  BY DEF RelTypes, RelOps, OnItsWay
<1>3. RelTypes' /\ OneOfAKind'
  BY <1>1, <1>2 DEF ReleaseWrite, RelTypes, RelOps, OneOfAKind, RelBecomes
<1>4. MediaInv'
  BY <1>1 DEF ReleaseWrite, MediaInv, RelBecomes, HasRequired
<1>5. PublishedInv'
  <2>1. OnItsWay' \subseteq OnItsWay
    BY <1>1 DEF OnItsWay, RelBecomes
  <2>2. working[p].seen \subseteq artifacts /\ HasRequired(working[p].seen)
    BY DEF ReleaseWrite, MediaInv
  <2> QED
    BY <2>1, <2>2 DEF ReleaseWrite, PublishedInv, HasRequired
<1> QED
  BY <1>3, <1>4, <1>5

LEMMA DeleteRowStep ==
  ASSUME RelInv, NEW p \in Packers, DeleteMediaRow(p)
  PROVE  RelInv'
<1> USE DEF RelInv
<1>1. CASE WorkEnds(p) /\ UNCHANGED context
  <2>1. Main \in Objects /\ {} \in SUBSET Objects
    BY ArtifactsAssumption
  <2> QED
    BY <1>1, <2>1, RelReturns, RelQuietStep DEF DeleteMediaRow
<1>2. CASE ~(WorkEnds(p) /\ UNCHANGED context)
  <2> DEFINE o == working[p].object
             Holds(q) == working[q].object = o /\ working[q].pc \in {"row", "delete"}
  <2>1. /\ o \notin artifacts /\ context' = [context EXCEPT ![o] = "none"]
        /\ working' = [q \in Packers |-> IF Holds(q) THEN NoWork ELSE working[q]]
        /\ UNCHANGED <<release, artifacts, verified, missed>>
    BY <1>2 DEF DeleteMediaRow, StillUsed
  <2>2. NoWork \in RelOps /\ NoWork.pc = "idle"
    BY ArtifactsAssumption DEF NoWork, RelOps
  <2>3. \A q \in Packers : working'[q] = IF Holds(q) THEN NoWork ELSE working[q]
    BY <2>1
  <2>4. RelTypes' /\ OneOfAKind'
    BY <2>1, <2>2 DEF RelTypes, OneOfAKind
  <2>5. MediaInv'
    <3>1. \A a \in artifacts' : context'[a] # "none"
      BY <2>1 DEF MediaInv, RelTypes
    <3>2. ASSUME NEW q \in Packers, working'[q].pc = "row"
          PROVE  context'[working'[q].object] # "none"
      <4>1. working'[q] = working[q] /\ working[q].object # o
        BY <2>2, <2>3, <3>2
      <4> QED
        BY <2>1, <3>2, <4>1 DEF MediaInv, RelTypes, RelOps
    <3>3. ASSUME NEW q \in Packers, working'[q].pc = "publish"
          PROVE  working'[q].seen \subseteq artifacts' /\ HasRequired(working'[q].seen)
      BY <2>1, <2>2, <2>3, <3>3 DEF MediaInv
    <3> QED
      BY <3>1, <3>2, <3>3 DEF MediaInv, HasRequired
  <2>6. PublishedInv'
    <3>1. OnItsWay' \subseteq OnItsWay
      BY <2>2, <2>3 DEF OnItsWay
    <3> QED
      BY <2>1, <3>1 DEF PublishedInv, HasRequired
  <2> QED
    BY <2>4, <2>5, <2>6
<1> QED
  BY <1>1, <1>2

(* The invariant is inductive.                                               *)
LEMMA RelInitHolds == ArtifactsInit => RelInv
BY ArtifactsAssumption DEF ArtifactsInit, RelInv, RelTypes, RelOps, NoWork, OneOfAKind,
   MediaInv, PublishedInv

LEMMA RelStepHolds == RelInv /\ [ArtifactsNext]_artifactVars => RelInv'
<1> SUFFICES ASSUME RelInv, [ArtifactsNext]_artifactVars PROVE RelInv'
  OBVIOUS
<1>1. Main \in Objects /\ {} \in SUBSET Objects /\ artifacts \in SUBSET Objects /\ RelTypes
  BY ArtifactsAssumption DEF RelInv, RelTypes
<1>2. ASSUME NEW p \in Packers, NEW o \in Objects, AddCheck(p, o) PROVE RelInv'
  BY <1>1, <1>2, RelBegins, RelQuietStep DEF AddCheck, MayAdd
<1>3. ASSUME NEW p \in Packers, NEW o \in Objects, DeleteCheck(p, o) PROVE RelInv'
  BY <1>1, <1>3, RelBegins, RelQuietStep DEF DeleteCheck
<1>4. ASSUME NEW p \in Packers, ReleaseCheck(p) PROVE RelInv'
  BY <1>1, <1>4, RelBegins, RelQuietStep DEF ReleaseCheck
<1>5. ASSUME NEW p \in Packers, WorkStops(p) PROVE RelInv'
  BY <1>1, <1>5, RelReturns, RelQuietStep DEF WorkStops
<1>6. CASE UNCHANGED artifactVars
  BY <1>6 DEF artifactVars, RelInv, RelTypes, OneOfAKind, MediaInv, PublishedInv, OnItsWay,
     HasRequired
<1> QED
  BY <1>2, <1>3, <1>4, <1>5, <1>6, AddMediaStep, AddRowStep, AddContextStep, PublishWriteStep,
     DeleteRowStep DEF ArtifactsNext, Add, PublishRelease, DeleteMedia

(* The strengthened invariant of the artifacts holds.                        *)
THEOREM RelInvariance == ArtifactsSpec => []RelInv
<1>1. ArtifactsInit => RelInv
  BY RelInitHolds
<1>2. RelInv /\ [ArtifactsNext]_artifactVars => RelInv'
  BY RelStepHolds
<1> QED
  BY <1>1, <1>2, PTL DEF ArtifactsSpec

(* A published release has the artifacts it needs, one of a kind, they are   *)
(* those that were verified, and only a request that had passed its checks   *)
(* before the publication can add to them.                                   *)
THEOREM PublishedReleaseIsSound == ArtifactsSpec => []PublishedIsSound
<1>1. ASSUME RelInv PROVE ArtifactsTypeOK
  <2>1. ASSUME NEW k \in Singletons PROVE Cardinality({a \in artifacts : KindOf[a] = k}) <= 1
    <3> DEFINE S == {a \in artifacts : KindOf[a] = k}
    <3>1. CASE S = {}
      BY <3>1, FS_EmptySet
    <3>2. ASSUME NEW a \in S PROVE Cardinality(S) = 1
      <4>1. S = {a}
        BY <1>1 DEF RelInv, OneOfAKind
      <4> QED
        BY <4>1, FS_Singleton
    <3> QED
      BY <3>1, <3>2
  <2> QED
    BY <1>1, <2>1 DEF RelInv, RelTypes, RelOps, ArtifactsTypeOK
<1>2. ASSUME RelInv PROVE PublishedIsComplete /\ PublishedWasVerified
  BY <1>2 DEF RelInv, MediaInv, PublishedInv, HasRequired, PublishedIsComplete,
     PublishedWasVerified
<1>3. RelInv => PublishedIsSound
  BY <1>1, <1>2 DEF PublishedIsSound
<1> QED
  BY <1>3, RelInvariance, PTL
==============================================================================
