---------------------------- MODULE Announcements ----------------------------
(***************************************************************************)
(* The system announcements administrators write: AnnouncementService of   *)
(* packages/catalog, and the announcement that publishing a release may    *)
(* create (publishReleaseAction, publishWhatsNewForRelease).               *)
(*                                                                         *)
(* No operation runs in a transaction: every database statement is a step, *)
(* requests overlap between steps and may die there.  Rows are written by  *)
(* id, whatever their status is by then.  A content stands for what a form *)
(* holds: the release its button links to, the locales it is written in,   *)
(* the clients its targeting matches and its schedule; bodies, severities  *)
(* and audit rows are left out, and so are the artifacts of a release.     *)
(***************************************************************************)
EXTENDS Naturals, FiniteSets

CONSTANTS
  Ids,           \* ids of rows: random, ordered, in no relation to insertion
  Releases,      \* releases that can be published
  NoRelease,     \* a null related_release_id or no software_update button
  Users,         \* users with a desktop client
  Contents,      \* what a form may hold
  Audience,      \* Audience[r]: the clients that release r is for
  Admins,        \* requests of administrators that may be in progress at once
  MaxTime        \* bound on the clock

Never == MaxTime + 1   \* a null timestamp
Times == 0..Never
Locales == {"vi", "en"}
Content == [cta : Releases \cup {NoRelease}, locales : SUBSET Locales,
            audience : SUBSET Users, from : Times, until : Times]

ASSUME AnnouncementAssumption ==
  /\ Ids \subseteq Nat \ {0}
  /\ NoRelease \notin Releases
  /\ MaxTime \in Nat
  /\ Contents \subseteq Content
  /\ \A c \in Contents : c.locales # {} /\ c.from < c.until   \* validateDraftInput
  /\ Audience \in [Releases -> SUBSET Users]

VARIABLES
  now,       \* the clock
  released,  \* releases published
  status,    \* system_announcements.status, "none" before the row exists
  bound,     \* related_release_id
  at,        \* published_at
  content,   \* the other columns of the row
  copy,      \* locales with a row in announcement_translations
  op,        \* what each request of an administrator is doing
  torn       \* announcements that two requests worked on at once

rowVars == <<status, bound, at, content>>
annVars == <<now, released, status, bound, at, content, copy, op, torn>>

Blank == [cta |-> NoRelease, locales |-> {}, audience |-> {}, from |-> 0, until |-> 0]
Doing(k, a, c, r, n) == [kind |-> k, ann |-> a, content |-> c, bound |-> r, notify |-> n]
WorkingOn(k, a) == Doing(k, a, Blank, NoRelease, FALSE)
Idle == WorkingOn("idle", 0)

(* buildReleaseWhatsNewDraftInput                                            *)
WhatsNew(r) == [cta |-> r, locales |-> Locales, audience |-> Audience[r],
                from |-> 0, until |-> Never]

AnnInit ==
  /\ now = 0
  /\ released = {}
  /\ status = [a \in Ids |-> "none"]
  /\ bound = [a \in Ids |-> NoRelease]
  /\ at = [a \in Ids |-> Never]
  /\ content = [a \in Ids |-> Blank]
  /\ copy = [a \in Ids |-> {}]
  /\ op = [p \in Admins |-> Idle]
  /\ torn = {}

Begins(p, o) == op[p] = Idle /\ op' = [op EXCEPT ![p] = o]
Goes(p, k) == op' = [op EXCEPT ![p].kind = k]
Returns(p) == op' = [op EXCEPT ![p] = Idle]

WorksOn(q, a) == op[q].ann = a /\ op[q].kind # "cloneCopy"
Tears(p, a) == torn' = IF \E q \in Admins \ {p} : WorksOn(q, a) THEN torn \cup {a} ELSE torn

-----------------------------------------------------------------------------
(* createDraft: nothing to look up unless the content links to a release.    *)
Drafting(c, r, n) == Doing(IF r = NoRelease THEN "insert" ELSE "find", 0, c, r, n)

CreateDraft(p, c) ==
  /\ Begins(p, Drafting(c, c.cta, FALSE))
  /\ UNCHANGED <<now, released, rowVars, copy, torn>>

BoundElsewhere(p) == \E a \in Ids \ {op[p].ann} :
  op[p].bound # NoRelease /\ bound[a] = op[p].bound

(* findByRelatedReleaseId, of createDraft and of updateDraft.                *)
FindBound(p) ==
  /\ op[p].kind = "find"
  /\ IF BoundElsewhere(p) THEN Returns(p)
     ELSE Goes(p, IF op[p].ann = 0 THEN "insert" ELSE "save")
  /\ UNCHANGED <<now, released, rowVars, copy, torn>>

IndexForgotten(p) == TRUE   \* faulty
(* The unique index system_announcements_related_release_id_uidx.            *)
BoundIsFree(p) == ~BoundElsewhere(p)

Insert(p, a) ==
  /\ op[p].kind = "insert"
  /\ status[a] = "none"
  /\ BoundIsFree(p)
  /\ status' = [status EXCEPT ![a] = "draft"]
  /\ bound' = [bound EXCEPT ![a] = op[p].bound]
  /\ content' = [content EXCEPT ![a] = op[p].content]
  /\ op' = [op EXCEPT ![p] = Doing("clear", a, op[p].content, op[p].bound, op[p].notify)]
  /\ UNCHANGED <<now, released, at, copy, torn>>

IndexRefuses(p) ==
  /\ op[p].kind \in {"insert", "save"}
  /\ ~BoundIsFree(p)
  /\ Returns(p)
  /\ UNCHANGED <<now, released, rowVars, copy, torn>>

(* replaceTranslations: a delete, then an insert.                            *)
ClearCopy(p) ==
  /\ op[p].kind = "clear"
  /\ copy' = [copy EXCEPT ![op[p].ann] = {}]
  /\ Goes(p, "write")
  /\ UNCHANGED <<now, released, rowVars, torn>>

CopyConflicts(p) == copy[op[p].ann] \cap op[p].content.locales # {}

WriteCopy(p) ==
  /\ op[p].kind = "write"
  /\ IF CopyConflicts(p)   \* announcement_translation_announcement_locale_unique
     THEN Returns(p) /\ UNCHANGED copy
     ELSE /\ copy' = [copy EXCEPT ![op[p].ann] = @ \cup op[p].content.locales]
          /\ IF op[p].notify THEN Goes(p, "publish") ELSE Returns(p)
  /\ UNCHANGED <<now, released, rowVars, torn>>

-----------------------------------------------------------------------------
AnyStatus(a) == status[a] # "none"   \* faulty
MayEdit(a) == status[a] = "draft"

(* updateDraft: the status is read once, at the start.                       *)
UpdateDraft(p, a, c) ==
  /\ MayEdit(a)
  /\ Begins(p, Doing(IF c.cta = NoRelease THEN "save" ELSE "find", a, c, c.cta, FALSE))
  /\ Tears(p, a)
  /\ UNCHANGED <<now, released, rowVars, copy>>

SaveRow(p) ==
  LET a == op[p].ann IN
  /\ op[p].kind = "save"
  /\ BoundIsFree(p)
  /\ bound' = [bound EXCEPT ![a] = op[p].bound]
  /\ content' = [content EXCEPT ![a] = op[p].content]
  /\ Goes(p, "clear")
  /\ UNCHANGED <<now, released, status, at, copy, torn>>

(* clonePublishedToDraft: the copy is not bound to the release.              *)
Clone(p, a) ==
  /\ status[a] = "published"
  /\ Begins(p, Doing("cloneCopy", a, content[a], NoRelease, FALSE))
  /\ UNCHANGED <<now, released, rowVars, copy, torn>>

CloneCopy(p) ==
  LET of == op[p].content
      c == [cta |-> of.cta, locales |-> copy[op[p].ann], audience |-> of.audience,
            from |-> of.from, until |-> of.until]
  IN
  /\ op[p].kind = "cloneCopy"
  /\ IF c.locales = {} THEN Returns(p)
     ELSE op' = [op EXCEPT ![p] = Drafting(c, NoRelease, FALSE)]
  /\ UNCHANGED <<now, released, rowVars, copy, torn>>

-----------------------------------------------------------------------------
MayPublish(a) == status[a] = "draft"

(* publish, called for a form or by publishWhatsNewForRelease: the row is    *)
(* read, its translations are read, and the row is written by id.            *)
PublishRead(p, a) ==
  /\ op[p] = Idle \/ (op[p].kind = "publish" /\ op[p].ann = a)
  /\ MayPublish(a)
  /\ op' = [op EXCEPT ![p] = WorkingOn("copies", a)]
  /\ Tears(p, a)
  /\ UNCHANGED <<now, released, rowVars, copy>>

PublishRefused(p) ==
  /\ op[p].kind = "publish"
  /\ ~MayPublish(op[p].ann)
  /\ Returns(p)
  /\ UNCHANGED <<now, released, rowVars, copy, torn>>

HasDefaultLocale(a) == "vi" \in copy[a]

ReadCopy(p) ==
  /\ op[p].kind = "copies"
  /\ IF HasDefaultLocale(op[p].ann) THEN Goes(p, "commit") ELSE Returns(p)
  /\ UNCHANGED <<now, released, rowVars, copy, torn>>

StampForgotten(p) == at[op[p].ann]   \* faulty
Stamp(p) == now

PublishRow(p) ==
  /\ op[p].kind = "commit"
  /\ status' = [status EXCEPT ![op[p].ann] = "published"]
  /\ at' = [at EXCEPT ![op[p].ann] = Stamp(p)]
  /\ Returns(p)
  /\ UNCHANGED <<now, released, bound, content, copy, torn>>

(* expire and archive.                                                       *)
Retirements == {"expired", "archived"}

RetireRead(p, a, s) ==
  /\ status[a] = "published"
  /\ Begins(p, WorkingOn(s, a))
  /\ Tears(p, a)
  /\ UNCHANGED <<now, released, rowVars, copy>>

RetireRow(p) ==
  /\ op[p].kind \in Retirements
  /\ status' = [status EXCEPT ![op[p].ann] = op[p].kind]
  /\ Returns(p)
  /\ UNCHANGED <<now, released, bound, at, content, copy, torn>>

-----------------------------------------------------------------------------
(* publishReleaseAction: only a release that is a draft is ready.            *)
ReleaseReady(p, r, n) ==
  /\ r \notin released
  /\ Begins(p, Doing("release", 0, Blank, r, n))
  /\ UNCHANGED <<now, released, rowVars, copy, torn>>

(* ReleaseService.publish: it returns a release that is published already.   *)
ReleasePublish(p) ==
  /\ op[p].kind = "release"
  /\ released' = released \cup {op[p].bound}
  /\ IF op[p].notify THEN Goes(p, "notify") ELSE Returns(p)
  /\ UNCHANGED <<now, rowVars, copy, torn>>

(* ... or fails, when another request publishes it after that look.          *)
ReleaseLost(p) ==
  /\ op[p].kind = "release"
  /\ op[p].bound \in released
  /\ Returns(p)
  /\ UNCHANGED <<now, released, rowVars, copy, torn>>

(* publishWhatsNewForRelease: an announcement that exists is returned as it  *)
(* is.                                                                       *)
Notify(p) ==
  LET r == op[p].bound IN
  /\ op[p].kind = "notify"
  /\ IF BoundElsewhere(p) THEN Returns(p)
     ELSE op' = [op EXCEPT ![p] = Drafting(WhatsNew(r), r, TRUE)]
  /\ UNCHANGED <<now, released, rowVars, copy, torn>>

(* A statement fails, or the process stops.                                  *)
Stop(p) ==
  /\ op[p] # Idle
  /\ Returns(p)
  /\ UNCHANGED <<now, released, rowVars, copy, torn>>

Tick ==
  /\ now < MaxTime
  /\ now' = now + 1
  /\ UNCHANGED <<released, rowVars, copy, op, torn>>

Write(p) ==
  \/ \E c \in Contents : CreateDraft(p, c)
  \/ \E a \in Ids, c \in Contents : UpdateDraft(p, a, c)
  \/ \E a \in Ids : Insert(p, a) \/ Clone(p, a)
  \/ FindBound(p) \/ IndexRefuses(p) \/ SaveRow(p) \/ CloneCopy(p)
  \/ ClearCopy(p) \/ WriteCopy(p)

Decide(p) ==
  \/ \E a \in Ids : PublishRead(p, a) \/ \E s \in Retirements : RetireRead(p, a, s)
  \/ PublishRefused(p) \/ ReadCopy(p) \/ PublishRow(p) \/ RetireRow(p)

ReleaseNotified(p) ==
  \/ \E r \in Releases, n \in BOOLEAN : ReleaseReady(p, r, n)
  \/ ReleasePublish(p) \/ ReleaseLost(p) \/ Notify(p)

AnnNext ==
  \/ \E p \in Admins : Write(p) \/ Decide(p) \/ ReleaseNotified(p) \/ Stop(p)
  \/ Tick

AnnSpec == AnnInit /\ [][AnnNext]_annVars

-----------------------------------------------------------------------------
Kinds == {"idle", "find", "insert", "clear", "write", "save", "cloneCopy", "publish",
          "copies", "commit", "release", "notify"} \cup Retirements

(* Every variable has its type, a row has a publication time from when it is *)
(* first published, and it is bound to no release but its button's.          *)
AnnTypeOK ==
  /\ now \in 0..MaxTime
  /\ released \subseteq Releases
  /\ status \in [Ids -> {"none", "draft", "published"} \cup Retirements]
  /\ bound \in [Ids -> Releases \cup {NoRelease}]
  /\ at \in [Ids -> Times]
  /\ content \in [Ids -> Content]
  /\ copy \in [Ids -> SUBSET Locales]
  /\ op \in [Admins -> [kind : Kinds, ann : Ids \cup {0}, content : Content,
                        bound : Releases \cup {NoRelease}, notify : BOOLEAN]]
  /\ torn \subseteq Ids
  /\ \A a \in Ids : at[a] = Never <=> status[a] \in {"none", "draft"}
  /\ \A a \in Ids : bound[a] \in {NoRelease, content[a].cta}

(* publishWhatsNewForRelease and createDraft look for the announcement of a  *)
(* release long before they insert one: however requests overlap, a release  *)
(* has one announcement at most.                                             *)
OneAnnouncementPerRelease ==
  \A a, b \in Ids : bound[a] = bound[b] /\ bound[a] # NoRelease => a = b

(* replaceTranslations deletes before it inserts, and a request may stop in  *)
(* between: what was left without its default locale is never published,     *)
(* unless requests overlapped.                                               *)
PublishedHasCopy ==
  \A a \in Ids \ torn : status[a] = "published" => "vi" \in copy[a]

(* updateDraft is for drafts: what users have seen does not change, unless   *)
(* requests overlapped.                                                      *)
PublishedIsFixed ==
  [][\A a \in Ids \ torn' : status[a] \notin {"none", "draft"} =>
       content'[a] = content[a] /\ copy'[a] = copy[a] /\ bound'[a] = bound[a]]_annVars

Successors(s) == CASE s = "none" -> {"draft"} [] s = "draft" -> {"published"}
                   [] s = "published" -> Retirements [] OTHER -> {}

(* An announcement that was expired or archived does not come back, and its  *)
(* status never goes back, unless requests overlapped.                       *)
StatusGoesForward ==
  [][\A a \in Ids \ torn' : status'[a] \in Successors(status[a]) \cup {status[a]}]_annVars

(* What users are shown has its text, stays what it was, and once withdrawn  *)
(* does not come back, unless requests overlapped.                           *)
PublicIsFinal == []PublishedHasCopy /\ PublishedIsFixed /\ StatusGoesForward
=============================================================================
