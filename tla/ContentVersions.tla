--------------------------- MODULE ContentVersions ---------------------------
(***************************************************************************)
(* The versions of one content entry in one locale: ContentService of      *)
(* packages/catalog, on PostgreSQL and an object store.                    *)
(*                                                                         *)
(* A version's row is in the database, its body is an object whose key is  *)
(* made of the version number; the row holds the checksum of the body, for *)
(* which the body itself stands here.  Uploads happen outside database     *)
(* transactions, so an edit is a read of the row, an upload and a write of *)
(* the row, which other requests may overlap and which may stop half-way.  *)
(* Titles, slugs and other columns are left out.                           *)
(***************************************************************************)
EXTENDS Naturals, FiniteSets

CONSTANTS
  Bodies,        \* what an author may write
  NoBody,        \* no body recorded, or no object stored
  Requests,      \* requests that may be in progress at once
  MaxVersion     \* bound on the version numbers handed out

ASSUME ContentAssumption ==
  /\ NoBody \notin Bodies
  /\ MaxVersion \in Nat \ {0}

Versions == 1..MaxVersion

VARIABLES
  entry,     \* whether the entry's row has been inserted
  version,   \* content_versions.status, "none" before the row exists
  recorded,  \* bodyObjectKey and bodyChecksumSha256
  object,    \* the object stored under the version's key
  editing,   \* what each request is doing
  given,     \* the bodies authors have submitted for each version
  cut,       \* versions an edit of which was overlapped or cut short
  late       \* versions published while a request was writing their body

versionRows == <<version, recorded>>
ghosts == <<given, cut, late>>
contentVars == <<entry, version, recorded, object, editing, given, cut, late>>

Editing(k, v, b) == [kind |-> k, ver |-> v, body |-> b, listed |-> {}]
NotEditing == Editing("idle", 1, NoBody)

ContentInit ==
  /\ entry = FALSE
  /\ version = [v \in Versions |-> "none"]
  /\ recorded = [v \in Versions |-> NoBody]
  /\ object = [v \in Versions |-> NoBody]
  /\ editing = [p \in Requests |-> NotEditing]
  /\ given = [v \in Versions |-> {}]
  /\ cut = {}
  /\ late = {}

Taken == {v \in Versions : version[v] # "none"}
Published == {v \in Versions : version[v] = "PUBLISHED"}

EditGoes(p, k) == editing' = [editing EXCEPT ![p].kind = k]
EditEnds(p) == editing' = [editing EXCEPT ![p] = NotEditing]
Gives(v, b) == given' = [given EXCEPT ![v] = @ \cup {b}]

Writing == {"put", "record", "edit", "save"}
WrittenByOther(p, v) == \E q \in Requests \ {p} : editing[q].ver = v /\ editing[q].kind \in Writing

-----------------------------------------------------------------------------
(* createDraft: a new entry, then the object of version 1, then its row.     *)
CreateEntry(p, b) ==
  /\ ~entry
  /\ editing[p] = NotEditing
  /\ entry' = TRUE
  /\ editing' = [editing EXCEPT ![p] = Editing("firstBody", 1, b)]
  /\ Gives(1, b)
  /\ UNCHANGED <<versionRows, object, cut, late>>

StoreFirstBody(p) ==
  /\ editing[p].kind = "firstBody"
  /\ object' = [object EXCEPT ![1] = editing[p].body]
  /\ EditGoes(p, "firstRow")
  /\ UNCHANGED <<entry, versionRows, ghosts>>

InsertFirstRow(p) ==
  /\ editing[p].kind = "firstRow"
  /\ version' = [version EXCEPT ![1] = "DRAFT"]
  /\ recorded' = [recorded EXCEPT ![1] = editing[p].body]
  /\ EditEnds(p)
  /\ UNCHANGED <<entry, object, ghosts>>

-----------------------------------------------------------------------------
(* createDraftFromPublished: the body of the published version is loaded.    *)
Fork(p) ==
  /\ editing[p] = NotEditing
  /\ \E v \in Published :
       editing' = [editing EXCEPT ![p] = Editing("allocate", v,
                                     IF recorded[v] = NoBody THEN NoBody ELSE object[v])]
  /\ UNCHANGED <<entry, versionRows, object, ghosts>>

NextVersion == Cardinality(Taken) + 1

(* createDraftVersion: the highest number plus one, read before the insert   *)
(* (the numbers in use are always 1..n).                                     *)
Allocate(p) ==
  /\ editing[p].kind = "allocate"
  /\ NextVersion \in Versions
  /\ editing' = [editing EXCEPT ![p] = Editing("insert", NextVersion, editing[p].body)]
  /\ UNCHANGED <<entry, versionRows, object, ghosts>>

AnyNumber(v) == TRUE   \* faulty
NumberIsFree(v) == version[v] = "none"

InsertRow(p) ==
  LET v == editing[p].ver IN
  /\ editing[p].kind = "insert"
  /\ NumberIsFree(v)
  /\ version' = [version EXCEPT ![v] = IF @ = "none" THEN "DRAFT" ELSE @]
  /\ IF version[v] = "none" THEN Gives(v, editing[p].body) ELSE UNCHANGED given
  /\ IF editing[p].body = NoBody THEN EditEnds(p) ELSE EditGoes(p, "put")
  /\ UNCHANGED <<entry, recorded, object, cut, late>>

(* A unique violation: the number is read again.                             *)
NumberTaken(p) ==
  /\ editing[p].kind = "insert"
  /\ ~NumberIsFree(editing[p].ver)
  /\ EditGoes(p, "allocate")
  /\ UNCHANGED <<entry, versionRows, object, ghosts>>

StoreBody(p) ==
  LET v == editing[p].ver IN
  /\ editing[p].kind = "put"
  /\ object' = [object EXCEPT ![v] = editing[p].body]
  /\ EditGoes(p, "record")
  /\ UNCHANGED <<entry, versionRows, ghosts>>

RecordBody(p) ==
  /\ editing[p].kind = "record"
  /\ recorded' = [recorded EXCEPT ![editing[p].ver] = editing[p].body]
  /\ EditEnds(p)
  /\ UNCHANGED <<entry, version, object, ghosts>>

-----------------------------------------------------------------------------
IsDraft(v) == version[v] = "DRAFT"

Cuts(p, v) == cut' = IF WrittenByOther(p, v) THEN cut \cup {v} ELSE cut

(* updateDraft with a new body: the row is read, then the body uploaded.     *)
EditRead(p, v, b) ==
  /\ editing[p] = NotEditing
  /\ IsDraft(v)
  /\ editing' = [editing EXCEPT ![p] = Editing("edit", v, b)]
  /\ Gives(v, b)
  /\ Cuts(p, v)
  /\ UNCHANGED <<entry, versionRows, object, late>>

(* updateDraft with an empty body, or without one: the row gets no body, or  *)
(* the one it had when it was read.                                          *)
EditWithoutBody(p, v) ==
  /\ editing[p] = NotEditing
  /\ IsDraft(v)
  /\ \E b \in {NoBody, recorded[v]} :
       editing' = [editing EXCEPT ![p] = Editing("save", v, b)]
  /\ Cuts(p, v)
  /\ UNCHANGED <<entry, versionRows, object, given, late>>

EditStore(p) ==
  /\ editing[p].kind = "edit"
  /\ object' = [object EXCEPT ![editing[p].ver] = editing[p].body]
  /\ EditGoes(p, "save")
  /\ UNCHANGED <<entry, versionRows, ghosts>>

SavedBody(p) == editing[p].body

(* The row is written by id, whatever its status is by now.                  *)
EditSave(p) ==
  /\ editing[p].kind = "save"
  /\ recorded' = [recorded EXCEPT ![editing[p].ver] = SavedBody(p)]
  /\ EditEnds(p)
  /\ UNCHANGED <<entry, version, object, ghosts>>

-----------------------------------------------------------------------------
(* publish, in a transaction: the draft, the versions to archive, and both   *)
(* updates, which become visible together.                                   *)
PublishFind(p, v) ==
  /\ editing[p] = NotEditing
  /\ version[v] = "DRAFT"
  /\ editing' = [editing EXCEPT ![p] = Editing("publish", v, NoBody)]
  /\ UNCHANGED <<entry, versionRows, object, ghosts>>

PublishArchive(p) ==
  /\ editing[p].kind = "publish"
  /\ editing' = [editing EXCEPT ![p] =
       [kind |-> "publishing", ver |-> editing[p].ver, body |-> NoBody, listed |-> Published]]
  /\ UNCHANGED <<entry, versionRows, object, ghosts>>

(* The unique index content_versions_one_published_per_locale.               *)
OnlyOne(p) == Published \subseteq editing[p].listed \cup {editing[p].ver}

IfStillDraft(p, v) ==   \* faulty
  IF v = editing[p].ver /\ version[v] = "DRAFT" THEN "PUBLISHED"
  ELSE IF v \in editing[p].listed /\ version[v] = "PUBLISHED" THEN "ARCHIVED" ELSE version[v]
StatusAfterPublish(p, v) ==
  IF v = editing[p].ver THEN "PUBLISHED"
  ELSE IF v \in editing[p].listed /\ version[v] = "PUBLISHED" THEN "ARCHIVED" ELSE version[v]

PublishCommit(p) ==
  LET v == editing[p].ver IN
  /\ editing[p].kind = "publishing"
  /\ OnlyOne(p)
  /\ version' = [u \in Versions |-> StatusAfterPublish(p, u)]
  /\ late' = IF WrittenByOther(p, v) THEN late \cup {v} ELSE late
  /\ EditEnds(p)
  /\ UNCHANGED <<entry, recorded, object, given, cut>>

(* archive: a version in any status, by id.                                  *)
Archive(v) ==
  /\ version[v] # "none"
  /\ version' = [version EXCEPT ![v] = "ARCHIVED"]
  /\ UNCHANGED <<entry, recorded, object, editing, ghosts>>

-----------------------------------------------------------------------------
(* The row of a new version cannot be written: its object is deleted.        *)
Compensate(p) ==
  /\ editing[p].kind \in {"firstRow", "record"}
  /\ object' = [object EXCEPT ![editing[p].ver] = NoBody]
  /\ EditEnds(p)
  /\ UNCHANGED <<entry, versionRows, ghosts>>

(* A call to the database or to the store fails, or the process stops.       *)
EditStops(p) ==
  /\ editing[p] # NotEditing
  /\ EditEnds(p)
  /\ cut' = IF editing[p].kind = "save" THEN cut \cup {editing[p].ver} ELSE cut
  /\ UNCHANGED <<entry, versionRows, object, given, late>>

Create(p) ==
  \/ \E b \in Bodies \cup {NoBody} : CreateEntry(p, b)
  \/ StoreFirstBody(p) \/ InsertFirstRow(p)
  \/ Fork(p) \/ Allocate(p) \/ InsertRow(p) \/ NumberTaken(p)
  \/ StoreBody(p) \/ RecordBody(p)

Edit(p) ==
  \/ \E v \in Versions, b \in Bodies : EditRead(p, v, b)
  \/ \E v \in Versions : EditWithoutBody(p, v)
  \/ EditStore(p) \/ EditSave(p)

Publish(p) ==
  \/ \E v \in Versions : PublishFind(p, v)
  \/ PublishArchive(p) \/ PublishCommit(p)

ContentNext ==
  \/ \E p \in Requests : Create(p) \/ Edit(p) \/ Publish(p) \/ Compensate(p) \/ EditStops(p)
  \/ \E v \in Versions : Archive(v)

ContentSpec == ContentInit /\ [][ContentNext]_contentVars

-----------------------------------------------------------------------------
EditKinds == {"idle", "firstBody", "firstRow", "allocate", "insert", "publish", "publishing"}
               \cup Writing

(* Every variable has its type, version numbers are handed out without gaps, *)
(* and at most one version is published (publish commits both updates or     *)
(* neither).                                                                 *)
ContentTypeOK ==
  /\ entry \in BOOLEAN
  /\ version \in [Versions -> {"none", "DRAFT", "PUBLISHED", "ARCHIVED"}]
  /\ recorded \in [Versions -> Bodies \cup {NoBody}]
  /\ object \in [Versions -> Bodies \cup {NoBody}]
  /\ editing \in [Requests -> [kind : EditKinds, ver : Versions, body : Bodies \cup {NoBody},
                               listed : SUBSET Versions]]
  /\ given \in [Versions -> SUBSET (Bodies \cup {NoBody})]
  /\ cut \subseteq Versions /\ late \subseteq Versions
  /\ \A v \in Taken : 1..v \subseteq Taken
  /\ Cardinality(Published) <= 1

(* createDraftVersion: of several requests that read the same highest number *)
(* one gets it, and what is stored and recorded for a version was submitted  *)
(* for that version: a fork never overwrites the body of another version.    *)
BodyOfItsVersion ==
  \A v \in Versions : {object[v], recorded[v]} \subseteq given[v] \cup {NoBody}

(* updateDraft, createDraft and createDraftVersion upload before they write  *)
(* the row, and clean up after a failure: unless an edit was overlapped by   *)
(* another or cut short, the recorded body is the one that is stored.        *)
RecordedIsStored ==
  \A v \in Versions \ cut :
     \/ recorded[v] \in {NoBody, object[v]}
     \/ \E p \in Requests : editing[p].ver = v /\ editing[p].kind = "save"

(* However forks, edits and publications overlap, version numbers have no    *)
(* gaps, one version is published at most, and each keeps its own body.      *)
VersionsKeepTheirBodies == ContentTypeOK /\ BodyOfItsVersion /\ RecordedIsStored

(* publish archives what was published and publishes in one transaction: the *)
(* public page of an entry only disappears when its version is archived.     *)
ReadersKeepAPage ==
  [][Published # {} /\ Published' = {} => \E v \in Versions : Archive(v)]_contentVars

(* updateDraft checks the status only when it reads the row: the body of a   *)
(* published version changes only under a request that began while it was a  *)
(* draft.                                                                    *)
PublishedBodyIsKept ==
  [][\A v \in Published : object'[v] # object[v] => v \in late]_contentVars

(* What readers see neither disappears nor changes behind their back.        *)
PublicPageIsKept == ReadersKeepAPage /\ PublishedBodyIsKept
=============================================================================
