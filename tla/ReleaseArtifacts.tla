--------------------------- MODULE ReleaseArtifacts ---------------------------
(***************************************************************************)
(* What one release of a product is made of while it is a draft and after  *)
(* it is published: ReleaseService.addArtifact and publish, and the media  *)
(* rows that MediaService registers for uploaded objects and deletes when  *)
(* nothing refers to them.                                                 *)
(*                                                                         *)
(* Only the publication is a transaction: the other requests go statement  *)
(* by statement, overlap, and may die anywhere.  An object is an uploaded  *)
(* file with the kind its signed manifest gives it; signatures, checksums  *)
(* and release notes are right in the model.                               *)
(***************************************************************************)
EXTENDS Naturals, FiniteSets

CONSTANTS
  Objects,    \* uploaded objects
  KindOf,     \* the kind of artifact each is
  Main,       \* the object the release was created with
  Required,   \* requiredArtifactKinds of its platform
  Packers     \* requests of administrators that may be in progress at once

Singletons == {"installer", "full-nupkg", "releases-index"}
ArtifactKinds == Singletons \cup {"delta-nupkg"}

ASSUME ArtifactsAssumption ==
  /\ KindOf \in [Objects -> ArtifactKinds]
  /\ Main \in Objects /\ KindOf[Main] = "installer"
  /\ Required \subseteq ArtifactKinds

VARIABLES
  release,    \* software_releases.status
  context,    \* context of the media_assets row of each object, "none" without a row
  artifacts,  \* objects with a row in release_artifacts
  working,    \* what each request is doing
  verified,   \* history: what the readiness that allowed the publication has verified
  missed      \* history: what was on its way or missed by it

artifactVars == <<release, context, artifacts, working, verified, missed>>

NoWork == [pc |-> "idle", object |-> Main, seen |-> {}]

(* createDraft attaches the installer last.                                  *)
ArtifactsInit ==
  /\ release = "draft"
  /\ context = [o \in Objects |-> IF o = Main THEN "release" ELSE "none"]
  /\ artifacts \in {{}, {Main}}
  /\ working = [p \in Packers |-> NoWork]
  /\ verified = {} /\ missed = {}

WorkBegins(p, k, o, s) ==
  /\ working[p] = NoWork
  /\ working' = [working EXCEPT ![p] = [pc |-> k, object |-> o, seen |-> s]]
WorkGoes(p, k) == working' = [working EXCEPT ![p].pc = k]
WorkEnds(p) == working' = [working EXCEPT ![p] = NoWork]

-----------------------------------------------------------------------------
AnyRelease == TRUE   \* faulty
MayAdd == release = "draft"

AddCheck(p, o) ==
  /\ MayAdd
  /\ WorkBegins(p, "media", o, {})
  /\ UNCHANGED <<release, context, artifacts, verified, missed>>

(* completeUpload: an object key has one row.                                *)
AddMedia(p) ==
  LET o == working[p].object IN
  /\ working[p].pc = "media"
  /\ \/ context[o] # "none" /\ WorkEnds(p) /\ UNCHANGED context
     \/ /\ context[o] = "none"
        /\ context' = [context EXCEPT ![o] = "product"]
        /\ WorkGoes(p, "row")
  /\ UNCHANGED <<release, artifacts, verified, missed>>

KindTaken(o) == \E a \in artifacts : KindOf[a] = KindOf[o] /\ KindOf[o] \in Singletons

AddRow(p) ==
  LET o == working[p].object IN
  /\ working[p].pc = "row"
  /\ \/ KindTaken(o) /\ WorkEnds(p) /\ UNCHANGED artifacts
     \/ ~KindTaken(o) /\ artifacts' = artifacts \cup {o} /\ WorkGoes(p, "context")
  /\ UNCHANGED <<release, context, verified, missed>>

AddContext(p) ==
  /\ working[p].pc = "context"
  /\ context' = [context EXCEPT ![working[p].object] = "release"]
  /\ WorkEnds(p)
  /\ UNCHANGED <<release, artifacts, verified, missed>>

-----------------------------------------------------------------------------
HasRequired(S) == \A k \in Required : \E a \in S : KindOf[a] = k

(* publish: the artifacts are listed and verified one after the other ...    *)
ReleaseCheck(p) ==
  /\ release = "draft"
  /\ HasRequired(artifacts)
  /\ WorkBegins(p, "publish", Main, artifacts)
  /\ UNCHANGED <<release, context, artifacts, verified, missed>>

OnItsWay == {working[q].object : q \in {r \in Packers : working[r].pc \in {"media", "row"}}}

(* ... and then, if it is still a draft, the release is published.           *)
ReleaseWrite(p) ==
  /\ working[p].pc = "publish"
  /\ \/ /\ release = "draft"
        /\ release' = "published"
        /\ verified' = working[p].seen
        /\ missed' = (artifacts \ working[p].seen) \cup OnItsWay
     \/ release = "published" /\ UNCHANGED <<release, verified, missed>>
  /\ WorkEnds(p)
  /\ UNCHANGED <<context, artifacts>>

-----------------------------------------------------------------------------
(* getReferenceCounts knows icons and releases, not artifacts.               *)
Counted(o) == o = Main
DeleteCheck(p, o) ==
  /\ context[o] # "none" /\ ~Counted(o)
  /\ WorkBegins(p, "delete", o, {})
  /\ UNCHANGED <<release, context, artifacts, verified, missed>>

StillUsed(o) == o \in artifacts

(* A row that goes takes with it the requests that hold its id: their next   *)
(* statement finds nothing, or breaks the foreign key.                       *)
DeleteMediaRow(p) ==
  LET o == working[p].object
      Holds(q) == working[q].object = o /\ working[q].pc \in {"row", "delete"}
  IN
  /\ working[p].pc = "delete"
  /\ \/ StillUsed(o) /\ WorkEnds(p) /\ UNCHANGED context
     \/ /\ ~StillUsed(o)
        /\ context' = [context EXCEPT ![o] = "none"]
        /\ working' = [q \in Packers |-> IF Holds(q) THEN NoWork ELSE working[q]]
  /\ UNCHANGED <<release, artifacts, verified, missed>>

WorkStops(p) ==
  /\ working[p] # NoWork
  /\ WorkEnds(p)
  /\ UNCHANGED <<release, context, artifacts, verified, missed>>

Add(p) == (\E o \in Objects : AddCheck(p, o)) \/ AddMedia(p) \/ AddRow(p) \/ AddContext(p)
PublishRelease(p) == ReleaseCheck(p) \/ ReleaseWrite(p)
DeleteMedia(p) == (\E o \in Objects : DeleteCheck(p, o)) \/ DeleteMediaRow(p)

ArtifactsNext == \E p \in Packers : Add(p) \/ PublishRelease(p) \/ DeleteMedia(p) \/ WorkStops(p)

ArtifactsSpec == ArtifactsInit /\ [][ArtifactsNext]_artifactVars

-----------------------------------------------------------------------------
(* Every variable has its type, and of each kind but deltas the release has  *)
(* at most one artifact, however many requests add one.                      *)
ArtifactsTypeOK ==
  /\ release \in {"draft", "published"}
  /\ context \in [Objects -> {"none", "product", "release"}]
  /\ working \in [Packers -> [pc : {"idle", "media", "row", "context", "publish", "delete"},
                              object : Objects, seen : SUBSET Objects]]
  /\ verified \subseteq Objects /\ missed \subseteq Objects /\ artifacts \subseteq Objects
  /\ \A k \in Singletons : Cardinality({a \in artifacts : KindOf[a] = k}) <= 1

(* A published release has every kind its platform needs, and each artifact  *)
(* has the media row it is downloaded through, although deletion of media    *)
(* does not look for artifacts and readiness is read before the publication. *)
PublishedIsComplete ==
  release = "published" =>
    HasRequired({a \in artifacts : context[a] # "none"}) /\ \A a \in artifacts : context[a] # "none"

(* What a published release is made of is what the readiness check verified; *)
(* only an artifact whose own check came before the publication may still    *)
(* join it, unseen.                                                          *)
PublishedWasVerified ==
  release = "published" => verified \subseteq artifacts /\ artifacts \subseteq verified \cup missed

(* A published release is complete, of one piece, and what was verified.     *)
PublishedIsSound == ArtifactsTypeOK /\ PublishedIsComplete /\ PublishedWasVerified
=============================================================================
