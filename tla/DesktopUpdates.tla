---------------------------- MODULE DesktopUpdates ----------------------------
(***************************************************************************)
(* How installed applications get new releases: through the update API     *)
(* (GET updates/latest, POST updates/download) or through the Squirrel     *)
(* feed (POST squirrel-feed-ticket, GET RELEASES, GET artifact), while     *)
(* releases are published and the user's entitlement comes and goes.       *)
(*                                                                         *)
(* Versions are numbers in the order semver gives them; a release says     *)
(* whether its version is a prerelease.  One product on one platform is    *)
(* modelled, with releases that are complete when published: see           *)
(* ReleaseArtifacts.  An application runs one update at a time.            *)
(***************************************************************************)
EXTENDS Integers, FiniteSets

CONSTANTS
  Catalogue,     \* the releases that may be published
  Clients,       \* installed applications
  Target,        \* architecture and channel of each
  Shipped,       \* the version each was installed with
  DownloadTTL,   \* DESKTOP_RELEASE_DOWNLOAD_TTL_SECONDS
  FeedTTL,       \* SQUIRREL_FEED_TICKET_TTL_SECONDS
  ArtifactTTL,   \* SQUIRREL_ARTIFACT_TICKET_TTL_SECONDS
  LeastTTL,      \* the minute a package's address lives at least
  MaxClock        \* bound on the clock

Architectures == {"x64", "arm64", "universal"}
Channels == {"stable", "beta", "alpha"}

ASSUME UpdatesAssumption ==
  /\ Catalogue \subseteq [version : Nat \ {0}, pre : BOOLEAN, floor : Nat,
                          architecture : Architectures, channel : Channels]
  /\ Target \in [Clients -> [architecture : Architectures, channel : Channels]]
  /\ Shipped \in [Clients -> Nat]
  /\ {DownloadTTL, FeedTTL, ArtifactTTL, LeastTTL} \subseteq Nat \ {0}
  /\ LeastTTL <= ArtifactTTL
  /\ DownloadTTL <= FeedTTL + ArtifactTTL + LeastTTL
  /\ MaxClock \in Nat

VARIABLES
  published,   \* software_releases that are published
  installed,   \* the version each application runs
  flow,        \* the update each application is getting
  entitled,    \* canUseProduct
  lapsed,      \* when it last ended, for the properties
  clock

updateVars == <<published, installed, flow, entitled, lapsed, clock>>

Update(pc, S, until) == [pc |-> pc, release |-> S, expires |-> until]
NoUpdate == Update("idle", {}, 0)

UpdatesInit ==
  /\ published = {}
  /\ installed = Shipped
  /\ flow = [c \in Clients |-> NoUpdate]
  /\ entitled = [c \in Clients |-> TRUE]
  /\ lapsed = [c \in Clients |-> 0]
  /\ clock = 0

-----------------------------------------------------------------------------
(* pickLatestCompatibleRelease and pickLatestPublishedRelease                *)
MatchesChannelPolicy(r) == r.channel = "stable" => ~r.pre
ForTarget(r, t) ==
  /\ r.architecture \in {t.architecture, "universal"}
  /\ r.channel = t.channel
  /\ MatchesChannelPolicy(r)

FloorIsExclusive(v, r) == v > r.floor   \* faulty
MeetsMinimum(v, r) == v >= r.floor
IsNewer(r, v) == r.version > v

Compatible(c, v) == {r \in published :
  ForTarget(r, Target[c]) /\ IsNewer(r, v) /\ MeetsMinimum(v, r)}
FeedReleases(c) == {r \in published : ForTarget(r, Target[c])}
Latest(S) == {r \in S : \A s \in S : s.version <= r.version}

-----------------------------------------------------------------------------
Publish(r) ==
  /\ r \notin published
  /\ published' = published \cup {r}
  /\ UNCHANGED <<installed, flow, entitled, lapsed, clock>>

UpdateGoes(c, f) ==
  /\ flow' = [flow EXCEPT ![c] = f]
  /\ UNCHANGED <<published, installed, entitled, lapsed, clock>>

EverValid(c) == TRUE   \* faulty
Valid(c) == clock < flow[c].expires

(* GET updates/latest, when there is something newer.                        *)
CheckLatest(c) ==
  LET found == Compatible(c, installed[c]) IN
  /\ flow[c].pc = "idle" /\ entitled[c]
  /\ \E r \in Latest(found) : UpdateGoes(c, Update("offer", {r}, 0))

(* POST updates/download: a fresh ticket, and an address of the installer.   *)
AuthorizeDownload(c) ==
  /\ flow[c].pc = "offer" /\ entitled[c]
  /\ flow[c].release \subseteq published
  /\ UpdateGoes(c, Update("address", flow[c].release, clock + DownloadTTL))

(* POST updates/squirrel-feed-ticket                                         *)
FeedTicket(c) ==
  /\ flow[c].pc = "idle" /\ entitled[c]
  /\ UpdateGoes(c, Update("feed", {}, clock + FeedTTL))

(* GET RELEASES: the latest release whatever is installed, with tickets for  *)
(* its packages; Squirrel takes it when it is newer.                         *)
ReadFeed(c) ==
  LET found == FeedReleases(c) IN
  /\ flow[c].pc = "feed" /\ Valid(c)
  /\ \/ found = {} /\ UpdateGoes(c, NoUpdate)
     \/ \E r \in Latest(found) :
          IF IsNewer(r, installed[c])
          THEN UpdateGoes(c, Update("package", {r}, clock + ArtifactTTL))
          ELSE UpdateGoes(c, NoUpdate)

(* GET artifact: an address that lives as long as the ticket, or a minute.   *)
FetchPackage(c) ==
  LET left == flow[c].expires - clock IN
  /\ flow[c].pc = "package" /\ Valid(c)
  /\ UpdateGoes(c, Update("address", flow[c].release,
                     clock + IF left < LeastTTL THEN LeastTTL ELSE left))

(* The object storage serves an address until it expires.                    *)
Download(c) ==
  /\ flow[c].pc = "address" /\ Valid(c)
  /\ UpdateGoes(c, Update("file", flow[c].release, 0))

Install(c) ==
  /\ flow[c].pc = "file"
  /\ \E r \in flow[c].release : installed' = [installed EXCEPT ![c] = r.version]
  /\ flow' = [flow EXCEPT ![c] = NoUpdate]
  /\ UNCHANGED <<published, entitled, lapsed, clock>>

(* A request failed, a ticket expired, or the application was closed.        *)
GiveUp(c) == flow[c].pc # "idle" /\ UpdateGoes(c, NoUpdate)

Lapse(c) ==
  /\ entitled[c]
  /\ entitled' = [entitled EXCEPT ![c] = FALSE]
  /\ lapsed' = [lapsed EXCEPT ![c] = clock]
  /\ UNCHANGED <<published, installed, flow, clock>>

Renew(c) ==
  /\ ~entitled[c]
  /\ entitled' = [entitled EXCEPT ![c] = TRUE]
  /\ UNCHANGED <<published, installed, flow, lapsed, clock>>

ClockTicks ==
  /\ clock < MaxClock
  /\ clock' = clock + 1
  /\ UNCHANGED <<published, installed, flow, entitled, lapsed>>

ByApi(c) == CheckLatest(c) \/ AuthorizeDownload(c) \/ Download(c) \/ Install(c)
ByFeed(c) == FeedTicket(c) \/ ReadFeed(c) \/ FetchPackage(c)

UpdatesNext ==
  \/ \E r \in Catalogue : Publish(r)
  \/ \E c \in Clients : ByApi(c) \/ ByFeed(c) \/ GiveUp(c) \/ Lapse(c) \/ Renew(c)
  \/ ClockTicks

UpdatesSpec == UpdatesInit /\ [][UpdatesNext]_updateVars

-----------------------------------------------------------------------------
(* Every variable has its type, and an update that is under way is one of a  *)
(* published release for that application.                                   *)
UpdatesTypeOK ==
  /\ published \subseteq Catalogue
  /\ installed \in [Clients -> Nat]
  /\ entitled \in [Clients -> BOOLEAN] /\ lapsed \in [Clients -> 0..MaxClock]
  /\ clock \in 0..MaxClock
  /\ \A c \in Clients :
       /\ flow[c].pc \in {"idle", "offer", "feed", "package", "address", "file"}
       /\ flow[c].release \subseteq published
       /\ \A r \in flow[c].release : ForTarget(r, Target[c])

(* Feed tickets and package tickets are not checked against the entitlement  *)
(* again: once it has ended, what is still served is what tickets that were  *)
(* given out before allow, one after the other.                              *)
AccessEndsInTime ==
  [][\A c \in Clients : flow[c].pc = "address" /\ flow'[c].pc = "file" =>
       entitled[c] \/ clock < lapsed[c] + FeedTTL + ArtifactTTL + LeastTTL]_updateVars

(* What can be reached from a version at all, through any releases for the   *)
(* application in any order: the least set that has it and that is closed    *)
(* under updating.                                                           *)
Reachable(c) ==
  LET mine == {r \in published : ForTarget(r, Target[c])}
      Closed(S) == \A v \in S, r \in mine : v < r.version /\ v >= r.floor => r.version \in S
      versions == {r.version : r \in mine}
  IN {v \in versions : \A S \in SUBSET (versions \cup {Shipped[c]}) :
        Shipped[c] \in S /\ Closed(S) => v \in S}

(* Checking always offers the newest release the floor allows, which may     *)
(* skip those in between: an application that is offered nothing more runs   *)
(* the newest release that any chain of updates reaches from the version it  *)
(* was shipped with, or a newer one.                                         *)
NobodyIsStranded ==
  \A c \in Clients : Compatible(c, installed[c]) = {} =>
    \A v \in Reachable(c) : v <= installed[c]
=============================================================================
