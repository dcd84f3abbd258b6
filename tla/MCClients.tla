------------------------------- MODULE MCClients -------------------------------
(***************************************************************************)
(* What desktop clients are given, for TLC: announcements, page by page,   *)
(* and releases.  The two share no state, and which of them moves is       *)
(* chosen at the start, in part: "feed" is AnnouncementFeed, "tickets" and *)
(* "floors" are DesktopUpdates, once with a clock that outlives every      *)
(* ticket and once with releases that can be reached only through one      *)
(* another.                                                                *)
(***************************************************************************)
EXTENDS AnnouncementFeed, DesktopUpdates

VARIABLE part

all == <<part, vars, updateVars>>

-----------------------------------------------------------------------------
(* An announcement that is shown from a later time on, and one that expires. *)
NoAudience == [r \in Releases |-> {}]
Form(from, until) == [cta |-> NoRelease, locales |-> {"vi"}, audience |-> Users,
                      from |-> from, until |-> until]
Scheduled == {Form(1, Never), Form(0, MaxTime)}

(* Releases with and without a floor, a universal one, a prerelease, and one *)
(* of another channel or for another processor.                              *)
Version(v, floor, a) ==
  [version |-> v, pre |-> FALSE, floor |-> floor, architecture |-> a, channel |-> "stable"]

Chain == {Version(2, 0, "x64"), Version(3, 2, "universal"), Version(4, 3, "x64"),
          Version(5, 0, "arm64")}
Mixed == {Version(2, 0, "x64"), [Version(3, 0, "x64") EXCEPT !.pre = TRUE],
          [Version(4, 0, "x64") EXCEPT !.channel = "beta"], Version(5, 2, "universal")}
Releasable == Chain \cup Mixed

Desktop == [c \in Clients |-> [architecture |-> "x64", channel |-> "stable"]]
First == [c \in Clients |-> 1]

-----------------------------------------------------------------------------
MCInit ==
  /\ part \in {"feed", "tickets", "floors"}
  /\ FeedInit
  /\ UpdatesInit

(* Bounds: time matters to tickets, and a chain of releases to floors.       *)
MCNext ==
  \/ part = "feed" /\ FeedNext /\ UNCHANGED <<part, updateVars>>
  \/ part = "tickets" /\ UpdatesNext /\ published' \subseteq Mixed /\ UNCHANGED <<part, vars>>
  \/ part = "floors" /\ UpdatesNext /\ published' \subseteq Chain /\ clock' <= 1
     /\ UNCHANGED <<part, vars>>

(* The fairness of FeedSpec, where the feed moves.                           *)
Walks(u) == part = "feed" /\ Walk(u) /\ UNCHANGED <<part, updateVars>>

MCSpec ==
  /\ MCInit /\ [][MCNext]_all
  /\ \A u \in Users : WF_all(Walks(u)) /\ <>[][~(part = "feed" /\ Fail(u))]_vars
=============================================================================
