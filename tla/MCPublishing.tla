----------------------------- MODULE MCPublishing -----------------------------
(***************************************************************************)
(* What administrators publish, for TLC: the announcements, and the        *)
(* versions of a content entry.  The two services share no state and no    *)
(* process, so that a behaviour of both is one of each, interleaved: which *)
(* of them moves is chosen at the start, in part, and their product is not *)
(* explored.                                                               *)
(***************************************************************************)
EXTENDS Announcements, ContentVersions, TLC

VARIABLE part

(* A form with a button for a release, and one without that is not written   *)
(* in Vietnamese.                                                            *)
Form(r, L) == [cta |-> r, locales |-> L, audience |-> Users, from |-> 0, until |-> 1]
Forms == {Form(r, {"vi"}) : r \in Releases} \cup {Form(NoRelease, {"en"})}
Everybody == [r \in Releases |-> Users]

-----------------------------------------------------------------------------
MCInit ==
  /\ part \in {"announcements", "content"}
  /\ AnnInit
  /\ ContentInit

(* Announcements does not order its ids (only AnnouncementFeed does), so the *)
(* first row may as well have the first id: half of the states are the other *)
(* half with the two ids exchanged.                                          *)
FirstIdFirst == status[2] # "none" => status[1] # "none"

(* A bound: requests overlap on one of the two announcements.                *)
OneIsMixed == torn # {1, 2}

MCNext ==
  \/ part = "announcements" /\ AnnNext /\ FirstIdFirst' /\ OneIsMixed'
     /\ UNCHANGED <<part, contentVars>>
  \/ part = "content" /\ ContentNext /\ UNCHANGED <<part, annVars>>

MCSpec == MCInit /\ [][MCNext]_<<part, annVars, contentVars>>

Symmetry == Permutations(Admins) \cup Permutations(Bodies)
=============================================================================
