----------------------------- MODULE Relations -----------------------------
(***************************************************************************)
(* Blocks, mutes and the visibility tiers as the social reads apply them.  *)
(* A relation is a set of pairs <<user, target>>; a viewer is a user or    *)
(* Anonymous.                                                              *)
(***************************************************************************)
Anonymous == "anonymous"
NoOne     == "no one"

(* IsBlockedEither *)
IsBlockedEither(blocks, u, v) == <<u, v>> \in blocks \/ <<v, u>> \in blocks

(* HasSocialRelationship with kind 1: owner has muted actor. *)
mutedBy(mutes, owner, actor) == <<owner, actor>> \in mutes

(* The filter of every list of comments, posts and reviews: rows without an
   author stay, a signed-in viewer sees nobody blocked either way or muted. *)
Shown(blocks, mutes, viewer, author) ==
  viewer = Anonymous \/ author = NoOne
    \/ ~(IsBlockedEither(blocks, viewer, author) \/ mutedBy(mutes, viewer, author))

(* visibilityToStored: an unknown tier is private. *)
Tier == {"private", "public", "followers"}
visibilityToStored(wire) == IF wire \in {"public", "followers"} THEN wire ELSE "private"
=============================================================================
