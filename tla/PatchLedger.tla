---------------------------- MODULE PatchLedger ----------------------------
(***************************************************************************)
(* What the patcher promises, with no bytes in it: an image carries a set  *)
(* of patches and, once the version tag is among them, one version.  A     *)
(* batch either goes in as a whole or not at all, nothing ever comes out,  *)
(* two presets of one conflict group never meet in one image, and a        *)
(* version that has been tagged stays.                                     *)
(***************************************************************************)
EXTENDS Integers, FiniteSets

CONSTANTS
  PatchId,      \* the patches of the catalogue (PATCH_IDS)
  TagPatch,     \* the one patch that takes a parameter, the version byte
  Version,      \* the version bytes a tag may carry
  Group,        \* conflict_group of every patch
  NoGroup       \* conflict_group = None

VARIABLES
  on,           \* the patches the image carries
  tags          \* the version it is tagged with: no element or one

vars == <<on, tags>>

----------------------------------------------------------------------------

Rivals(p, q) == p # q /\ Group[p] # NoGroup /\ Group[p] = Group[q]

Init == on = {} /\ tags = {}

(***************************************************************************)
(* The batch B is taken as a whole.  A batch that names what the image     *)
(* already carries is taken only when repeat is allowed.                   *)
(***************************************************************************)
CanApply(B, v, repeat) ==
  /\ B # {}
  /\ \A p \in B, q \in B \cup on : ~Rivals(p, q)
  /\ repeat \/ B \cap on = {}
  /\ TagPatch \in B => tags \subseteq {v}

Apply(B, v, repeat) ==
  /\ CanApply(B, v, repeat)
  /\ on' = on \cup B
  /\ tags' = IF TagPatch \in B THEN {v} ELSE tags

Next == \E B \in SUBSET PatchId, v \in Version, repeat \in BOOLEAN :
          Apply(B, v, repeat)

Spec == Init /\ [][Next]_vars

=============================================================================
