----------------------------- MODULE PatchRules -----------------------------
(***************************************************************************)
(* inspect_patch_state and the checks and writes of apply_patches in       *)
(* tools/firmware_patcher.py, over a catalogue given by constants.  A      *)
(* payload is a function from the offsets the model tracks to bytes; a     *)
(* site is the part of a payload a patch expects (orig) and the part it    *)
(* puts there (patched).                                                   *)
(***************************************************************************)
EXTENDS Integers, FiniteSets, FiniteSetsExt, Functions, Sequences

CONSTANTS
  PatchId, TagPatch, Version, Group, NoGroup,   \* as in PatchLedger
  DefaultVersion,   \* DEFAULT_CUSTOM_FW_VERSION
  Blank,            \* a word of the id list that is empty once stripped
  Offset,           \* the payload offsets tracked
  Stock,            \* the vendor image at those offsets
  Guarded,          \* the bytes verify_payload_safety_invariants insists on
  PageSize,         \* PAYLOAD_PAGE_SIZE
  Sites,            \* Sites[p][v]: the sites of build_patch_spec(p, v)
  Request,          \* the calls of apply_patches: [ids, fw_version, allow]
  Decode(_)         \* decode_rv32i_addi_zero_a5 on the bytes of a site

Byte == 0..255
IsPart(f) == DOMAIN f \subseteq Offset /\ f \in [DOMAIN f -> Byte]

Holds(img, part) == \A o \in DOMAIN part : img[o] = part[o]
Span(s) == DOMAIN s.orig
Page(o) == o \div PageSize

\* Every PatchSpec the catalogue can build, and every site in it.
Specs == {[id |-> p, sites |-> Sites[p][v]] : p \in PatchId, v \in Version}
AllSites == UNION {x.sites : x \in Specs}

Overlap(s, t) == Span(s) \cap Span(t) # {}

(***************************************************************************)
(* What the catalogue has to satisfy.  The code states none of this; the   *)
(* runs evaluate it on the real catalogue and the proofs start from it.    *)
(***************************************************************************)
ASSUME CatalogTypes ==
  /\ TagPatch \in PatchId /\ DefaultVersion \in Version
  /\ Blank \notin PatchId
  /\ Version \subseteq Int
  /\ PageSize \in Nat \ {0}
  /\ Offset \subseteq Nat
  /\ Stock \in [Offset -> Byte]
  /\ IsPart(Guarded)
  /\ \A p \in PatchId, v \in Version : Sites[p][v] # {}
  /\ \A s \in AllSites :
       /\ s = [at |-> s.at, orig |-> s.orig, patched |-> s.patched]
       /\ IsPart(s.orig) /\ IsPart(s.patched)
       /\ DOMAIN s.patched = Span(s)
       /\ s.at \in Span(s)

\* A site replaces vendor bytes by other bytes and leaves the guarded ones alone.
ASSUME SitesReplaceStock ==
  /\ Holds(Stock, Guarded)
  /\ \A s \in AllSites :
       /\ Holds(Stock, s.orig)
       /\ s.patched # s.orig
       /\ Span(s) \cap DOMAIN Guarded = {}

\* Sites that meet cover the same bytes, and no two specs share a site.
ASSUME SitesAligned ==
  /\ \A s, t \in AllSites : Overlap(s, t) => Span(s) = Span(t) /\ s.at = t.at
  /\ \A x, y \in Specs : x.sites \cap y.sites # {} => x = y
  /\ \A x \in Specs : \A s, t \in x.sites : Overlap(s, t) => s = t

\* No site crosses a page: page_index looks at its first byte only.
ASSUME SitesInOnePage == \A s \in AllSites : \A o \in Span(s) : Page(o) = Page(s.at)

\* Two patches collide somewhere exactly when they share a conflict group.
ASSUME GroupsCollide ==
  \A x, y \in Specs : x.id # y.id =>
    ((Group[x.id] # NoGroup /\ Group[x.id] = Group[y.id])
       <=> \E s \in x.sites, t \in y.sites : Overlap(s, t))

\* Only the bytes of the tag depend on the version, and Decode reads it back.
ASSUME TagDecodes ==
  /\ Group[TagPatch] = NoGroup
  /\ \A p \in PatchId \ {TagPatch}, v, w \in Version : Sites[p][v] = Sites[p][w]
  /\ \A v, w \in Version : \A s \in Sites[TagPatch][v] :
       /\ Decode(s.patched) = v
       /\ \E t \in Sites[TagPatch][w] : t.orig = s.orig

----------------------------------------------------------------------------

(***************************************************************************)
(* inspect_patch_state.                                                    *)
(***************************************************************************)
Read(img, s) == [o \in Span(s) |-> img[o]]
SiteStock(img, s) == Holds(img, s.orig)
SiteTagged(img, p, s) ==
  p = TagPatch /\ ~SiteStock(img, s) /\ Decode(Read(img, s)) \in Version
SiteApplied(img, p, s) == Holds(img, s.patched) \/ SiteTagged(img, p, s)

SpecSites(p) == Sites[p][DefaultVersion]

Status(img, p) ==
  IF \A s \in SpecSites(p) : SiteStock(img, s) THEN "stock"
  ELSE IF \A s \in SpecSites(p) : SiteApplied(img, p, s) THEN "applied"
  ELSE "modified"

\* applied_patches and detected_fw_version of inspect_firmware_bytes.
AppliedPatches(img) == {p \in PatchId : Status(img, p) = "applied"}
DetectedVersions(img) ==
  {Decode(Read(img, s)) : s \in {t \in SpecSites(TagPatch) : SiteTagged(img, TagPatch, t)}}

(***************************************************************************)
(* The checks of apply_patches.                                            *)
(***************************************************************************)
Enabled(r) == Range(r.ids) \ {Blank}

\* A faulty variant: the sites of the default version, as inspect uses them.
DefaultSitesOf(r) == UNION {SpecSites(p) : p \in Enabled(r)}

SitesOf(r) == UNION {Sites[p][r.fw_version] : p \in Enabled(r)}

\* A faulty variant: the invariants are not insisted on.
Unchecked(img) == TRUE

Safe(img) == Holds(img, Guarded)

SeparateGroups(B) ==
  \A p, q \in B : p # q => Group[p] = NoGroup \/ Group[p] # Group[q]

SeparateBytes(B, v) ==
  \A p, q \in B : \A s \in Sites[p][v], t \in Sites[q][v] :
    Overlap(s, t) => p = q /\ s = t

\* Faulty variants: only the first byte compared; --allow-already-applied taken as
\* leave to overwrite; the flag ignored.
FirstByteReady(img, s, allow) == img[s.at] = s.orig[s.at] \/ allow
ForcedReady(img, s, allow) == SiteStock(img, s) \/ allow
StrictReady(img, s, allow) == SiteStock(img, s)

SiteReady(img, s, allow) == SiteStock(img, s) \/ (allow /\ Holds(img, s.patched))

\* A faulty variant: a write past the end of a site makes the payload grow.
GrowingWrite(img, ss) ==
  [o \in Offset \cup {-1} |-> IF o = -1 THEN 0 ELSE img[o]]

\* payload[...] = site.patched_bytes for every site of the batch
Write(img, ss) ==
  [o \in Offset |-> IF \E s \in ss : o \in Span(s)
                    THEN (CHOOSE s \in ss : o \in Span(s)).patched[o]
                    ELSE img[o]]

WellFormed(r) ==
  /\ Enabled(r) # {}
  /\ Enabled(r) \subseteq PatchId
  /\ r.fw_version \in Version

Accepts(img, r) ==
  /\ Safe(img)
  /\ WellFormed(r)
  /\ SeparateGroups(Enabled(r))
  /\ SeparateBytes(Enabled(r), r.fw_version)
  /\ \A s \in SitesOf(r) : SiteReady(img, s, r.allow)
  /\ Safe(Write(img, SitesOf(r)))

\* The exception that leaves apply_patches: the earliest check that fails.
Failure(img, r) ==
  IF r.ids = <<>> THEN "ValueError"
  ELSE IF ~Safe(img) THEN "PatchVerificationError"
  ELSE IF ~(Enabled(r) \subseteq PatchId) THEN "KeyError"
  ELSE IF ~WellFormed(r) THEN "ValueError"
  ELSE "PatchVerificationError"

(***************************************************************************)
(* compute_page_checksums, up to the bytes that no patch touches.          *)
(***************************************************************************)
\* A faulty variant: a sum of eight bits.
ByteSum(img, pg) ==
  MapThenSumSet(LAMBDA o : img[o], {o \in Offset : Page(o) = pg}) % 256

PageSum(img, pg) ==
  MapThenSumSet(LAMBDA o : img[o], {o \in Offset : Page(o) = pg}) % 65536

\* A faulty variant: the page of an offset of the transport image.
TransportPages(r) == {s.at \div (PageSize + 2) : s \in SitesOf(r)}

ModifiedPages(r) == {Page(s.at) : s \in SitesOf(r)}

ChecksumChanges(old, new, pages) ==
  [pg \in pages |-> <<PageSum(old, pg), PageSum(new, pg)>>]

NoReport(outcome) ==
  [outcome |-> outcome, enabled |-> {}, fw_version |-> {}, modified_pages |-> {},
   changes |-> <<>>]

\* The report of an accepted call that turned the image old into new.
Report(r, old, new) ==
  [outcome |-> "ok",
   enabled |-> Enabled(r),
   fw_version |-> IF TagPatch \in Enabled(r) THEN {r.fw_version} ELSE {},
   modified_pages |-> ModifiedPages(r),
   changes |-> ChecksumChanges(old, new, ModifiedPages(r))]

=============================================================================
