--------------------------- MODULE PatcherProofs ---------------------------
(***************************************************************************)
(* inspect and the checks of apply_patches, for every catalogue that       *)
(* satisfies the assumptions of PatchRules, and with them what the runs of *)
(* Patcher check on two catalogues.  Everything follows from one fact      *)
(* about an accepted call, OnAfter: the sites that are in their patched    *)
(* state afterwards are those that were before and those of the batch.     *)
(***************************************************************************)
EXTENDS Patcher, TLAPS

SiteOn(img, s) == Holds(img, s.patched)

\* A byte differs from the vendor's only under a site in its patched state.
Explained(img) ==
  \A o \in Offset : img[o] # Stock[o] =>
    \E s \in AllSites : o \in Span(s) /\ SiteOn(img, s)

\* A spec has all of its sites in the patched state, or none.
Whole(img) ==
  \A x \in Specs : (\E s \in x.sites : SiteOn(img, s)) => \A s \in x.sites : SiteOn(img, s)

\* The inductive invariant.
Sound(img) == img \in [Offset -> Byte] /\ Explained(img) /\ Whole(img)

----------------------------------------------------------------------------

\* The sites of a spec are sites of the catalogue, with equal shapes before and after.
LEMMA SiteFacts ==
  ASSUME NEW s \in AllSites
  PROVE  /\ s = [at |-> s.at, orig |-> s.orig, patched |-> s.patched]
         /\ Span(s) \subseteq Offset /\ Span(s) # {}
         /\ s.orig \in [Span(s) -> Byte] /\ s.patched \in [Span(s) -> Byte]
         /\ DOMAIN s.patched = Span(s) /\ DOMAIN s.orig = Span(s)
         /\ Holds(Stock, s.orig) /\ s.patched # s.orig
         /\ s.at \in Span(s)
<1>1. s = [at |-> s.at, orig |-> s.orig, patched |-> s.patched]
  BY CatalogTypes
<1>2. IsPart(s.orig) /\ IsPart(s.patched) /\ DOMAIN s.patched = Span(s) /\ s.at \in Span(s)
  BY CatalogTypes
<1>3. Holds(Stock, s.orig) /\ s.patched # s.orig
  BY SitesReplaceStock
<1> QED
  BY <1>1, <1>2, <1>3 DEF IsPart, Span

LEMMA SpecFacts ==
  ASSUME NEW p \in PatchId, NEW v \in Version
  PROVE  /\ [id |-> p, sites |-> Sites[p][v]] \in Specs
         /\ Sites[p][v] \subseteq AllSites
         /\ Sites[p][v] # {}
BY CatalogTypes DEF Specs, AllSites

\* A site is known by its span and its patched bytes.
LEMMA SameSite ==
  ASSUME NEW s \in AllSites, NEW t \in AllSites, Overlap(s, t), s.patched = t.patched
  PROVE  s = t
<1>1. Span(s) = Span(t) /\ s.at = t.at
  BY SitesAligned
<1>2. s.orig = t.orig
  <2>1. \A o \in Span(s) : s.orig[o] = Stock[o] /\ t.orig[o] = Stock[o]
    BY <1>1, SiteFacts DEF Holds
  <2> QED
    BY <1>1, <2>1, SiteFacts
<1> QED
  BY <1>1, <1>2, SiteFacts

\* Two sites that meet are not both in the patched state.
LEMMA OnExclusive ==
  ASSUME NEW img, NEW s \in AllSites, NEW t \in AllSites,
         Overlap(s, t), SiteOn(img, s), SiteOn(img, t)
  PROVE  s = t
<1>1. Span(s) = Span(t)
  BY SitesAligned
<1>2. \A o \in Span(s) : s.patched[o] = t.patched[o]
  BY <1>1, SiteFacts DEF SiteOn, Holds
<1>3. s.patched = t.patched
  BY <1>1, <1>2, SiteFacts
<1> QED
  BY <1>3, SameSite

\* The vendor's bytes under one site are the vendor's bytes under any that meets it,
\* and a site is not in both states.
LEMMA StockNotOn ==
  ASSUME NEW img, NEW s \in AllSites, NEW t \in AllSites,
         Overlap(s, t), SiteStock(img, s)
  PROVE  ~SiteOn(img, t)
<1>1. Span(s) = Span(t)
  BY SitesAligned
<1>2. \A o \in Span(t) : img[o] = t.orig[o]
  BY <1>1, SiteFacts DEF SiteStock, Holds
<1>3. SUFFICES ASSUME SiteOn(img, t) PROVE FALSE
  OBVIOUS
<1>4. \A o \in Span(t) : t.patched[o] = t.orig[o]
  BY <1>2, <1>3, SiteFacts DEF SiteOn, Holds
<1>5. t.patched = t.orig
  BY <1>4, SiteFacts
<1> QED
  BY <1>5, SiteFacts

LEMMA SelfOverlap ==
  ASSUME NEW s \in AllSites
  PROVE  Overlap(s, s)
BY SiteFacts DEF Overlap

\* Under the invariant a site without its vendor bytes lies under a patched one.
LEMMA StockOrOn ==
  ASSUME NEW img, Sound(img), NEW s \in AllSites, ~SiteStock(img, s)
  PROVE  \E t \in AllSites : Overlap(s, t) /\ SiteOn(img, t)
<1>1. PICK o \in Span(s) : img[o] # s.orig[o]
  BY SiteFacts DEF SiteStock, Holds
<1>2. o \in Offset /\ img[o] # Stock[o]
  BY <1>1, SiteFacts DEF Holds
<1>3. PICK t \in AllSites : o \in Span(t) /\ SiteOn(img, t)
  BY <1>2 DEF Sound, Explained
<1> QED
  BY <1>1, <1>3 DEF Overlap

----------------------------------------------------------------------------

\* The write: it reaches every byte of its sites and no other byte.
LEMMA WriteEffect ==
  ASSUME NEW img \in [Offset -> Byte], NEW ss \in SUBSET AllSites,
         \A s, t \in ss : Overlap(s, t) => s = t
  PROVE  /\ Write(img, ss) \in [Offset -> Byte]
         /\ \A s \in ss : SiteOn(Write(img, ss), s)
         /\ \A o \in Offset : (\A s \in ss : o \notin Span(s)) => Write(img, ss)[o] = img[o]
<1>1. \A s \in ss : \A o \in Span(s) :
        o \in Offset /\ Write(img, ss)[o] = s.patched[o] /\ s.patched[o] \in Byte
  <2> SUFFICES ASSUME NEW s \in ss, NEW o \in Span(s)
               PROVE  o \in Offset /\ Write(img, ss)[o] = s.patched[o] /\ s.patched[o] \in Byte
    OBVIOUS
  <2>1. o \in Offset /\ s.patched[o] \in Byte
    BY SiteFacts
  <2> DEFINE c == CHOOSE t \in ss : o \in Span(t)
  <2>2. c \in ss /\ o \in Span(c)
    OBVIOUS
  <2>3. c = s
    BY <2>2 DEF Overlap
  <2> QED
    BY <2>1, <2>3 DEF Write
<1>2. \A o \in Offset : (\A s \in ss : o \notin Span(s)) => Write(img, ss)[o] = img[o]
  BY DEF Write
<1>3. Write(img, ss) \in [Offset -> Byte]
  <2>1. \A o \in Offset : Write(img, ss)[o] \in Byte
    BY <1>1, <1>2
  <2> QED
    BY <2>1 DEF Write
<1> QED
  BY <1>1, <1>2, <1>3, SiteFacts DEF SiteOn, Holds

\* What an accepted call knows of its sites.
LEMMA BatchFacts ==
  ASSUME NEW img, NEW r, Accepts(img, r)
  PROVE  /\ Enabled(r) # {} /\ Enabled(r) \subseteq PatchId /\ r.fw_version \in Version
         /\ SitesOf(r) \subseteq AllSites
         /\ \A s, t \in SitesOf(r) : Overlap(s, t) => s = t
         /\ \A s \in SitesOf(r) : SiteReady(img, s, r.allow)
<1>1. Enabled(r) # {} /\ Enabled(r) \subseteq PatchId /\ r.fw_version \in Version
  BY DEF Accepts, WellFormed
<1>2. SitesOf(r) \subseteq AllSites
  BY <1>1, SpecFacts DEF SitesOf
<1>3. \A s, t \in SitesOf(r) : Overlap(s, t) => s = t
  BY <1>1 DEF Accepts, SeparateBytes, SitesOf
<1> QED
  BY <1>1, <1>2, <1>3 DEF Accepts

\* A site of the batch never lies over another site in its patched state: the
\* verification of sites finds it neither stock nor as the batch would leave it.
LEMMA BatchMeetsOn ==
  ASSUME NEW img, NEW r, Accepts(img, r),
         NEW s \in SitesOf(r), NEW t \in AllSites, Overlap(s, t), SiteOn(img, t)
  PROVE  s = t
<1>1. s \in AllSites /\ SiteReady(img, s, r.allow)
  BY BatchFacts
<1>2. ~SiteStock(img, s)
  BY <1>1, StockNotOn
<1>3. SiteOn(img, s)
  BY <1>1, <1>2 DEF SiteReady, SiteOn
<1> QED
  BY <1>1, <1>3, OnExclusive

\* After an accepted call a site is in its patched state exactly when it was, or
\* belongs to the batch.
LEMMA OnAfter ==
  ASSUME NEW img \in [Offset -> Byte], NEW r, Accepts(img, r), NEW t \in AllSites
  PROVE  SiteOn(Write(img, SitesOf(r)), t) <=> t \in SitesOf(r) \/ SiteOn(img, t)
<1> DEFINE ss == SitesOf(r)
           new == Write(img, ss)
<1> HIDE DEF ss, new
<1>1. ss \subseteq AllSites /\ \A s, u \in ss : Overlap(s, u) => s = u
  BY BatchFacts DEF ss
<1>2. /\ \A s \in ss : SiteOn(new, s)
      /\ \A o \in Offset : (\A s \in ss : o \notin Span(s)) => new[o] = img[o]
  BY <1>1, WriteEffect DEF new
<1>3. CASE \E s \in ss : Overlap(s, t)
  <2>1. PICK s \in ss : Overlap(s, t)
    BY <1>3
  <2>2. SiteOn(new, t) => t \in ss
    BY <2>1, <1>1, <1>2, OnExclusive
  <2>3. SiteOn(img, t) => t \in ss
    BY <2>1, BatchMeetsOn DEF ss
  <2> QED
    BY <1>2, <2>2, <2>3 DEF new, ss
<1>4. CASE \A s \in ss : ~Overlap(s, t)
  <2>1. \A o \in Span(t) : new[o] = img[o]
    BY <1>1, <1>2, <1>4, SiteFacts DEF Overlap
  <2>2. SiteOn(new, t) <=> SiteOn(img, t)
    BY <2>1, SiteFacts DEF SiteOn, Holds
  <2>3. t \notin ss
    BY <1>4, SelfOverlap
  <2> QED
    BY <2>2, <2>3 DEF new, ss
<1> QED
  BY <1>3, <1>4

\* A site of a spec that the batch writes: the whole spec is in the batch.
LEMMA BatchSpec ==
  ASSUME NEW r, Enabled(r) \subseteq PatchId, r.fw_version \in Version,
         NEW x \in Specs, NEW s \in x.sites, s \in SitesOf(r)
  PROVE  x.id \in Enabled(r) /\ x.sites = Sites[x.id][r.fw_version] /\ x.sites \subseteq SitesOf(r)
<1>1. PICK p \in Enabled(r) : s \in Sites[p][r.fw_version]
  BY DEF SitesOf
<1>2. [id |-> p, sites |-> Sites[p][r.fw_version]] \in Specs
  BY SpecFacts
<1>3. x = [id |-> p, sites |-> Sites[p][r.fw_version]]
  BY <1>1, <1>2, SitesAligned
<1> QED
  BY <1>1, <1>3 DEF SitesOf

LEMMA SpecSitesInCatalog ==
  ASSUME NEW x \in Specs
  PROVE  x.sites \subseteq AllSites /\ x.sites # {} /\ x.id \in PatchId
BY CatalogTypes DEF Specs, AllSites

\* The invariant survives an accepted call.
LEMMA AcceptKeepsSound ==
  ASSUME NEW img, NEW r, Sound(img), Accepts(img, r)
  PROVE  Sound(Write(img, SitesOf(r)))
<1> DEFINE ss == SitesOf(r)
           new == Write(img, ss)
<1> HIDE DEF ss, new
<1>1. img \in [Offset -> Byte] /\ ss \subseteq AllSites
  BY BatchFacts DEF Sound, ss
<1>2. /\ new \in [Offset -> Byte]
      /\ \A o \in Offset : (\A s \in ss : o \notin Span(s)) => new[o] = img[o]
  BY <1>1, BatchFacts, WriteEffect DEF new, ss
<1>3. \A t \in AllSites : SiteOn(new, t) <=> t \in ss \/ SiteOn(img, t)
  BY <1>1, OnAfter DEF new, ss
<1>4. Explained(new)
  <2> SUFFICES ASSUME NEW o \in Offset, new[o] # Stock[o]
               PROVE  \E s \in AllSites : o \in Span(s) /\ SiteOn(new, s)
    BY DEF Explained
  <2>1. CASE \E s \in ss : o \in Span(s)
    BY <2>1, <1>1, <1>3
  <2>2. CASE \A s \in ss : o \notin Span(s)
    <3>1. img[o] # Stock[o]
      BY <2>2, <1>2
    <3> QED
      BY <3>1, <1>3 DEF Sound, Explained
  <2> QED
    BY <2>1, <2>2
<1>5. Whole(new)
  <2> SUFFICES ASSUME NEW x \in Specs, NEW s \in x.sites, SiteOn(new, s), NEW t \in x.sites
               PROVE  SiteOn(new, t)
    BY DEF Whole
  <2>1. s \in AllSites /\ t \in AllSites
    BY SpecSitesInCatalog
  <2>2. CASE s \in ss
    <3>1. t \in ss
      BY <2>2, BatchFacts, BatchSpec DEF ss
    <3> QED
      BY <2>1, <3>1, <1>3
  <2>3. CASE SiteOn(img, s)
    <3>1. SiteOn(img, t)
      BY <2>3 DEF Sound, Whole
    <3> QED
      BY <2>1, <3>1, <1>3
  <2> QED
    BY <2>1, <2>2, <2>3, <1>3
<1> QED
  BY <1>2, <1>4, <1>5 DEF Sound, new, ss

----------------------------------------------------------------------------

\* The version tag: one shape of site, and the version can be read off it.
LEMMA TagSite ==
  ASSUME NEW v \in Version, NEW w \in Version, NEW s \in Sites[TagPatch][v]
  PROVE  /\ s \in AllSites /\ Decode(s.patched) = v
         /\ \E t \in Sites[TagPatch][w] :
              t \in AllSites /\ t.orig = s.orig /\ Overlap(s, t)
<1>1. s \in AllSites /\ Decode(s.patched) = v
  BY SpecFacts, CatalogTypes, TagDecodes
<1>2. PICK t \in Sites[TagPatch][w] : t.orig = s.orig
  BY TagDecodes
<1>3. t \in AllSites
  BY SpecFacts, CatalogTypes
<1>4. Overlap(s, t)
  BY <1>1, <1>2, <1>3, SiteFacts DEF Overlap, Span
<1> QED
  BY <1>1, <1>2, <1>3, <1>4

\* A site of any patch has, for any other version, a site of the same stock bytes.
LEMMA SameShape ==
  ASSUME NEW p \in PatchId, NEW v \in Version, NEW w \in Version, NEW s \in Sites[p][v]
  PROVE  \E t \in Sites[p][w] : t \in AllSites /\ t.orig = s.orig /\ Overlap(s, t)
<1>1. CASE p = TagPatch
  BY <1>1, TagSite
<1>2. CASE p # TagPatch
  <2>1. s \in Sites[p][w] /\ s \in AllSites
    BY <1>2, TagDecodes, SpecFacts
  <2> QED
    BY <2>1, SelfOverlap
<1> QED
  BY <1>1, <1>2

\* Two versions of one tag do not share a site.
LEMMA TagVersionsDiffer ==
  ASSUME NEW v \in Version, NEW w \in Version,
         NEW s \in Sites[TagPatch][v], s \in Sites[TagPatch][w]
  PROVE  v = w
BY TagDecodes

\* What is read at a site in its patched state is its patched bytes.
LEMMA ReadOn ==
  ASSUME NEW img, NEW s \in AllSites, NEW t \in AllSites, Span(s) = Span(t), SiteOn(img, t)
  PROVE  Read(img, s) = t.patched
BY SiteFacts DEF Read, SiteOn, Holds

\* A tag site that inspect reads as a version is in the patched state of that version.
LEMMA TaggedIsOn ==
  ASSUME NEW img, Sound(img), NEW s \in SpecSites(TagPatch), SiteTagged(img, TagPatch, s)
  PROVE  /\ Decode(Read(img, s)) \in Version
         /\ \A t \in Sites[TagPatch][Decode(Read(img, s))] : SiteOn(img, t)
<1> DEFINE v == Decode(Read(img, s))
<1>1. s \in AllSites /\ ~SiteStock(img, s) /\ v \in Version
  BY SpecFacts, CatalogTypes DEF SpecSites, SiteTagged
<1>2. PICK t \in AllSites : Overlap(s, t) /\ SiteOn(img, t)
  BY <1>1, StockOrOn
<1>3. PICK x \in Specs : t \in x.sites
  BY DEF AllSites
<1>4. [id |-> TagPatch, sites |-> Sites[TagPatch][DefaultVersion]] \in Specs
  BY SpecFacts, CatalogTypes
<1>5. x.id = TagPatch
  BY <1>2, <1>3, <1>4, GroupsCollide, TagDecodes DEF SpecSites, Overlap
<1>6. PICK w \in Version : x.sites = Sites[TagPatch][w]
  BY <1>5 DEF Specs
<1>7. Read(img, s) = t.patched
  BY <1>1, <1>2, ReadOn, SitesAligned
<1>8. v = w
  BY <1>3, <1>6, <1>7, TagDecodes
<1>9. \A u \in x.sites : SiteOn(img, u)
  BY <1>2, <1>3 DEF Sound, Whole
<1> QED
  BY <1>1, <1>6, <1>8, <1>9

\* inspect_patch_state says "applied" exactly when every site of the patch, for one
\* version, is in its patched state.
LEMMA StatusApplied ==
  ASSUME NEW img, Sound(img), NEW p \in PatchId
  PROVE  Status(img, p) = "applied" <=> \E v \in Version : \A s \in Sites[p][v] : SiteOn(img, s)
<1>1. DefaultVersion \in Version /\ SpecSites(p) \subseteq AllSites /\ SpecSites(p) # {}
  BY CatalogTypes, SpecFacts DEF SpecSites
<1>2. ASSUME Status(img, p) = "applied"
      PROVE  \E v \in Version : \A s \in Sites[p][v] : SiteOn(img, s)
  <2>1. \A s \in SpecSites(p) : SiteApplied(img, p, s)
    BY <1>2 DEF Status
  <2>2. CASE \E s \in SpecSites(p) : SiteTagged(img, p, s)
    <3>1. p = TagPatch
      BY <2>2 DEF SiteTagged
    <3> QED
      BY <2>2, <3>1, TaggedIsOn
  <2>3. CASE \A s \in SpecSites(p) : ~SiteTagged(img, p, s)
    BY <1>1, <2>1, <2>3 DEF SiteApplied, SiteOn, SpecSites
  <2> QED
    BY <2>2, <2>3
<1>3. ASSUME NEW v \in Version, \A s \in Sites[p][v] : SiteOn(img, s)
      PROVE  Status(img, p) = "applied"
  <2>1. ASSUME NEW s \in SpecSites(p)
        PROVE  ~SiteStock(img, s) /\ SiteApplied(img, p, s)
    <3>1. PICK t \in Sites[p][v] : t \in AllSites /\ t.orig = s.orig /\ Overlap(s, t)
      BY <1>1, SameShape DEF SpecSites
    <3>2. ~SiteStock(img, s)
      BY <1>1, <1>3, <3>1, StockNotOn
    <3>3. CASE p = TagPatch
      <4>1. Read(img, s) = t.patched
        BY <1>1, <1>3, <3>1, ReadOn, SitesAligned
      <4>2. Decode(Read(img, s)) \in Version
        BY <3>3, <4>1, TagDecodes
      <4> QED
        BY <3>2, <3>3, <4>2 DEF SiteApplied, SiteTagged
    <3>4. CASE p # TagPatch
      <4>1. s \in Sites[p][v]
        BY <1>1, <3>4, TagDecodes DEF SpecSites
      <4> QED
        BY <1>3, <3>2, <4>1 DEF SiteApplied, SiteOn
    <3> QED
      BY <3>3, <3>4
  <2> QED
    BY <1>1, <2>1 DEF Status
<1> QED
  BY <1>2, <1>3

\* detected_fw_version is the version whose tag is in the image.
LEMMA Detected ==
  ASSUME NEW img, Sound(img)
  PROVE  DetectedVersions(img) = {v \in Version : \A s \in Sites[TagPatch][v] : SiteOn(img, s)}
<1>1. ASSUME NEW s \in SpecSites(TagPatch), SiteTagged(img, TagPatch, s)
      PROVE  /\ Decode(Read(img, s)) \in Version
             /\ \A t \in Sites[TagPatch][Decode(Read(img, s))] : SiteOn(img, t)
  BY <1>1, TaggedIsOn
<1>2. ASSUME NEW v \in Version, \A s \in Sites[TagPatch][v] : SiteOn(img, s)
      PROVE  \E s \in SpecSites(TagPatch) :
               SiteTagged(img, TagPatch, s) /\ Decode(Read(img, s)) = v
  <2>1. PICK t \in Sites[TagPatch][v] : t \in AllSites
    BY SpecFacts, CatalogTypes
  <2>2. PICK s \in SpecSites(TagPatch) : s \in AllSites /\ Overlap(t, s)
    BY TagSite, CatalogTypes DEF SpecSites
  <2>3. Overlap(s, t)
    BY <2>2 DEF Overlap
  <2>4. ~SiteStock(img, s)
    BY <1>2, <2>1, <2>2, <2>3, StockNotOn
  <2>5. Read(img, s) = t.patched
    BY <1>2, <2>1, <2>2, <2>3, ReadOn, SitesAligned
  <2>6. Decode(Read(img, s)) = v
    BY <2>5, TagDecodes
  <2> QED
    BY <2>2, <2>4, <2>6 DEF SiteTagged
<1> QED
  BY <1>1, <1>2 DEF DetectedVersions

----------------------------------------------------------------------------

\* The batch is added to what inspect reports, and nothing leaves.
LEMMA AppliedAfter ==
  ASSUME NEW img, NEW r, Sound(img), Accepts(img, r)
  PROVE  AppliedPatches(Write(img, SitesOf(r))) = AppliedPatches(img) \cup Enabled(r)
<1> DEFINE ss == SitesOf(r)
           new == Write(img, ss)
<1> HIDE DEF new
<1>1. Sound(new) /\ img \in [Offset -> Byte]
  BY AcceptKeepsSound DEF new, Sound
<1>2. \A t \in AllSites : SiteOn(new, t) <=> t \in ss \/ SiteOn(img, t)
  BY <1>1, OnAfter DEF new
<1>3. Enabled(r) \subseteq PatchId /\ r.fw_version \in Version
  BY BatchFacts
<1>4. ASSUME NEW p \in PatchId, Status(new, p) = "applied"
      PROVE  p \in Enabled(r) \/ Status(img, p) = "applied"
  <2>1. PICK v \in Version : \A s \in Sites[p][v] : SiteOn(new, s)
    BY <1>1, <1>4, StatusApplied
  <2> DEFINE x == [id |-> p, sites |-> Sites[p][v]]
  <2>2. x \in Specs /\ Sites[p][v] # {} /\ Sites[p][v] \subseteq AllSites
    BY SpecFacts
  <2>3. CASE \E s \in Sites[p][v] : s \in ss
    BY <1>3, <2>2, <2>3, BatchSpec
  <2>4. CASE \A s \in Sites[p][v] : s \notin ss
    <3>1. \A s \in Sites[p][v] : SiteOn(img, s)
      BY <1>2, <2>1, <2>2, <2>4
    <3> QED
      BY <3>1, StatusApplied
  <2> QED
    BY <2>3, <2>4
<1>5. ASSUME NEW p \in PatchId, p \in Enabled(r) \/ Status(img, p) = "applied"
      PROVE  Status(new, p) = "applied"
  <2>1. CASE p \in Enabled(r)
    <3>1. \A s \in Sites[p][r.fw_version] : s \in ss /\ s \in AllSites
      BY <1>3, <2>1, SpecFacts DEF SitesOf
    <3> QED
      BY <1>1, <1>2, <1>3, <3>1, StatusApplied
  <2>2. CASE Status(img, p) = "applied"
    <3>1. PICK v \in Version : \A s \in Sites[p][v] : SiteOn(img, s)
      BY <2>2, StatusApplied
    <3>2. \A s \in Sites[p][v] : SiteOn(new, s)
      BY <1>2, <3>1, SpecFacts
    <3> QED
      BY <1>1, <3>2, StatusApplied
  <2> QED
    BY <1>5, <2>1, <2>2
<1> QED
  BY <1>3, <1>4, <1>5 DEF AppliedPatches, new

LEMMA DetectedAfter ==
  ASSUME NEW img, NEW r, Sound(img), Accepts(img, r)
  PROVE  DetectedVersions(Write(img, SitesOf(r))) =
           IF TagPatch \in Enabled(r) THEN {r.fw_version} ELSE DetectedVersions(img)
<1> DEFINE ss == SitesOf(r)
           new == Write(img, ss)
           Tagged(im, v) == \A s \in Sites[TagPatch][v] : SiteOn(im, s)
<1> HIDE DEF new
<1>1. Sound(new) /\ img \in [Offset -> Byte]
  BY AcceptKeepsSound DEF new, Sound
<1>2. \A t \in AllSites : SiteOn(new, t) <=> t \in ss \/ SiteOn(img, t)
  BY <1>1, OnAfter DEF new
<1>3. Enabled(r) \subseteq PatchId /\ r.fw_version \in Version
  BY BatchFacts
<1>4. /\ DetectedVersions(new) = {v \in Version : Tagged(new, v)}
      /\ DetectedVersions(img) = {v \in Version : Tagged(img, v)}
  BY <1>1, Detected
<1>5. CASE TagPatch \in Enabled(r)
  <2>1. \A s \in Sites[TagPatch][r.fw_version] : SiteOn(new, s)
    BY <1>2, <1>3, <1>5, SpecFacts, CatalogTypes DEF SitesOf
  <2>2. ASSUME NEW v \in Version, Tagged(new, v)
        PROVE  v = r.fw_version
    <3>1. PICK s \in Sites[TagPatch][v] : s \in AllSites
      BY SpecFacts, CatalogTypes
    <3>2. PICK t \in Sites[TagPatch][r.fw_version] : t \in AllSites /\ Overlap(s, t)
      BY <1>3, TagSite
    <3>3. s = t
      BY <2>1, <2>2, <3>1, <3>2, OnExclusive
    <3> QED
      BY <1>3, <3>1, <3>2, <3>3, TagVersionsDiffer
  <2> QED
    BY <1>3, <1>4, <1>5, <2>1, <2>2 DEF new
<1>6. CASE TagPatch \notin Enabled(r)
  <2>1. ASSUME NEW v \in Version
        PROVE  Tagged(new, v) <=> Tagged(img, v)
    <3> DEFINE x == [id |-> TagPatch, sites |-> Sites[TagPatch][v]]
    <3>1. x \in Specs /\ Sites[TagPatch][v] \subseteq AllSites
      BY SpecFacts, CatalogTypes
    <3>2. \A s \in x.sites : s \notin ss
      BY <1>3, <1>6, <3>1, BatchSpec
    <3> QED
      BY <1>2, <3>1, <3>2
  <2> QED
    BY <1>4, <1>6, <2>1 DEF new
<1> QED
  BY <1>5, <1>6

----------------------------------------------------------------------------

\* What the ledger asks of a batch, on an image.
LedgerTakes(img, B, v, repeat) ==
  /\ B # {}
  /\ \A p \in B, q \in B \cup AppliedPatches(img) :
       ~(p # q /\ Group[p] # NoGroup /\ Group[p] = Group[q])
  /\ repeat \/ B \cap AppliedPatches(img) = {}
  /\ TagPatch \in B => DetectedVersions(img) \subseteq {v}

\* A call that goes through is one the ledger takes.
LEMMA AcceptIsLegal ==
  ASSUME NEW img, NEW r, Sound(img), Accepts(img, r)
  PROVE  LedgerTakes(img, Enabled(r), r.fw_version, r.allow)
<1> DEFINE B == Enabled(r)
           v == r.fw_version
<1>1. B # {} /\ B \subseteq PatchId /\ v \in Version
  BY BatchFacts
<1>2. ASSUME NEW p \in B, NEW q \in PatchId, p # q, Status(img, q) = "applied",
             Group[p] # NoGroup, Group[p] = Group[q]
      PROVE  FALSE
  <2>1. PICK w \in Version : \A s \in Sites[q][w] : SiteOn(img, s)
    BY <1>2, StatusApplied
  <2>2. PICK s \in Sites[p][v], t \in Sites[q][w] : Overlap(s, t)
    <3>1. /\ [id |-> p, sites |-> Sites[p][v]] \in Specs
          /\ [id |-> q, sites |-> Sites[q][w]] \in Specs
      BY <1>1, SpecFacts
    <3> QED
      BY <1>2, <3>1, GroupsCollide
  <2>3. s \in SitesOf(r) /\ t \in AllSites
    BY <1>1, SpecFacts DEF SitesOf
  <2>4. s = t
    BY <2>1, <2>2, <2>3, BatchMeetsOn
  <2>5. q \in Enabled(r) /\ Sites[q][w] = Sites[q][v]
    BY <1>1, <2>3, <2>4, SpecFacts, BatchSpec
  <2> QED
    BY <1>1, <1>2, <2>5 DEF Accepts, SeparateGroups
<1>3. \A p \in B, q \in B \cup AppliedPatches(img) :
        ~(p # q /\ Group[p] # NoGroup /\ Group[p] = Group[q])
  BY <1>2 DEF Accepts, SeparateGroups, AppliedPatches
<1>4. ASSUME ~r.allow, NEW p \in B, Status(img, p) = "applied"
      PROVE  FALSE
  <2>1. PICK w \in Version : \A s \in Sites[p][w] : SiteOn(img, s)
    BY <1>1, <1>4, StatusApplied
  <2>2. PICK t \in Sites[p][w] : t \in AllSites /\ SiteOn(img, t)
    BY <1>1, <2>1, SpecFacts
  <2>3. PICK s \in Sites[p][v] : s \in AllSites /\ Overlap(t, s)
    BY <1>1, <2>2, SameShape
  <2>4. SiteStock(img, s)
    BY <1>1, <1>4, <2>3, BatchFacts DEF SitesOf, SiteReady
  <2>5. Overlap(s, t)
    BY <2>3 DEF Overlap
  <2> QED
    BY <2>2, <2>3, <2>4, <2>5, StockNotOn
<1>5. ASSUME TagPatch \in B, NEW w \in DetectedVersions(img)
      PROVE  w = v
  <2>1. w \in Version /\ \A s \in Sites[TagPatch][w] : SiteOn(img, s)
    BY Detected
  <2>2. PICK t \in Sites[TagPatch][w] : t \in AllSites
    BY <2>1, SpecFacts, CatalogTypes
  <2>3. PICK s \in Sites[TagPatch][v] : s \in AllSites /\ Overlap(t, s)
    <3>1. v \in Version /\ TagPatch \in PatchId
      BY <1>1, CatalogTypes
    <3> QED
      BY <2>1, <3>1, SameShape
  <2>4. s \in SitesOf(r) /\ Overlap(s, t)
    BY <1>5, <2>3 DEF SitesOf, Overlap
  <2>5. s = t
    BY <2>1, <2>2, <2>4, BatchMeetsOn
  <2> QED
    BY <1>1, <2>1, <2>2, <2>3, <2>5, TagVersionsDiffer
<1> QED
  BY <1>1, <1>3, <1>4, <1>5 DEF LedgerTakes, AppliedPatches

\* The guarded bytes survive as long as bytes change under sites only.
LEMMA SoundIsSafe ==
  ASSUME NEW img, Explained(img)
  PROVE  Safe(img)
<1> SUFFICES ASSUME NEW o \in DOMAIN Guarded
             PROVE  img[o] = Guarded[o]
  BY DEF Safe, Holds
<1>1. o \in Offset /\ Stock[o] = Guarded[o]
  BY CatalogTypes, SitesReplaceStock DEF IsPart, Holds
<1>2. \A s \in AllSites : o \notin Span(s)
  BY SitesReplaceStock
<1> QED
  BY <1>1, <1>2 DEF Explained

\* A well-formed call the ledger takes goes through.
LEMMA LegalIsAccepted ==
  ASSUME NEW img, NEW r, Sound(img), WellFormed(r),
         LedgerTakes(img, Enabled(r), r.fw_version, r.allow)
  PROVE  Accepts(img, r)
<1> DEFINE B == Enabled(r)
           v == r.fw_version
<1>1. B # {} /\ B \subseteq PatchId /\ v \in Version /\ SitesOf(r) \subseteq AllSites
  BY SpecFacts DEF WellFormed, SitesOf
<1>2. Safe(img)
  BY SoundIsSafe DEF Sound
<1>3. SeparateGroups(B)
  BY DEF LedgerTakes, SeparateGroups
<1>4. SeparateBytes(B, v)
  <2> SUFFICES ASSUME NEW p \in B, NEW q \in B, NEW s \in Sites[p][v], NEW t \in Sites[q][v],
                      Overlap(s, t)
               PROVE  p = q /\ s = t
    BY DEF SeparateBytes
  <2>1. /\ [id |-> p, sites |-> Sites[p][v]] \in Specs
        /\ [id |-> q, sites |-> Sites[q][v]] \in Specs
    BY <1>1, SpecFacts
  <2>2. p = q
    BY <2>1, <1>3, GroupsCollide DEF SeparateGroups
  <2> QED
    BY <2>1, <2>2, SitesAligned
<1>5. ASSUME NEW s \in SitesOf(r), ~SiteStock(img, s)
      PROVE  r.allow /\ Holds(img, s.patched)
  <2>1. PICK p \in B : s \in Sites[p][v]
    BY DEF SitesOf
  <2>2. PICK t \in AllSites : Overlap(s, t) /\ SiteOn(img, t)
    BY <1>1, <1>5, StockOrOn
  <2>3. PICK q \in PatchId, w \in Version : t \in Sites[q][w]
    BY DEF AllSites, Specs
  <2>4. /\ [id |-> p, sites |-> Sites[p][v]] \in Specs
        /\ [id |-> q, sites |-> Sites[q][w]] \in Specs
    BY <1>1, SpecFacts
  <2>5. \A u \in Sites[q][w] : SiteOn(img, u)
    BY <2>2, <2>3, <2>4 DEF Sound, Whole
  <2>6. q \in AppliedPatches(img)
    BY <2>5, StatusApplied DEF AppliedPatches
  <2>7. p = q
    BY <2>1, <2>2, <2>3, <2>4, <2>6, GroupsCollide DEF LedgerTakes
  <2>8. r.allow
    BY <2>6, <2>7 DEF LedgerTakes
  <2>9. Sites[q][w] = Sites[p][v]
    <3>1. CASE p = TagPatch
      <4>1. w \in DetectedVersions(img)
        BY <2>5, <2>7, <3>1, Detected
      <4> QED
        BY <2>7, <3>1, <4>1 DEF LedgerTakes
    <3>2. CASE p # TagPatch
      BY <1>1, <2>7, <3>2, TagDecodes
    <3> QED
      BY <3>1, <3>2
  <2>10. s = t
    BY <2>1, <2>2, <2>3, <2>4, <2>9, SitesAligned
  <2> QED
    BY <2>2, <2>8, <2>10 DEF SiteOn
<1>6. Safe(Write(img, SitesOf(r)))
  <2> SUFFICES ASSUME NEW o \in DOMAIN Guarded
               PROVE  Write(img, SitesOf(r))[o] = Guarded[o]
    BY DEF Safe, Holds
  <2>1. o \in Offset /\ img[o] = Guarded[o]
    BY <1>2, CatalogTypes DEF IsPart, Safe, Holds
  <2>2. \A s \in SitesOf(r) : o \notin Span(s)
    BY <1>1, SitesReplaceStock
  <2> QED
    BY <2>1, <2>2 DEF Write
<1> QED
  BY <1>2, <1>3, <1>4, <1>5, <1>6 DEF Accepts, SiteReady

----------------------------------------------------------------------------

\* The vendor image satisfies the invariant; inspect finds no patch in it.
LEMMA StockIsSound ==
  Sound(Stock) /\ AppliedPatches(Stock) = {} /\ DetectedVersions(Stock) = {}
<1>1. \A s \in AllSites : SiteStock(Stock, s) /\ ~SiteOn(Stock, s)
  BY SiteFacts, SelfOverlap, StockNotOn DEF SiteStock
<1>2. Sound(Stock)
  BY <1>1, SpecSitesInCatalog, CatalogTypes DEF Sound, Explained, Whole
<1>3. ASSUME NEW p \in PatchId, NEW v \in Version
      PROVE  \E s \in Sites[p][v] : ~SiteOn(Stock, s)
  BY <1>1, SpecFacts
<1>4. AppliedPatches(Stock) = {}
  BY <1>2, <1>3, StatusApplied DEF AppliedPatches
<1>5. DetectedVersions(Stock) = {}
  BY <1>2, <1>3, Detected, CatalogTypes
<1> QED
  BY <1>2, <1>4, <1>5

\* A byte that is not the vendor's belongs to a patch that inspect reports.
LEMMA SoundIsExplained ==
  ASSUME NEW img, Sound(img), NEW o \in Offset, img[o] # Stock[o]
  PROVE  \E p \in AppliedPatches(img), v \in Version : \E s \in Sites[p][v] :
           o \in Span(s) /\ Holds(img, s.patched)
<1>1. PICK s \in AllSites : o \in Span(s) /\ SiteOn(img, s)
  BY DEF Sound, Explained
<1>2. PICK p \in PatchId, v \in Version : s \in Sites[p][v]
  BY DEF AllSites, Specs
<1>3. \A t \in Sites[p][v] : SiteOn(img, t)
  BY <1>1, <1>2, SpecFacts DEF Sound, Whole
<1>4. p \in AppliedPatches(img)
  BY <1>3, StatusApplied DEF AppliedPatches
<1> QED
  BY <1>1, <1>2, <1>4 DEF SiteOn

(***************************************************************************)
(* Patcher.                                                                *)
(***************************************************************************)

\* The state invariant: the image is sound and the report has its type.
IInv == Sound(image) /\ TypeOK

\* From the vendor image the invariant holds for ever.
THEOREM Invariance == Spec => []IInv
<1>1. Init => IInv
  BY StockIsSound, CatalogTypes DEF Init, IInv, TypeOK, NoReport
<1>2. IInv /\ [Next]_vars => IInv'
  <2> SUFFICES ASSUME IInv, [Next]_vars
               PROVE  IInv'
    OBVIOUS
  <2>1. ASSUME NEW r \in Request, Accept(r)
        PROVE  IInv'
    <3>1. Sound(image')
      BY <2>1, AcceptKeepsSound DEF Accept, IInv
    <3>2. report'.outcome = "ok"
      BY <2>1 DEF Accept, Report
    <3> QED
      BY <3>1, <3>2 DEF IInv, TypeOK, Sound
  <2>2. ASSUME NEW r \in Request, Reject(r)
        PROVE  IInv'
    <3>1. image' = image /\ report'.outcome \in {"ValueError", "KeyError", "PatchVerificationError"}
      BY <2>2 DEF Reject, NoReport, Failure
    <3> QED
      BY <3>1 DEF IInv, TypeOK
  <2>3. CASE UNCHANGED vars
    BY <2>3 DEF vars, IInv, TypeOK
  <2> QED
    BY <2>1, <2>2, <2>3 DEF Next
<1> QED
  BY <1>1, <1>2, PTL DEF Spec

\* Types are kept: a write neither grows the image nor leaves the bytes.
THEOREM TypeCorrect == Spec => []TypeOK
<1>1. IInv => TypeOK
  BY DEF IInv
<1> QED
  BY <1>1, Invariance, PTL

\* No byte of the image differs from the vendor's unless inspect names its patch.
THEOREM ChangesAreExplained == Spec => []BytesExplained
<1>1. IInv => BytesExplained
  BY SoundIsExplained DEF IInv, BytesExplained
<1> QED
  BY <1>1, Invariance, PTL

\* The site checks accept every call the ledger takes and no other.
THEOREM VerificationIsExact == Spec => []AcceptsExactly
<1>1. IInv => AcceptsExactly
  <2> SUFFICES ASSUME IInv, NEW r \in Request
               PROVE  Accepts(image, r) <=>
                        WellFormed(r) /\ Ledger!CanApply(Enabled(r), r.fw_version, r.allow)
    BY DEF AcceptsExactly
  <2>1. LedgerTakes(image, Enabled(r), r.fw_version, r.allow)
          <=> Ledger!CanApply(Enabled(r), r.fw_version, r.allow)
    BY DEF LedgerTakes, Ledger!CanApply, Ledger!Rivals
  <2>2. Accepts(image, r) => WellFormed(r) /\ LedgerTakes(image, Enabled(r), r.fw_version, r.allow)
    BY AcceptIsLegal DEF IInv, Accepts
  <2>3. WellFormed(r) /\ LedgerTakes(image, Enabled(r), r.fw_version, r.allow) => Accepts(image, r)
    BY LegalIsAccepted DEF IInv
  <2> QED
    BY <2>1, <2>2, <2>3
<1> QED
  BY <1>1, Invariance, PTL

\* Seen through inspect, the patcher implements the ledger.
THEOREM RefinesLedger == Spec => LedgerSpec
<1>1. Init => Ledger!Init
  BY StockIsSound DEF Init, Ledger!Init
<1>2. IInv /\ [Next]_vars => [Ledger!Next]_(Ledger!vars)
  <2> SUFFICES ASSUME IInv, [Next]_vars
               PROVE  [Ledger!Next]_(Ledger!vars)
    OBVIOUS
  <2>1. ASSUME NEW r \in Request, Accept(r)
        PROVE  Ledger!Next
    <3>1. Accepts(image, r) /\ image' = Write(image, SitesOf(r))
      BY <2>1 DEF Accept
    <3>2. Enabled(r) \in SUBSET PatchId /\ r.fw_version \in Version
      BY <3>1, BatchFacts
    <3>3. LedgerTakes(image, Enabled(r), r.fw_version, r.allow)
      BY <3>1, AcceptIsLegal DEF IInv
    <3>4. AppliedPatches(image') = AppliedPatches(image) \cup Enabled(r)
      BY <3>1, AppliedAfter DEF IInv
    <3>5. DetectedVersions(image') =
            IF TagPatch \in Enabled(r) THEN {r.fw_version} ELSE DetectedVersions(image)
      BY <3>1, DetectedAfter DEF IInv
    <3>6. PICK repeat \in BOOLEAN : r.allow <=> repeat
      OBVIOUS
    <3>7. Ledger!CanApply(Enabled(r), r.fw_version, repeat)
      BY <3>3, <3>6 DEF LedgerTakes, Ledger!CanApply, Ledger!Rivals
    <3>8. Ledger!Apply(Enabled(r), r.fw_version, repeat)
      BY <3>4, <3>5, <3>7 DEF Ledger!Apply
    <3> QED
      BY <3>2, <3>6, <3>8 DEF Ledger!Next
  <2>2. ASSUME NEW r \in Request, Reject(r)
        PROVE  UNCHANGED Ledger!vars
    <3>1. image' = image
      BY <2>2 DEF Reject
    <3> QED
      BY <3>1 DEF Ledger!vars
  <2>3. CASE UNCHANGED vars
    BY <2>3 DEF vars, Ledger!vars
  <2> QED
    BY <2>1, <2>2, <2>3 DEF Next
<1> QED
  BY <1>1, <1>2, Invariance, PTL DEF Spec, LedgerSpec, Ledger!Spec

----------------------------------------------------------------------------

\* On any image at all, one of another origin included, a byte changes only with
\* its whole site and only from the vendor's bytes.
THEOREM NothingUnknownOverwritten == ForeignSpec => NoBlindWrite
<1>1. ASSUME [Next]_vars, NEW o \in Offset, image'[o] # image[o]
      PROVE  \E s \in AllSites :
               o \in Span(s) /\ Holds(image, s.orig) /\ Holds(image', s.patched)
  <2>1. PICK r \in Request : Accept(r)
    BY <1>1 DEF Next, Reject, vars
  <2>2. Accepts(image, r) /\ image' = Write(image, SitesOf(r))
    BY <2>1 DEF Accept
  <2>3. PICK s \in SitesOf(r) : o \in Span(s)
    BY <1>1, <2>2 DEF Write
  <2>4. \A t \in SitesOf(r) : t \in AllSites /\ SiteReady(image, t, r.allow)
    BY <2>2, BatchFacts
  <2>5. \A t \in SitesOf(r) : \A i \in Span(t) : image'[i] = t.patched[i]
    <3> SUFFICES ASSUME NEW t \in SitesOf(r), NEW i \in Span(t)
                 PROVE  image'[i] = t.patched[i]
      OBVIOUS
    <3> DEFINE c == CHOOSE u \in SitesOf(r) : i \in Span(u)
    <3>1. c \in SitesOf(r) /\ i \in Span(c)
      OBVIOUS
    <3>2. c = t
      BY <2>2, <3>1, BatchFacts DEF Overlap
    <3>3. i \in Offset
      BY <2>4, SiteFacts
    <3> QED
      BY <2>2, <3>2, <3>3 DEF Write
  <2>6. Holds(image', s.patched)
    BY <2>3, <2>4, <2>5, SiteFacts DEF Holds
  <2>7. ~Holds(image, s.patched)
    BY <1>1, <2>3, <2>4, <2>5, SiteFacts DEF Holds
  <2> QED
    BY <2>3, <2>4, <2>6, <2>7 DEF SiteReady, SiteStock
<1>2. [Next]_vars => [\A o \in Offset : image'[o] # image[o] =>
        \E s \in AllSites :
          o \in Span(s) /\ Holds(image, s.orig) /\ Holds(image', s.patched)]_vars
  BY <1>1
<1> QED
  BY <1>2, PTL DEF ForeignSpec, NoBlindWrite

\* An accepted call on any image leaves each patch of its batch applied, as
\* inspect sees it, and the tag at the version it was given.
LEMMA BatchIsApplied ==
  ASSUME NEW img \in [Offset -> Byte], NEW r, Accepts(img, r)
  PROVE  /\ Enabled(r) \subseteq AppliedPatches(Write(img, SitesOf(r)))
         /\ TagPatch \in Enabled(r) =>
              DetectedVersions(Write(img, SitesOf(r))) = {r.fw_version}
<1> DEFINE new == Write(img, SitesOf(r))
           v == r.fw_version
<1> HIDE DEF new
<1>1. Enabled(r) \subseteq PatchId /\ v \in Version /\ SitesOf(r) \subseteq AllSites
  BY BatchFacts
<1>2. \A t \in SitesOf(r) : SiteOn(new, t)
  BY <1>1, BatchFacts, WriteEffect DEF new
<1>3. ASSUME NEW p \in Enabled(r), NEW s \in SpecSites(p)
      PROVE  /\ ~SiteStock(new, s) /\ SiteApplied(new, p, s)
             /\ p = TagPatch => SiteTagged(new, p, s) /\ Decode(Read(new, s)) = v
  <2>1. s \in AllSites
    BY <1>1, SpecFacts, CatalogTypes DEF SpecSites
  <2>2. PICK t \in Sites[p][v] : t \in AllSites /\ t.orig = s.orig /\ Overlap(s, t)
    BY <1>1, SameShape, CatalogTypes DEF SpecSites
  <2>3. SiteOn(new, t)
    BY <1>2, <2>2 DEF SitesOf
  <2>4. ~SiteStock(new, s)
    BY <2>1, <2>2, <2>3, StockNotOn
  <2>5. CASE p = TagPatch
    <3>1. Read(new, s) = t.patched
      BY <2>1, <2>2, <2>3, ReadOn, SitesAligned
    <3>2. Decode(Read(new, s)) = v
      BY <1>1, <2>2, <2>5, <3>1, TagDecodes
    <3> QED
      BY <1>1, <2>4, <2>5, <3>2 DEF SiteApplied, SiteTagged
  <2>6. CASE p # TagPatch
    <3>1. s \in Sites[p][v]
      BY <1>1, <2>6, TagDecodes, CatalogTypes DEF SpecSites
    <3>2. SiteOn(new, s)
      BY <1>2, <3>1 DEF SitesOf
    <3> QED
      BY <2>4, <2>6, <3>2 DEF SiteApplied, SiteOn
  <2> QED
    BY <2>5, <2>6
<1>4. \A p \in PatchId : SpecSites(p) # {}
  BY SpecFacts, CatalogTypes DEF SpecSites
<1>5. Enabled(r) \subseteq AppliedPatches(new)
  BY <1>1, <1>3, <1>4 DEF AppliedPatches, Status
<1>6. ASSUME TagPatch \in Enabled(r)
      PROVE  DetectedVersions(new) = {v}
  <2>1. \A s \in SpecSites(TagPatch) : SiteTagged(new, TagPatch, s) /\ Decode(Read(new, s)) = v
    BY <1>3, <1>6
  <2>2. SpecSites(TagPatch) # {}
    BY <1>4, CatalogTypes
  <2> QED
    BY <2>1, <2>2 DEF DetectedVersions
<1> QED
  BY <1>5, <1>6 DEF new

\* The report of an accepted call is confirmed by inspect, whatever image came in.
THEOREM ReportsAreTrue == ForeignSpec => []ReportTruthful
<1> DEFINE FInv == image \in [Offset -> Byte] /\ ReportTruthful
<1>1. image \in Foreign /\ report = NoReport("none") => FInv
  BY InputTypes DEF ReportTruthful, NoReport
<1>2. FInv /\ [Next]_vars => FInv'
  <2> SUFFICES ASSUME FInv, [Next]_vars
               PROVE  FInv'
    OBVIOUS
  <2>1. ASSUME NEW r \in Request, Accept(r)
        PROVE  FInv'
    <3>1. Accepts(image, r) /\ image' = Write(image, SitesOf(r)) /\ report' = Report(r, image, image')
      BY <2>1 DEF Accept
    <3>2. image' \in [Offset -> Byte]
      BY <3>1, BatchFacts, WriteEffect
    <3>3. /\ Enabled(r) \subseteq AppliedPatches(image')
          /\ TagPatch \in Enabled(r) => DetectedVersions(image') = {r.fw_version}
      BY <3>1, BatchIsApplied
    <3>4. /\ report'.enabled = Enabled(r)
          /\ TagPatch \in Enabled(r) => report'.fw_version = {r.fw_version}
      BY <3>1 DEF Report
    <3> QED
      BY <3>2, <3>3, <3>4 DEF ReportTruthful
  <2>2. ASSUME NEW r \in Request, Reject(r)
        PROVE  FInv'
    <3>1. image' = image /\ report'.outcome # "ok"
      BY <2>2 DEF Reject, NoReport, Failure
    <3> QED
      BY <3>1 DEF ReportTruthful
  <2>3. CASE UNCHANGED vars
    BY <2>3 DEF vars, ReportTruthful
  <2> QED
    BY <2>1, <2>2, <2>3 DEF Next
<1>3. FInv => ReportTruthful
  OBVIOUS
<1> QED
  BY <1>1, <1>2, <1>3, PTL DEF ForeignSpec

\* The pages the report lists are all the pages that changed.
THEOREM EveryChangedPageReported == Spec => PagesCovered
<1>1. ASSUME [Next]_vars, NEW o \in Offset, image'[o] # image[o]
      PROVE  Page(o) \in report'.modified_pages
  <2>1. PICK r \in Request : Accept(r)
    BY <1>1 DEF Next, Reject, vars
  <2>2. Accepts(image, r) /\ image' = Write(image, SitesOf(r))
    BY <2>1 DEF Accept
  <2>3. PICK s \in SitesOf(r) : o \in Span(s)
    BY <1>1, <2>2 DEF Write
  <2>4. Page(o) = Page(s.at)
    BY <2>2, <2>3, BatchFacts, SitesInOnePage
  <2>5. report'.modified_pages = ModifiedPages(r)
    BY <2>1 DEF Accept, Report
  <2> QED
    BY <2>3, <2>4, <2>5 DEF ModifiedPages
<1>2. [Next]_vars =>
        [\A o \in Offset : image'[o] # image[o] => Page(o) \in report'.modified_pages]_vars
  BY <1>1
<1> QED
  BY <1>2, PTL DEF Spec, PagesCovered

=============================================================================
