------------------------------ MODULE Patcher ------------------------------
(***************************************************************************)
(* Calls of apply_patches, one after the other.  One step is one call; the *)
(* image it returns is the input of the next: that is how an image is      *)
(* built up over several runs.                                             *)
(***************************************************************************)
EXTENDS PatchRules

CONSTANT
  Foreign           \* images of another origin that a run may start from

ASSUME InputTypes ==
  /\ \A r \in Request : DOMAIN r = {"ids", "fw_version", "allow"}
  /\ Foreign \subseteq [Offset -> Byte]

VARIABLES
  image,        \* the payload the last accepted call returned
  report        \* how the last call ended, and the report it returned

vars == <<image, report>>

----------------------------------------------------------------------------

Init == image = Stock /\ report = NoReport("none")

Accept(r) ==
  /\ Accepts(image, r)
  /\ image' = Write(image, SitesOf(r))
  /\ report' = Report(r, image, image')

Reject(r) ==
  /\ ~Accepts(image, r)
  /\ report' = NoReport(Failure(image, r))
  /\ UNCHANGED image

Next == \E r \in Request : Accept(r) \/ Reject(r)

Spec == Init /\ [][Next]_vars

\* The same calls on an image that did not come from the vendor.
ForeignSpec == image \in Foreign /\ report = NoReport("none") /\ [][Next]_vars

----------------------------------------------------------------------------

\* What inspect reports of the image is a behaviour of the abstract ledger.
Ledger == INSTANCE PatchLedger
            WITH on <- AppliedPatches(image), tags <- DetectedVersions(image)

\* Any number of patch runs, in any order and any batches, seen through inspect
\* alone: a run adds its whole batch or nothing, nothing is ever lost, and the
\* version once tagged stays.
LedgerSpec == Ledger!Spec

TypeOK ==
  /\ image \in [Offset -> Byte]
  /\ report.outcome \in {"none", "ok", "ValueError", "KeyError", "PatchVerificationError"}

\* A byte that is not the vendor's belongs to a patch that inspect reports: the
\* image never holds a change the patcher cannot name.
BytesExplained ==
  \A o \in Offset : image[o] # Stock[o] =>
    \E p \in AppliedPatches(image), v \in Version : \E s \in Sites[p][v] :
      o \in Span(s) /\ Holds(image, s.patched)

\* The verification of sites refuses exactly the calls the ledger refuses: every
\* legal call goes through, whatever was applied before and in whatever order.
AcceptsExactly ==
  \A r \in Request :
    Accepts(image, r) <=>
      WellFormed(r) /\ Ledger!CanApply(Enabled(r), r.fw_version, r.allow)

\* What the report of an accepted call claims, inspect confirms on the image it
\* returned: every enabled patch whole, and the version asked for.
ReportTruthful ==
  report.outcome = "ok" =>
    /\ report.enabled \subseteq AppliedPatches(image)
    /\ TagPatch \in report.enabled => DetectedVersions(image) = report.fw_version

\* Whatever the image, a byte changes only with its whole site, and only from the
\* vendor's bytes: what the catalogue does not know is never overwritten.
NoBlindWrite ==
  [][\A o \in Offset : image'[o] # image[o] =>
       \E s \in AllSites :
         o \in Span(s) /\ Holds(image, s.orig) /\ Holds(image', s.patched)]_vars

\* modified_pages names every page in which a byte changed.
PagesCovered ==
  [][\A o \in Offset : image'[o] # image[o] => Page(o) \in report'.modified_pages]_vars

\* The 16-bit sums of page_checksum_changes tell a page that changed from one
\* that did not: no patch of the catalogue, alone or with others of its page,
\* leaves the sum of a page it changes as it was.
ChecksumsTellPages ==
  [][\A pg \in report'.modified_pages :
       report'.changes[pg][1] = report'.changes[pg][2]
         <=> \A o \in Offset : Page(o) = pg => image'[o] = image[o]]_vars

=============================================================================
