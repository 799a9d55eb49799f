---------------------------- MODULE PatchSession ----------------------------
(***************************************************************************)
(* The command line on a disk: `firmware_patcher.py patch` and             *)
(* `extract_payload.py`, run one at a time by a user who chooses any file  *)
(* there as input and any path as output, in place included.  A file is    *)
(* written by opening it, which empties it, and by writes that each get a  *)
(* part of the bytes out; a fault (a full disk, a killed process) ends the *)
(* run between any two of these steps and leaves the disk as it is.  What  *)
(* was written stays in that order: the tools never ask for their bytes to *)
(* reach the medium, and after a power cut the order may be another.       *)
(* Reading the input and computing the output touch nothing on disk and    *)
(* are one step.                                                           *)
(***************************************************************************)
EXTENDS PatchRules, TransportImage

CONSTANTS
  Path,         \* the image files
  Vendor        \* the one the archive provides

VARIABLES
  disk,         \* the bytes of each image file that exists
  manifest,     \* the file given as --manifest-out
  run,          \* the run in progress
  stale         \* an image of that name was opened since the manifest was written

sessionVars == <<disk, manifest, run, stale>>

\* The offsets are those of a whole payload, and the guarded reset vector does not
\* begin like a transport image, with the upper half of page index 0.
ASSUME WholePayload == Offset = PayloadOffset
ASSUME ResetVectorTells == 0 \in DOMAIN Guarded /\ Guarded[0] # 0
ASSUME Paths == Vendor \in Path

----------------------------------------------------------------------------

NoManifest == [state |-> "absent"]
Idle == [step |-> "done", exit |-> "none"]

Size(file) == CHOOSE n \in 0..TRANSPORT_TOTAL_BYTES : DOMAIN file = Extent(n)
Empty == [i \in Extent(0) |-> 0]
Prefix(file, n) == [i \in Extent(n) |-> file[i]]

\* A faulty variant: the manifest is written before the image.
ManifestFirst(step, wants) ==
  CASE step = "begin"         -> IF wants THEN "open manifest" ELSE "open"
    [] step = "open manifest" -> "manifest"
    [] step = "manifest"      -> "open"
    [] step = "open"          -> "image"
    [] step = "image"         -> "done"

\* The outputs of a run, in the order main writes them.
Following(step, wants) ==
  CASE step = "begin"         -> "open"
    [] step = "open"          -> "image"
    [] step = "image"         -> IF wants THEN "open manifest" ELSE "done"
    [] step = "open manifest" -> "manifest"
    [] step = "manifest"      -> "done"

SessionInit ==
  /\ disk = [f \in {Vendor} |-> wrap_transport_image(Stock)]
  /\ manifest = NoManifest
  /\ run = Idle
  /\ stale = FALSE

(***************************************************************************)
(* inspect and patch go on with an image that has a known size, the page   *)
(* indices of its form, and the guarded bytes.                             *)
(***************************************************************************)
Usable(raw) == Readable(raw) /\ Safe(PayloadOf(raw))

TargetFormat(raw, asked) ==
  IF asked = "same" THEN detect_image_format(raw) ELSE asked

Patch(in, out, r, asked, wants) ==
  LET raw     == disk[in]
      payload == PayloadOf(raw)
      new     == Write(payload, SitesOf(r))
      format  == TargetFormat(raw, asked)
  IN  /\ run.step = "done"
      /\ Usable(raw) /\ Accepts(payload, r)
      /\ run' = [step |-> Following("begin", wants), wants |-> wants, exit |-> "none",
                 out |-> out, bytes |-> InFormat(new, format),
                 summary |-> [format |-> format, payload |-> new,
                              applied |-> AppliedPatches(payload) \cup Enabled(r)]]
      /\ UNCHANGED <<disk, manifest, stale>>

\* An exception leaves main before anything is written.
PatchRefused(in, r) ==
  /\ run.step = "done"
  /\ ~(Usable(disk[in]) /\ Accepts(PayloadOf(disk[in]), r))
  /\ run' = [Idle EXCEPT !.exit = "error"]
  /\ UNCHANGED <<disk, manifest, stale>>

Extract(in, out) ==
  /\ run.step = "done"
  /\ run' = [step |-> Following("begin", FALSE), wants |-> FALSE, exit |-> "none",
             out |-> out, bytes |-> strip(disk[in], Size(disk[in])), summary |-> NoManifest]
  /\ UNCHANGED <<disk, manifest, stale>>

\* The next output, or the end of the run.
Proceed ==
  LET next == Following(run.step, run.wants)
  IN  run' = IF next = "done" THEN [Idle EXCEPT !.exit = "ok"] ELSE [run EXCEPT !.step = next]

\* open(path, "wb") empties the file, or creates it.
OpenImage ==
  /\ run.step = "open"
  /\ disk' = [f \in DOMAIN disk \cup {run.out} |-> IF f = run.out THEN Empty ELSE disk[f]]
  /\ stale' = (stale \/ (manifest.state = "whole" /\ manifest.out = run.out))
  /\ Proceed
  /\ UNCHANGED manifest

\* A write gets some more of the bytes out; the last one closes the file.
WritePart ==
  /\ run.step = "image"
  /\ \E n \in Size(disk[run.out])..(Size(run.bytes) - 1) :
       disk' = [disk EXCEPT ![run.out] = Prefix(run.bytes, n)]
  /\ UNCHANGED <<manifest, run, stale>>

WriteRest ==
  /\ run.step = "image"
  /\ disk' = [disk EXCEPT ![run.out] = run.bytes]
  /\ Proceed
  /\ UNCHANGED <<manifest, stale>>

OpenManifest ==
  /\ run.step = "open manifest"
  /\ manifest' = [state |-> "torn"]
  /\ Proceed
  /\ UNCHANGED <<disk, stale>>

WriteManifest ==
  /\ run.step = "manifest"
  /\ manifest' = [state |-> "whole", out |-> run.out, summary |-> run.summary]
  /\ stale' = FALSE
  /\ Proceed
  /\ UNCHANGED disk

\* The process is killed, or a call fails.
Fault ==
  /\ run.step # "done"
  /\ run' = [Idle EXCEPT !.exit = "error"]
  /\ UNCHANGED <<disk, manifest, stale>>

SessionNext ==
  \/ \E in \in DOMAIN disk, out \in Path, r \in Request :
       \/ \E asked \in {"same", "transport", "payload"}, wants \in BOOLEAN :
            Patch(in, out, r, asked, wants)
       \/ PatchRefused(in, r)
  \/ \E in \in DOMAIN disk, out \in Path : Extract(in, out)
  \/ OpenImage \/ WritePart \/ WriteRest
  \/ OpenManifest \/ WriteManifest
  \/ Fault

SessionSpec == SessionInit /\ [][SessionNext]_sessionVars

----------------------------------------------------------------------------

(***************************************************************************)
(* The files as inspect sees them, and the image that is on its way while  *)
(* a run opens and writes its output.                                      *)
(***************************************************************************)
Damaged == [format |-> "none", on |-> {}, tags |-> {}]

Label(raw) ==
  IF Usable(raw)
  THEN [format |-> detect_image_format(raw),
        on     |-> AppliedPatches(PayloadOf(raw)),
        tags   |-> DetectedVersions(PayloadOf(raw))]
  ELSE Damaged

Labels == [f \in DOMAIN disk |-> Label(disk[f])]

InFlight == IF run.step \in {"open", "image"}
            THEN [state |-> "busy", out |-> run.out, image |-> Label(run.bytes)]
            ELSE [state |-> "none"]

Shelf == INSTANCE PatchShelf WITH shelf <- Labels, job <- InFlight

\* Whatever is run, in any order and in place too, and whatever is cut short: seen
\* through inspect every file is an image grown by whole batches the rules allow, or
\* damaged and taken for no image, and no run changes a file it does not write.
ShelfSpec == Shelf!Spec

\* In a file that inspect and patch would go on with, every byte that is not the
\* vendor's belongs to a whole patch that inspect names, after any runs, conversions,
\* extractions and faults: no torn, doubly stripped or half-patched file is ever taken
\* for an image.
OnlyWholeImages ==
  \A f \in DOMAIN disk : Usable(disk[f]) =>
    LET payload == PayloadOf(disk[f])
    IN  \A o \in Offset : payload[o] # Stock[o] =>
          \E p \in AppliedPatches(payload), v \in Version : \E s \in Sites[p][v] :
            o \in Span(s) /\ Holds(payload, s.patched)

\* A manifest that is whole describes the image beside it, completely written,
\* as long as no later run has opened that image.
ManifestHonest ==
  manifest.state = "whole" /\ ~stale =>
    /\ manifest.out \in DOMAIN disk
    /\ Usable(disk[manifest.out])
    /\ detect_image_format(disk[manifest.out]) = manifest.summary.format
    /\ PayloadOf(disk[manifest.out]) = manifest.summary.payload
    /\ AppliedPatches(PayloadOf(disk[manifest.out])) = manifest.summary.applied

\* A patch run that ends well leaves an image in the form asked for, in which inspect
\* finds what it found in the input and the patches of the call.
OutputAsAsked ==
  [][(WriteRest /\ run.summary # NoManifest) =>
       LET file == disk'[run.out]
       IN  /\ Usable(file)
           /\ detect_image_format(file) = run.summary.format
           /\ AppliedPatches(PayloadOf(file)) = run.summary.applied]_sessionVars

\* wrap and unwrap, on every file that patches, extractions and faults leave on the
\* disk: whole, cut short anywhere, or stripped once or more (RoundTrips).
RoundTripsHere == \A f \in DOMAIN disk : RoundTrips(disk[f])

\* payload_to_transport_offset on every such file (OffsetsAgree).
OffsetsAgreeHere == \A f \in DOMAIN disk : OffsetsAgree(disk[f])

\* extract_payload and the patcher on every such file (StripAgrees).
StripAgreesHere == \A f \in DOMAIN disk : StripAgrees(disk[f], Size(disk[f]))

\* extract_payload on every such file makes an image only of a whole one
\* (ExtractsWhole).
ExtractsWholeHere == \A f \in DOMAIN disk : ExtractsWhole(disk[f], Size(disk[f]))

=============================================================================
