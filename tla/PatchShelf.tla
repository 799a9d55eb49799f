----------------------------- MODULE PatchShelf -----------------------------
(***************************************************************************)
(* What the command line promises of the files on a disk, with no bytes in *)
(* them.  A file is an image in one of two forms that carries patches and  *)
(* a version tag by the rules of PatchLedger, or it is damaged and taken   *)
(* for no image at all.  A job reads one file and writes another, or the   *)
(* same: the image it set out with arrives whole, or the file it went to   *)
(* is left damaged, or nothing has changed; no other file ever does.       *)
(***************************************************************************)
EXTENDS Integers, FiniteSets

CONSTANTS
  PatchId, TagPatch, Version, Group, NoGroup,   \* as in PatchLedger
  Path, Vendor                                  \* as in PatchSession

VARIABLES
  shelf,        \* what each file that exists is
  job           \* the image on its way to a file, if there is one

vars == <<shelf, job>>

Form == {"transport", "payload"}
Damaged == [format |-> "none", on |-> {}, tags |-> {}]

NoJob == [state |-> "none"]
Jobs(images) == [state : {"busy"}, out : Path, image : images]

Ledger(on, tags) == INSTANCE PatchLedger

----------------------------------------------------------------------------

Init ==
  /\ shelf = [f \in {Vendor} |-> [format |-> "transport", on |-> {}, tags |-> {}]]
  /\ job = NoJob

\* A batch that the ledger takes goes into an image, which leaves in either form.
Patch(in) ==
  /\ job = NoJob
  /\ shelf[in] # Damaged
  /\ \E B \in SUBSET PatchId, v \in Version :
       /\ Ledger(shelf[in].on, shelf[in].tags)!CanApply(B, v, TRUE)
       /\ job' \in Jobs([format : Form, on : {shelf[in].on \cup B},
                          tags : {IF TagPatch \in B THEN {v} ELSE shelf[in].tags}])
  /\ UNCHANGED shelf

\* Only a transport image can be stripped of its headers; what comes of anything
\* else is not an image.
Extract(in) ==
  /\ job = NoJob
  /\ job' \in Jobs({IF shelf[in].format = "transport"
                     THEN [shelf[in] EXCEPT !.format = "payload"] ELSE Damaged})
  /\ UNCHANGED shelf

\* The file is opened, or a part of the image has arrived.
Spoil ==
  /\ job # NoJob /\ UNCHANGED job
  /\ shelf' = [f \in DOMAIN shelf \cup {job.out} |-> IF f = job.out THEN Damaged ELSE shelf[f]]

Deliver ==
  /\ job # NoJob /\ job' = NoJob
  /\ job.out \in DOMAIN shelf /\ shelf[job.out] = Damaged
  /\ shelf' = [shelf EXCEPT ![job.out] = job.image]

\* A fault.
Abandon ==
  /\ job # NoJob /\ job' = NoJob
  /\ UNCHANGED shelf

Next ==
  \/ \E in \in DOMAIN shelf : Patch(in) \/ Extract(in)
  \/ Spoil \/ Deliver \/ Abandon

Spec == Init /\ [][Next]_vars

=============================================================================
