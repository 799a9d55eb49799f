# A verification of the TSL6 firmware tools

The repository holds the archived firmware of the TSL6 (a CH32V208 device), documents about it, and
the Python tools that take the firmware apart and patch it. The firmware itself is there as binaries
only; what has source, and can be modelled, are the tools in `src/tools/`. This directory specifies
the tools whose mistakes would be expensive: the patcher, which produces images that are flashed, and
the analysis tools, which remember what registers hold while they scan the code, and whose tables the
documents and the patches were made from.

## 1. Inventory

| Part | State it keeps | Operations | What makes it correct | Here |
|---|---|---|---|---|
| Image formats (`firmware_patcher.py` 31-69, 607-651; `extract_payload.py`) | none; files of bytes | detect, wrap, unwrap, strip, offset translation | the two forms carry the same payload; every place that computes an offset agrees; nothing torn looks like an image | modelled, proved |
| Patch catalogue (`firmware_patcher.py` 72-600) | constants | `build_patch_spec` for ten patches, one with a version parameter; the `addi` encoder and decoder | sites replace the vendor's bytes, do not cross pages or guarded ranges, and collide only within a conflict group | modelled |
| Verification and application (`firmware_patcher.py` 654-901) | the image, from call to call | `inspect_patch_state`, `inspect_firmware_bytes`, `apply_patches` | a call is accepted exactly when it is legal, and takes effect as a whole; inspect names what is in the image | modelled, proved |
| Command line (`firmware_patcher.py` 1030-1074; `extract_payload.py` 35-49) | files: images, manifest | `patch`, `extract`; `inspect`, `list-patches` and `export-catalog` leave images alone | interrupted runs leave nothing that is taken for an image; a whole manifest is a true one | partly, proved |
| Symbol consolidation (`gen_symbols.py`) | address -> entry; rows | `add`, `finalize`, reading the artifacts | one name per address by fixed priority, unique labels | partly, proved |
| Function inventory (`functions.py`) | calls, starts, one extent per start | sweep, extent walk, callers | terminates on any bytes; extents in the payload, but for a reset target outside it; extents and call graph agree | partly; proved, with a bound on the steps |
| RAM access map (`map_ramcache.py`) | pending base per register, table of accesses | one linear scan | an access is counted at the address the program uses, and once per base | partly, proved |
| State-block map (`map_state.py`) | counts per offset from gp | one linear scan | it and the RAM access map are of different memory, but for the first use of gp after an `auipc` | partly, proved |
| Rule-trigger map (`map_rule_triggers.py`) | call sites, the last constant seen in a window | sweep for calls, a window in front of each | every call has a row; the row says what the call passes | partly; proved, with a bound on the steps |
| BLE dispatch tables (`gen_analysis.map_dispatch`, `map_dispatch.py`) | immediate per register, handler per command | one linear scan over a tree of comparisons | a row leads where the device takes that command | partly, proved |
| CAN map (`map_can.py`) | one immediate, target per frame id | the same, then up to two hops through trampolines | the same, and the decoder named is one that is reached | partly, proved |
| Action table (`gen_analysis.decode_stub`, `classify_actions.py`), telemetry decoder (`decode_telemetry.py`) | register -> immediate or copy; last call and mask | read a stub up to its first jump; pair calls, masks and shifts | arguments reported are those passed; a field is what its getter returned | partly, proved |
| Generators (the rest of `gen_analysis.py`, `gen_boot_analysis.py`), helpers (`disasm.py`, `analyze.py`) | JSON files; none | run the tools above, write constants found by hand; print | artifacts are regenerated after what they read | not modelled |
| Tests, archives, committed artifacts | data | - | - | read as evidence |
| The device | boot image, flash, update protocol | described in `BOOTLOADER.md`, `FIRMWARE_INTERNALS.md` | - | no source, not modelled |

The parts meet in files. `extract_payload` turns the vendor's `runtime.bin` into a payload; the patcher
reads either form and writes either form and a manifest; a user feeds its output back into it in a
later run. The analysis tools read the payload, `functions.py` writes `functions.json`,
`gen_analysis.py` and the mapping tools write the other artifacts, and `gen_symbols.py` merges them,
passing over what is missing. Nothing runs concurrently inside a tool. What is hard is elsewhere:

* an image is the product of a *sequence* of calls, and conflict groups and overlaps are compared
  within one call only; what keeps a later call honest is the comparison of site bytes, which
  `--allow-already-applied` relaxes site by site;
* `inspect` and `apply_patches` build the catalogue with different versions, and must agree all the same;
* outputs are written in several system calls, and the size of a file is all that tells its form;
* the same arithmetic is done in three places for the transport image;
* the analysis tools decode bytes that may be data, and must neither hang nor point outside the image;
* eight artifacts name overlapping sets of addresses, with and without force;
* the scanners read code in address order, while the device runs it along its branches; what they
  remember of a register goes stale when an instruction they do not look at writes it, when a call or
  a jump comes between, or when the code is reached from elsewhere.

The last point decides how the scanners are modelled. Each is a scan and, beside it, the machine that
the scanned code is for, as far as the instructions tell what it does. A property then relates what the
tool reports to what the machine does, and its premise says when the tool can be relied on; where the
tool's description promises more, a run of its own shows the difference. Several hazards are in a
premise for that reason: a base written again after its `auipc` (`OnlySpoiltGoWrong`), another immediate
in between (`ArmsTold`), an `addi` on a listed register (`ListingMeant`), a call before the tail call
(`DecoderReached`), a shift of something else than a0 (`FieldsMeant`), registers computed or copied after
they were written (`WorkersTold`), a window out of step (`RowsExactInStep`). There the property says that
nothing *else* goes wrong; where such a case has spoilt rows of the committed artifacts, section 5 shows
them.

`PROJECT.json` lists these hazards at their lines, each with the properties that watch it.

## 2. The modules

```
PatchLedger          abstract: a set of patches and a version, no bytes
   ^ refined by
Patcher              a sequence of apply_patches calls on one image       PatcherProofs
   extends PatchRules        inspect, the checks, the write, the report; the catalogue
                             as CONSTANTS                                 (PatcherProofs)
   MCPatcher (small catalogue), MCCatalog (+ PatchCatalog: the real one)

TransportImage       the two image forms for any geometry
PatchShelf           abstract: a shelf of images and damaged files, by the rules of PatchLedger
   ^ refined by
PatchSession         extends PatchRules and TransportImage: the tools on a disk,
   MCSession         with faults                                          SessionProofs

SymbolMap            gen_symbols.py                        MCSymbolMap    SymbolMapProofs
FunctionMap          functions.py                          MCFunctionMap  FunctionMapProofs
TriggerScan          map_rule_triggers.py                  MCTriggerScan  TriggerScanProofs
RamScan              map_ramcache.py                                      RamScanProofs
   ^ extended by
StateScan            map_state.py, over the same code      MCStateScan    (RamScanProofs)
TreeScan             gen_analysis.map_dispatch, map_dispatch.py, map_can.py
                                                           MCTreeScan     TreeScanProofs
CallScan             gen_analysis.decode_stub, classify_actions.py, decode_telemetry.py
                                                           MCCallScan     CallScanProofs
```

**PatchLedger** is what a user is promised: an image carries a set of patches, a batch goes in as a
whole or not at all, nothing comes out again, two presets of one group never meet, and a version
once tagged stays.

**PatchRules** translates `inspect_patch_state` (`Status`, `AppliedPatches`, `DetectedVersions`) and
the body of `apply_patches` in the order of its checks (`WellFormed`, `SeparateGroups`,
`SeparateBytes`, `SiteReady`, `Safe` before and after, `Write`, `Report`). A payload is a function on
the offsets of interest, a site the part expected and the part written. The catalogue is a constant;
what the code silently relies on is stated as six named assumptions (`CatalogTypes`,
`SitesReplaceStock`, `SitesAligned`, `SitesInOnePage`, `GroupsCollide`, `TagDecodes`). TLC evaluates
them on the real catalogue and the archived bytes in every run of `MCCatalog`, so a new patch that
breaks one is found before it breaks a theorem.

**Patcher** has two actions, `Accept` and `Reject`, for every call; the image an accepted call returns
is the next call's input. `ForeignSpec` is the same on images that are not the vendor's.

**PatchCatalog** holds the ten real specs byte for byte, the `addi` encoder and decoder, and the two
guarded ranges. The stock bytes in `MCCatalog` come from `runtime.bin`, not from the catalogue.

**PatchShelf** is the same promise for files. A file is an image in one of the two forms that carries
patches and a tag as the ledger has them, or it is damaged. A job takes one file, adds a batch that the
ledger allows, or strips the headers, and carries the result to a path: the path is spoilt, then it has
the whole image, or the job is abandoned and it stays as it was or spoilt. No other file changes.

**TransportImage** has the formats and conversions as operators over `PAGE_COUNT` and
`PAYLOAD_PAGE_SIZE`.

**PatchSession** runs `patch` (any input file, output path, format, with or without manifest) and
`extract_payload` on a disk of image files. A run goes through its outputs in the order of `main`
(`Following`): `OpenImage` empties the file, `WritePart` and `WriteRest` get bytes out, `OpenManifest`
and `WriteManifest` follow; `Fault` ends a run between any two. Two of its assumptions carry weight:
`WholePayload`, the offsets of interest are all of the payload, and `ResetVectorTells`, the first
guarded byte is not zero. A transport image begins with the page index 0, so it is that byte which
keeps a torn transport image of a payload's size from being taken for a payload. `Label` is what
`inspect` makes of a file, and with `Labels` for the shelf and `InFlight` for the job the session is
to behave like `PatchShelf` (`ShelfSpec`). Its initial predicate and next-state relation are called
`SessionInit` and `SessionNext`, since the module is proved about beside `Patcher`.

**SymbolMap** reads the artifacts in order, each of them there or not (`Load`), makes the calls of
`add` they give rise to (`Add`), and labels the rows (`Finalize`). A name is a word and the addresses
formatted behind it, so that the suffix `finalize` appends is modelled as what it does to equality.

**FunctionMap** has one action per outcome of the two loops of `functions.py`: an instruction decoded
or a step over what does not decode, in the sweep (`SweepInsn`, `SweepGap`, `SweepEnd`) and in the walk
from each start (`WalkFrom`, `WalkInsn`, `WalkGap`, `WalkOut`, `Finish`). An instruction is its kind,
size and target; addresses count halfwords. Targets are any numbers: those of calls are compared with
the size of the payload, that of the reset jump (`ResetEntry`) is not, and may make a start outside it.
Capstone is external: it decodes what is whole and known.

**RamScan** runs two things over the same instructions. The scan has `pending`, the address the last
`auipc` put into a register, and `cache`, the rows. The machine beside it (`regs`) has what the
registers really hold. There is one action per kind of instruction the code tells apart (`ScanAuipc`,
`ScanLoad`, `ScanStore`, `ScanAddi`), one for all it does not look at (`ScanOther`), and one for whatever
interrupts a straight line (`ScanBreak`). `spoilt`, `auipcs`, `origin`, `uses` and `last` are history:
`origin` has the `auipc` that a pending base is from, and `uses` the access each `auipc` was counted for.

**StateScan** lets `map_state` read the same code: each action is an instruction as both tools see it.
`map_state` counts what goes through gp (`Tally`); `map_ramcache` takes gp for a register like any other,
so that an `auipc gp` gives the next instruction through gp a row there too. `setups` and `shared` are
history, the `auipc` that set gp and the instructions in both maps.

**TreeScan** has the tables as operators on a dispatcher's code (`handlers`, `found`, `arms`,
`resolve_decoder`), since each scan is a function of the code it reads, and the device as the state
machine: it goes through the tree with one command in `CMD_REG`, loading immediates (`Write`), comparing
(`Test`, `TestOther`), jumping and calling. What an instruction does not tell, a branch on something
else or a register after a call, goes either way. `met` is the last comparison that the command was
equal in and where it led.

**CallScan** runs three scans over the same line of instructions with one machine beside them: both
`decode_stub` (`StubImm`, `StubMove`, `StubJump`) and `collect` (`TelemetryCall`, `TelemetryMask`,
`TelemetryShift`). A register of the machine holds a constant, what another register held on entry, a
call's result, masked or not, or something unknown.

**TriggerScan** has the sweep of `find_callers` (`SweepInsn`, `SweepGap`, `SweepEnd`) and, for every call,
the window of `a0_const_before` (`WindowFrom`, `WindowInsn`, `WindowEnd`), which decodes anew from a
fixed distance before the call. `a0` and `held` are history: what the machine has in a0, where it was
set, and which addresses were decoded at, up to the call.

## 3. What is model-checked

| Run | Question | Bounds | States |
|---|---|---|---|
| `patcher_small` | Does every sequence of calls keep to the ledger (`LedgerSpec`), with every change in the bytes accounted for (`BytesExplained`) and no legal call refused (`AcceptsExactly`)? | four patches: two sites on two pages, two presets sharing one site, a version tag; all word lists of up to two ids with blanks and unknown ids, some longer; versions 0..3 of which 1 and 2 are valid; both settings of the flag | 217 |
| `patcher_foreign` | On mixed, half-patched, unknown or unsafe images, is nothing unknown overwritten (`NoBlindWrite`) and every report true (`ReportTruthful`)? | 384 start images: every mix of stock, patched and foreign bytes at the sites | 1,439 |
| `catalog` | The real catalogue: do page lists and 16-bit sums tell exactly what changed (`PagesCovered`, `ChecksumsTellPages`), and are reports true? | all ten patches, alone or in bundles, in every order; versions at both ends, the default and one that differs by 256 in its sum | 1,377 |
| `session` | After any runs, formats, extractions and faults: does the disk, seen through `inspect`, behave like the shelf (`ShelfSpec`): images grown by whole batches, or damaged, and no file touched but the output? Is a torn or doubly stripped file ever taken for an image (`OnlyWholeImages`), a manifest ever untrue of the image beside it or of the patches in it (`ManifestHonest`)? Does a run that ends well leave the form and the patches asked for (`OutputAsAsked`)? Do the conversions agree on every file left behind (`RoundTripsHere`, `OffsetsAgreeHere`, `StripAgreesHere`, `ExtractsWholeHere`)? | two files, two pages of two bytes, one one-byte patch on each page, one guarded byte | 237,446 |
| `symbols_runtime` | Does each address get the name that should win, whichever artifacts are missing (`MergedByPriority`), and each row a label of its own (`UniqueLabels`)? | the calls of the committed artifacts that meet another in address or name, and some of each artifact | 1,488 |
| `functions` | Does the inventory end (`Terminates`), stay in the payload, but for a reset target outside it (`ExtentsInImage`), and agree with itself where one walk passes another's start (`NestedEndTogether`)? Does a walk pass a start only where it could not see it (`SpansUnseenOnly`)? | every payload of four halfwords over twelve instructions, a jump and a call out of the payload among them: 12^4 | 197,436 |
| `ramcache` | Is an access counted at a wrong address only when its base was written again after the `auipc` (`OnlySpoiltGoWrong`), does a row count just as many accesses as `auipc` led to it (`SingleUse`), and do the two maps share no more than the first use of gp after an `auipc` (`MapsStayDistinct`)? | every line of six instructions over gp and one other register; a word of sixteen values, the middle half of it RAM; immediates and offsets on either side of zero | 3,446,130 |
| `triggers` | Does every call get a row, whatever the payload (`EveryCallHasARow`), and, where the window is in step and only `li` and `mv` set a0, the right one (`RowsExactInStep`)? Do windows stay in the payload (`TypeOK`)? | every payload of five halfwords that ends in a call, over nine instructions; a window of three halfwords | 76,732 |
| `triggers_held` | The description: a computed trigger is not reported as a constant | as `triggers` | violated |
| `trees` | Does a row lead where the device takes its command or frame (`HandlersTold`, `ArmsTold`), is the value listed the one compared (`ListingMeant`), and is the decoder named one that is reached (`DecoderReached`)? | 19,440 dispatchers of two comparisons with what may stand between a load and its comparison, and five endings, trampolines among them; every command they name | 368,030 |
| `trees_handlers` | The description: the branch target of a comparison is the command's handler | the part of the runtime's dispatcher from 0xbdea to 0xbe9c | violated |
| `calls` | Are the arguments reported those the worker is given (`WorkersTold`), is a field the masked result of the call named (`FieldsMeant`), and does a mask make one field at most (`FieldPerMask`)? | every line of six instructions over a0 and a5, two routines, two masks of low bits and one that is not | 857,298 |

*Are the bounds enough?* In `patcher_small` every pair of patches meets in every order, a patch of two
sites can be half there in a foreign image, and the one parameter has two valid values and one invalid
on either side; the theorems below remove the bound altogether. In `session` a torn transport image can
have the size of a payload, the case that matters, and two patches are enough to find an older one lost
by a later run. Four halfwords give the walk room for a start inside another extent, a gap, and an
instruction that spans a start. In `symbols_runtime` every kind of clash the committed files contain is
present: one address from two artifacts, forced and not, and one name at two addresses. Six instructions
let one base be set, overwritten, used and used again while the other register is in the same position,
and let an argument be set, copied, overwritten and passed behind an earlier jump; five halfwords let a
window of three begin at the payload's first byte, at an instruction and inside one. Two comparisons are
the least in which one shadows another, a branch passes a load, and a load serves two comparisons. For
`functions`, `triggers`, `ramcache`, `trees`, `calls` and `session` the theorems do away with the
bounds, except where section 4 says otherwise.

In `catalog` a set of patches alone on their pages goes in together, because their order cannot matter
to a page sum; all that share a page, a site or a parameter are applied one by one. The ledger itself
is not checked there, as reading ten patches out of the real bytes at every step is slow; it is proved.

*Fairness.* `FunctionMap` and `TriggerScan` have a liveness property each. Both assume weak fairness
of their next step, that is, that a sequential program with work left goes on; there is no other
process to wait for. The other properties are safety: nothing in the code says a user of the patcher
comes back, and the other scans are loops over a finite list. `CHECK_DEADLOCK FALSE` is set for the
scanners and the inventory, whose behaviours end with the code they read or the device leaving it.

*Faulty variants.* Each property of a passing run is accompanied by a plausible bug of the code it
fails for (operators commented "A faulty variant" beside the definition they replace), among them:
comparing the first byte of a site only, taking `--allow-already-applied` as leave to overwrite, sites
of the default version in `apply_patches`, an 8-bit page sum, the page of a transport offset, pages
numbered from one, the manifest written first, a force that respects good names, labels compared with
the previous row only, a first target taken for a start whatever stands there, a sweep that stays at an
undecodable end, a walk that compares an instruction's
own address with the starts, a base without the linked address or not cut to the word, a base that
survives its use or an `addi` into another register, a register move that does not reset a constant, a
comparison that overwrites an earlier row, a bne taken for a beq, a search that ends at the last jump
instead of the first, a stub that reads on behind a call, and a mask kept for the next shift.

## 4. What is proved

All theorems are checked by TLAPS and hold for every value of the constants that satisfies the named
assumptions.

**PatcherProofs**, for every catalogue. The code's comparisons are local to a site, the promises are
about whole patches, so the properties are not inductive. The invariant is `Sound`: the image is a row
of bytes; a byte differs from the vendor's only under some site in its patched state (`Explained`); and
a spec has all its sites in that state or none (`Whole`). `Whole` is what makes the site-by-site
leniency of `--allow-already-applied` harmless, and `Explained` what lets "not the vendor's bytes" be
read as "a rival patch is there". The step is one fact, `OnAfter`: after an accepted call the sites in
their patched state are those that were and those of the batch. The first half of the module has these
facts about one call, which `SessionProofs` uses as well. From them follow `TypeCorrect`,
`ChangesAreExplained`, `VerificationIsExact` (the byte checks accept exactly the ledger's legal calls),
and `RefinesLedger` (initial states and every step map to the ledger). `NothingUnknownOverwritten` and
`ReportsAreTrue` are proved of `ForeignSpec`, where `Sound` need not hold; `EveryChangedPageReported`
uses `SitesInOnePage`.

**SessionProofs**, for every catalogue, any set of files, and every geometry up to 65536 pages. It
begins with facts about the formats alone: conversion loses nothing, the printed offset is right,
extraction agrees with unwrapping, and extraction makes something of a payload's size only from a whole
image. They rest on lemmas about division. The invariant `SessionInv` says of every file (`DiskSound`)
that at a transport image's size it is whole and carries a sound payload, that at a payload's size it is
a sound payload or begins with a zero, and that between the two sizes it begins with a zero; that the
run in progress holds the bytes of such a file, which for `patch` are the image its summary tells of
(`RunHolds`); that no manifest vouches for an image still being written, and that the manifest follows a
complete one (`RunAtDisk`); and `ManifestHonest` itself. The zero is the interesting case: a transport
image torn at a payload's size begins with the index of page 0, and `ResetVectorTells` gives it away.
All eight properties of the run `session` follow for every disk and every sequence of runs and faults;
`OutputIsAsAsked` is that a run leaves the form asked for with the patches that were there and those of
the call. `FilesAreBytes` is the typing of the disk. `RefinesShelf` maps every step to one of `PatchShelf` or to none: a run that is accepted is
a batch the ledger takes (`ShelfTakes`, from the exactness of the byte checks that `PatcherProofs` has),
an extraction strips an image or makes something that is none (`ShelfStrips`); opening the output and
each part of a write spoil it, since no prefix of what is being written is usable (`PrefixHeld`,
`EmptyHeld`); the last write delivers, and a fault abandons. The writing of the manifest, refusals and a
fault behind the image are steps in which the shelf rests.

**SymbolMapProofs**, for all artifacts, whichever are missing. `TableIsMergedByPriority` is inductive
with the typing of the queue. `LabelsAreUnique` needs it: names in the table are names that were
given, and `NamesStandAlone` (no given name is another with an address appended) is then enough. The
code does not check that assumption; `finalize` would give two rows one label without it.

**FunctionMapProofs**, for payloads of any size and targets anywhere: calls are between addresses of the
payload (`AddressesInPayload`), and extents lie in it (`ExtentsLieInPayload`). The one start that may lie
outside is the reset jump's target; its walk ends where it begins, with nothing decoded, and it is
recorded as ending with the payload. The invariant adds where the walk under way is, and that nothing is recorded before
the starts are known. `NestedFunctionsEndTogether` and `StartsAreSpannedUnseen` are about two walks, and
need the whole path of each: `PathInv` says that what is recorded of a function is a path from its start
on which every instruction is followed by the next one that decodes, until one that ends the walk or the
end of the payload (`Whole`), and that the walk under way is the beginning of such a path (`Trail`). Two
paths that meet in an instruction agree from there on, because what ends a walk behind both starts does
not depend on the start; the least instruction that one has and the other lacks, and the last one they
share, give the two halves of the argument. `EveryStepIsCounted` is what can be said here of
termination: `StepsLeft`, counted from the place of the sweep, and behind it from the starts not yet
measured and the place of the walk, falls with every step, from at most (N + 1) * (N + 2) + 2 + N: a walk for each address and one for a start
outside. So no
payload keeps either loop busy for ever; that a step is possible until the inventory is done needs
ENABLED, and is what `Terminates` adds in TLC.

**TriggerScanProofs**, for payloads and windows of any size. The sweep and a window decode the same
bytes from two places, and the property relates the two. `Chain` says of the addresses the sweep has
decoded at since the last gap that each instruction ends where the next one begins, the last of them in
front of the call. A window that begins on such a path therefore stays on it (`ScanOnPath`), through
every instruction up to the call. `Sound` says that the machine's a0 is the value of the last move on
the path, where nothing but moves sets it, and `Found` that the constant remembered by the window is that
of the last move passed. At the call the two are the same move (`FoundIsHeld`), which is
`RowsAreExactInStep`. `WindowsLieInFront` is the typing of this, and `EveryWindowIsCounted` the bound on
the steps, as for the inventory.

**RamScanProofs**, for any registers, immediates, word and length of code: rows are addresses in RAM
(`RowsAreInRam`), and a wrong address goes back to an overwritten base (`CountedWhereUsed`). The
invariant adds `BasesHeld`: a register that has a pending base and was not written since holds that
base, in the machine. It is what the scan relies on, and it is only true of those registers.
`EachAuipcCountsOnce` is about a sum, and is proved without induction over
sets by counting what adds to it: `Accounted` says that a base still pending is from an `auipc` that has
no access yet, and from another one than every other pending base, so that each access counted puts
exactly one new `auipc` into the set whose cardinality the row has. `TwoMapsStayDistinct` is about both tools: as
long as gp has no base, an instruction through gp is no row of `map_ramcache`; the use that puts one
instruction into both maps takes the base away (`OnlyThroughGp`, `ShareHolds`), and only another `auipc`
brings one back, which then stands between two shared instructions.

**TreeScanProofs**, for every dispatcher and every command: `RowsLeadWhereCommandsGo`,
`ArmsLeadWhereFramesGo`, `ListedValuesAreCompared` and `DecodersAreReached`. The common invariant,
`LoadsHeld`, is about straight lines: a register that was loaded since the last jump holds the immediate
of its last load, unless an instruction since then clobbered it, and then the machine knows nothing of
it. The history variable `run` makes "since the last jump" a fact about the state. The decoder has an
invariant of its own, `ArmInv`: behind an arm the device has gone straight on to a first stop, and from
there to a second, which are the stops that `resolve_decoder` searches for.

**CallScanProofs**, for every line of code: `WorkersAreTold`, `FieldsHoldResults` and
`NoMaskMakesTwoFields`. The invariant says what `args`, `copies`, `last_call` and `pending_mask` have to
do with the registers, for those registers that no unread instruction wrote (`unread`, `uncopied`,
`a0since`).

Only model-checked: `ChecksumsTellPages`, a fact about the bytes of this catalogue, and `Terminates` and
`EveryCallHasARow`, since liveness under fairness is outside what the prover does; that the steps are
bounded is proved of both. The two runs that expect a violation have nothing to prove. Every invariant,
action property and refinement of the other runs is stated by a theorem.

## 5. Where the code and its descriptions differ

Two disagreements are the subject of a run; each also shows in the committed artifacts.

* `map_rule_triggers.py:11-13` says computed triggers are marked as such. Only `li` and `mv` count as
  setting a0. The call 0x27e2 is reported with 0x0 although `sltu a0,zero,a0` and `addi a0,a0,0x60`
  stand between the `li` and the call, and 0x2c28 with 0x1 although that `li` belongs to code before a
  jump. `FIRMWARE_INTERNALS.md:314-317` lists both values as event codes. (`triggers_held`)
* `gen_analysis.py:178-179` says a `beq` leads to the command's handler, and the table has one row to a
  command, that of its first comparison. A value can be compared twice: 0xa1 at 0xbe0e, which leads to
  the authorisation at 0xbe7c that several settings commands share and that comes back to the tree, and
  again at 0xbe2e, which leads to 0xc510. `command_dispatch.json` and `FIRMWARE_INTERNALS.md:131` have
  0xbe7c. `HandlersTold` states what does hold: the row is that of the comparison met or of an earlier
  one. (`trees_handlers`)

Seen while reading and not the subject of a run. In the patch tools and the inventory:

* `gen_symbols.py:69` says the first writer with a good name wins; a forced call replaces a good name.
  In the boot table `write_page_handler` (line 252) takes 0x121c from `update_dispatch` (line 249),
  although the module's description (line 25) lists the update dispatcher. `MergedByPriority` states
  the rule the code follows.
* `functions.py:81` says a walk ends when it runs into the next known function start; an instruction
  that spans the start, or a gap before it, makes the walk go on. The committed `functions.json` has
  a function at 0x112f4 that ends at 0x113d6, behind the starts 0x11328 and 0x11340.
  `SpansUnseenOnly` states that there is no other way to pass one.
* `FIRMWARE_INTERNALS.md:501` says direct callees are recorded per function; the walk ends at the first
  `j`, also one within the body, and calls behind it are only in the other direction of the graph.
* `functions.py:65` compares a call's target with the size of the payload; the target of the reset jump
  (lines 119-126) is added to the starts as it is. Outside the payload it would be recorded as a function
  that ends with the payload, of a size below zero. The archived images jump inside. `ExtentsInImage`
  states what is recorded then, and that there is no other such function.
* Prologues are collected as `functions.py:5-8` describes but never become starts; an `mret` does not
  end a walk, because the test inside line 101 asks for `ret` or `ra` again.

In the scanners:

* `map_rule_triggers.py:11-13` says a constant is recovered. The window begins 0x28 bytes before the
  call, possibly inside an instruction; when that halfword does not decode, nothing behind it is seen.
  The calls 0x27ea (`li a0,0x6d`) and 0x3712 (`li a0,0x2c`) are reported as computed.
* `map_ramcache.py:9-10` says the absolute target is resolved. After `addi r,r,lo` the base is still that
  of the `auipc`: `auipc a5` at 0x2426, `addi a5,a5,-1334` and `lbu a0,3(a5)` are counted at 0x2000c429
  instead of 0x2000bef3. The comment at line 120 says the base is kept; lines 124-125 drop it when the
  destination is another register. `OnlySpoiltGoWrong` has the rewritten bases in its premise.
* `map_ramcache.py:3` calls its memory distinct from the state block. The reset code's `auipc gp` at 0xf89a
  gives gp the base 0x2000389a; `addi gp,gp,1894` makes a row for 0x20004000, gp itself, and leaves the
  base as it is, so that `addi a2,gp,0xa8` at 0xf8b6 makes one for 0x20003942, an address that nothing
  accesses, and is in `state_block.json` too, as offset 0xa8. `MapsStayDistinct` states that it goes no
  further than the first such use.
* `map_state.py` marks a field mutable when gp itself is the base of a store. Many fields of
  `state_block.json` marked otherwise are written through an address taken. Others are not marked and
  have no address taken either: 0x2a and 0x4a are filled by the startup code that copies `.data`, and
  0xbe to 0xc6 lie in what it clears (`FIRMWARE_INTERNALS.md:75-76`). Nothing in the tool follows an
  address, and no property here relates its rows to such writes. The row 0x766 comes from data that was
  decoded.
* `command_dispatch.json` has 0xc08c for 0xd2 (`FIRMWARE_INTERNALS.md:150` and `:477`); a second
  comparison at 0xc0e2 leads to 0xc060.
* `map_can.py:82-83` has one immediate for all registers. A `c.li a1` between the load and the comparison
  of 0x266 and of 0x2e5 replaces it, and both are missing in `can_map.json`, although `CAN_ID_LABEL`
  names them. The premise of `ArmsTold` has this case. `DISPATCH_END` cuts the tree short of further ids
  (0x3b3, 0x3b6, 0x3c2 among them).
* `map_can.py:113` takes the first `jal` in the window for the tail call: 0x229 is given the decoder
  0x4b82, a routine its arm calls before the tail call to 0x4b9e, and 0x334 is given 0x8504 instead of
  0x7574. `DecoderReached` is about arms without calls.
* In `telemetry.json` the row with its merge at 0xb4ea has the shift 2, from a shift of
  another value; the field was shifted by 1 at 0xb4d0. `FieldsMeant` is about shifts of a0 itself.
* `action_table.json` has 70 in a0 for the actions 66 to 69 and 90 for 85 to 89: their stubs (0xd6d4,
  0xd7e2) compute a0 by an instruction that `decode_stub` does not read. These are the registers that
  `WorkersTold` exempts.

## 6. What is left out

* Titles, rationales, assembly texts and printing of the patcher; `export-catalog`, whose output no
  tool reads; argument parsing.
* Errors of reading, which leave the disk alone as a refused call does.
* In `PatchSession` reading the input and computing the output are one step: they touch no file, and
  no second process is running. A fault is a killed process or a full disk: what was written stays in its
  order. The tools do not ask for their bytes to reach the medium, and after a power cut the order may be
  another, of which nothing is said here.
* In `SymbolMap` the field names of each artifact and `write_outputs`, which prints the rows.
* In `FunctionMap` the decoder, the prologue set, the printing commands and the callers table, a lookup
  of the nearest start at or before each call.
* In `RamScan` and `StateScan` access widths, the machine's memory, the length of instructions (each is
  one address on, since the properties compare bases and not distances), `scan_getters` and the JSON
  output; in `TriggerScan` the attribution to a CAN decoder (`owner`).
* The machines of `TriggerScan`, `RamScan` and `CallScan` follow a straight line: a conditional branch is
  one of the instructions that write nothing, and code that is also reached from a branch elsewhere is
  outside their claims. An `addi` of zero is printed as `mv`, which `map_ramcache` does not look at, and is
  one of the other instructions there.
* In `TreeScan` the length of instructions, marks for duplicates and for targets outside the image, the
  labels; in `CallScan` the jump table, a row of fixed offsets, the shift amount, which is copied from
  the instruction, and the grouping of rows for print.
* The constants that `gen_analysis.py` and `gen_boot_analysis.py` write down, which were found by hand
  and have no behaviour. `resolve_constants` is compared with fixed values by `assert_landmarks`, so
  that a misreading ends the program. `disasm.py` and `analyze.py` print windows for a reader.
* The other parts marked not modelled in section 1.

## 7. Plan

Done, in this order: `PatchRules`, `Patcher`, `PatchLedger`, `PatcherProofs`; `PatchCatalog`;
`TransportImage`; `PatchSession`; `SymbolMap` and its proofs; `FunctionMap` and its first proofs;
`TriggerScan`; `RamScan` and its proofs; `TreeScan`, `StateScan` and `CallScan` with theirs; the proofs
of `PatchSession`; `PatchShelf` and its refinement; the proofs of `TriggerScan`; the bounds on steps.

Next:

1. The order in which artifacts are regenerated, with missing and older files, composed with `SymbolMap`
   and with the readers of `can_map.json` and `functions.json`; its run would take over the questions of
   `symbols_runtime`.
2. The `addi` encoder and decoder of the catalogue as inverses for every immediate of twelve bits, which
   would derive `TagDecodes` for the real tag instead of evaluating it version by version.
