----------------------------- MODULE TriggerScan -----------------------------
(***************************************************************************)
(* tools/map_rule_triggers.py: where the firmware calls its rule engine,   *)
(* and the constant each call passes in a0.  A sweep over the payload      *)
(* finds the calls; for each of them a window in front of it is decoded    *)
(* anew, from wherever the window begins, for the last instruction that    *)
(* puts a constant or a register into a0.  Addresses count halfwords; the  *)
(* second halfword of an instruction of two may decode as anything.        *)
(***************************************************************************)
EXTENDS Integers, FiniteSets, FiniteSetsExt

CONSTANTS
  N,            \* the halfwords of the payload
  BACK_WINDOW,  \* the halfwords looked at in front of a call
  Codes,        \* the payloads: address -> [kind, size, imm]
  None          \* no constant: the trigger is computed

Address == 0..(N - 1)

\* What an instruction does to a0: "li" puts a constant there and "mv" a register;
\* "write" stands for any other instruction that sets a0, calls of other functions
\* included; "jump" leaves the straight line, and what follows is reached from
\* elsewhere.
Kind == {"call", "li", "mv", "write", "jump", "other", "bad"}

ASSUME CodeTypes ==
  /\ N \in Nat \ {0} /\ BACK_WINDOW \in Nat
  /\ Codes \subseteq [Address -> [kind : Kind, size : {1, 2}, imm : Nat]]
  /\ None \notin Nat

VARIABLES
  code,         \* the payload
  phase,        \* "sweep", then "window", then "done"
  pos,          \* where the sweep is
  sites,        \* the calls it found
  scan,         \* the window being decoded
  rows,         \* site -> the constant found, or None
  a0,           \* history: what a0 holds where the sweep is
  held          \* history: site -> what a0 held there

vars == <<code, phase, pos, sites, scan, rows, a0, held>>

----------------------------------------------------------------------------

\* Capstone decodes an instruction only when all of it is in the bytes it is given.
Decodes(a, end) == a < end /\ code[a].kind # "bad" /\ a + code[a].size <= end

\* a0 on entry to a stretch of code: it comes from a caller.
Entry == [value |-> None, set |-> -1, path |-> {}]

\* What the machine makes of a0, where it was set, and the addresses the sweep has
\* decoded at since the last gap.
Executed(a) ==
  LET path == a0.path \cup {a}
  IN  CASE code[a].kind = "li" -> [value |-> code[a].imm, set |-> a, path |-> path]
        [] code[a].kind \in {"mv", "write", "call"} ->
             [value |-> None, set |-> a, path |-> path]
        [] code[a].kind = "jump" -> [Entry EXCEPT !.path = path]
        [] OTHER -> [a0 EXCEPT !.path = path]

NoScan == [site |-> N]

Init ==
  /\ code \in Codes
  /\ phase = "sweep" /\ pos = 0
  /\ sites = {} /\ scan = NoScan
  /\ rows = [s \in {} |-> None]
  /\ a0 = Entry /\ held = [s \in {} |-> Entry]

(***************************************************************************)
(* find_callers.                                                           *)
(***************************************************************************)
SweepInsn ==
  /\ phase = "sweep" /\ Decodes(pos, N)
  /\ pos' = pos + code[pos].size
  /\ a0' = Executed(pos)
  /\ IF code[pos].kind = "call"
     THEN /\ sites' = sites \cup {pos}
          /\ held' = [s \in sites' |-> IF s = pos THEN a0 ELSE held[s]]
     ELSE UNCHANGED <<sites, held>>
  /\ UNCHANGED <<code, phase, scan, rows>>

\* A faulty variant: the sweep starts again where it stopped.
StuckInGap ==
  /\ phase = "sweep" /\ pos < N /\ ~Decodes(pos, N)
  /\ a0' = Entry
  /\ UNCHANGED <<code, phase, pos, sites, scan, rows, held>>

SweepGap ==
  /\ phase = "sweep" /\ pos < N /\ ~Decodes(pos, N)
  /\ pos' = pos + 1
  /\ a0' = Entry
  /\ UNCHANGED <<code, phase, sites, scan, rows, held>>

SweepEnd ==
  /\ phase = "sweep" /\ pos >= N
  /\ phase' = "window"
  /\ UNCHANGED <<code, pos, sites, scan, rows, a0, held>>

(***************************************************************************)
(* a0_const_before, for one site after the other.                          *)
(***************************************************************************)
\* A faulty variant: a slice that starts below zero is counted from the end.
UnboundedStart(site) == (site - BACK_WINDOW) % N

WindowStart(site) == Max({0, site - BACK_WINDOW})

WindowFrom ==
  /\ phase = "window" /\ scan = NoScan /\ sites # DOMAIN rows
  /\ LET s == Min(sites \ DOMAIN rows)
     IN  scan' = [site |-> s, addr |-> WindowStart(s), last |-> None]
  /\ UNCHANGED <<code, phase, pos, sites, rows, a0, held>>

\* The bytes given to Capstone end with the first halfword of the call.
InWindow == scan.addr < scan.site /\ Decodes(scan.addr, scan.site + 1)

\* A faulty variant: a register moved into a0 does not count.
ConstantsOnly(a, last) == IF code[a].kind = "li" THEN code[a].imm ELSE last

LastSet(a, last) ==
  CASE code[a].kind = "li" -> code[a].imm
    [] code[a].kind = "mv" -> None
    [] OTHER -> last

WindowInsn ==
  /\ phase = "window" /\ scan # NoScan /\ InWindow
  /\ scan' = [scan EXCEPT !.addr = @ + code[@].size, !.last = LastSet(scan.addr, @)]
  /\ UNCHANGED <<code, phase, pos, sites, rows, a0, held>>

\* The window ends at the site, or at the first bytes that do not decode.
WindowEnd ==
  /\ phase = "window" /\ scan # NoScan /\ ~InWindow
  /\ rows' = [s \in DOMAIN rows \cup {scan.site} |->
               IF s = scan.site THEN scan.last ELSE rows[s]]
  /\ scan' = NoScan
  /\ UNCHANGED <<code, phase, pos, sites, a0, held>>

Finish ==
  /\ phase = "window" /\ scan = NoScan /\ sites = DOMAIN rows
  /\ phase' = "done"
  /\ UNCHANGED <<code, pos, sites, scan, rows, a0, held>>

Next ==
  \/ SweepInsn \/ SweepGap \/ SweepEnd
  \/ WindowFrom \/ WindowInsn \/ WindowEnd \/ Finish

\* One sequential program, which goes on as long as it can.
Spec == Init /\ [][Next]_vars /\ WF_vars(Next)

----------------------------------------------------------------------------

\* The window of s begins at an instruction, not inside one.
InStep(s) == WindowStart(s) \in held[s].path

\* a0 was last set inside the window of s.
SetInWindow(s) == held[s].set >= WindowStart(s)

\* Nothing but li and mv sets a0 in the window of s.
OnlyMoves(s) ==
  \A a \in held[s].path : a >= WindowStart(s) => code[a].kind \in {"li", "mv", "other"}

TypeOK ==
  /\ phase \in {"sweep", "window", "done"}
  /\ pos \in 0..N
  /\ DOMAIN held = sites /\ DOMAIN rows \subseteq sites
  /\ scan # NoScan => scan.addr \in 0..(scan.site + 1)

\* Where the window begins in step with the code and a0 is set by the instructions
\* the tool knows, the row says what the call passes: the constant if the last of
\* them put one there, and otherwise that there is none.
RowsExactInStep ==
  \A s \in DOMAIN rows : InStep(s) /\ OnlyMoves(s) =>
    rows[s] = IF SetInWindow(s) THEN held[s].value ELSE None

\* Whatever the payload, every call gets its row.
EveryCallHasARow == <>(phase = "done" /\ DOMAIN rows = sites)

\* What the module's description says: a trigger that is computed is marked so, and
\* not reported as a constant. It fails even where the window is in step.
ConstantsAreHeld ==
  \A s \in DOMAIN rows : InStep(s) /\ rows[s] # None => held[s].value = rows[s]

=============================================================================
