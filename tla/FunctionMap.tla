----------------------------- MODULE FunctionMap -----------------------------
(***************************************************************************)
(* tools/functions.py: the inventory of functions of a payload.  One sweep *)
(* over the payload collects the direct calls; their targets and that of   *)
(* the reset jump are the starts; a walk from every start finds where the  *)
(* function ends and whom it calls.  Addresses count halfwords, the unit   *)
(* in which both loops step over what does not decode.  What stands at an  *)
(* address does not depend on its neighbours: an instruction of two        *)
(* halfwords may hold anything in its second one.                          *)
(***************************************************************************)
EXTENDS Integers, FiniteSets, FiniteSetsExt

CONSTANTS
  N,            \* the halfwords of the payload
  Codes         \* the payloads: address -> [kind, size, target]

Address == 0..(N - 1)
Kind == {"call", "jump", "ret", "other", "bad"}

ASSUME CodeTypes ==
  /\ N \in Nat \ {0}
  /\ Codes \subseteq [Address -> [kind : Kind, size : {1, 2}, target : Nat]]

VARIABLES
  code,         \* the payload
  phase,        \* "sweep", then "walk", then "done"
  pos,          \* where the sweep is
  calls,        \* the direct calls it found: <<from, to>>
  starts,       \* the known function starts
  walk,         \* the function being measured
  funcs         \* start -> what is recorded of the function

vars == <<code, phase, pos, calls, starts, walk, funcs>>

----------------------------------------------------------------------------

\* Capstone decodes an instruction only when all of it is there.
Decodes(a) == a \in Address /\ code[a].kind # "bad" /\ a + code[a].size <= N

NoWalk == [start |-> N]

Init ==
  /\ code \in Codes
  /\ phase = "sweep" /\ pos = 0
  /\ calls = {} /\ starts = {}
  /\ walk = NoWalk
  /\ funcs = [s \in {} |-> NoWalk]

(***************************************************************************)
(* all_direct_calls.                                                       *)
(***************************************************************************)

\* A faulty variant: the target is not compared with the size of the payload.
AnyCallAt(a) == IF code[a].kind = "call" THEN {<<a, code[a].target>>} ELSE {}

CallAt(a) ==
  IF code[a].kind = "call" /\ code[a].target < N THEN {<<a, code[a].target>>} ELSE {}

SweepInsn ==
  /\ phase = "sweep" /\ Decodes(pos)
  /\ calls' = calls \cup CallAt(pos)
  /\ pos' = pos + code[pos].size
  /\ UNCHANGED <<code, phase, starts, walk, funcs>>

\* A faulty variant: a gap at the end of the payload is not stepped over.
StuckAtEnd ==
  /\ phase = "sweep" /\ pos < N /\ ~Decodes(pos)
  /\ pos' = IF pos = N - 1 THEN pos ELSE pos + 1
  /\ UNCHANGED <<code, phase, calls, starts, walk, funcs>>

SweepGap ==
  /\ phase = "sweep" /\ pos < N /\ ~Decodes(pos)
  /\ pos' = pos + 1
  /\ UNCHANGED <<code, phase, calls, starts, walk, funcs>>

\* A faulty variant: whatever the first instruction is.
FirstTarget == IF Decodes(0) THEN {code[0].target} ELSE {}

\* The first instruction, when it is a jump.  Its target is taken as it is: it may lie
\* outside the payload.
ResetEntry == IF Decodes(0) /\ code[0].kind = "jump" THEN {code[0].target} ELSE {}

SweepEnd ==
  /\ phase = "sweep" /\ pos >= N
  /\ phase' = "walk"
  /\ starts' = {c[2] : c \in calls} \cup ResetEntry
  /\ UNCHANGED <<code, pos, calls, walk, funcs>>

(***************************************************************************)
(* build and function_extent, for one start after the other.               *)
(***************************************************************************)

WalkFrom ==
  /\ phase = "walk" /\ walk = NoWalk /\ starts # DOMAIN funcs
  /\ LET s == Min(starts \ DOMAIN funcs)
     IN  walk' = [start |-> s, addr |-> s, last |-> s, callees |-> {}, passed |-> {}]
  /\ UNCHANGED <<code, phase, pos, calls, starts, funcs>>

\* A faulty variant: a function does not count itself among its callees.
RecordOthers(end, callees, passed) ==
  /\ funcs' = [s \in DOMAIN funcs \cup {walk.start} |->
                IF s = walk.start
                THEN [end |-> end, callees |-> (callees \cap starts) \ {s}, passed |-> passed]
                ELSE funcs[s]]
  /\ walk' = NoWalk

\* `passed`, the addresses the walk decoded at, is history: the code keeps none.
Record(end, callees, passed) ==
  /\ funcs' = [s \in DOMAIN funcs \cup {walk.start} |->
                IF s = walk.start
                THEN [end |-> end, callees |-> callees \cap starts, passed |-> passed]
                ELSE funcs[s]]
  /\ walk' = NoWalk

\* A faulty variant: where the instruction begins, not where it ends.
BeganAt(next) == walk.addr \in starts /\ walk.addr # walk.start

\* The walk has run into the next function.
RunsInto(next) == next \in starts /\ next # walk.start

WalkInsn ==
  /\ phase = "walk" /\ walk # NoWalk /\ Decodes(walk.addr)
  /\ LET insn    == code[walk.addr]
         next    == walk.addr + insn.size
         callees == walk.callees \cup (IF insn.kind = "call" THEN {insn.target} ELSE {})
         passed  == walk.passed \cup {walk.addr}
     IN  IF insn.kind \in {"ret", "jump"} \/ RunsInto(next)
         THEN Record(next, callees, passed)
         ELSE /\ walk' = [walk EXCEPT !.addr = next, !.last = next, !.callees = callees,
                                      !.passed = passed]
              /\ UNCHANGED funcs
  /\ UNCHANGED <<code, phase, pos, calls, starts>>

WalkGap ==
  /\ phase = "walk" /\ walk # NoWalk /\ walk.addr < N /\ ~Decodes(walk.addr)
  /\ walk' = [walk EXCEPT !.addr = @ + 1]
  /\ UNCHANGED <<code, phase, pos, calls, starts, funcs>>

WalkOut ==
  /\ phase = "walk" /\ walk # NoWalk /\ walk.addr >= N
  /\ Record(Min({walk.last, N}), walk.callees, walk.passed)
  /\ UNCHANGED <<code, phase, pos, calls, starts>>

Finish ==
  /\ phase = "walk" /\ walk = NoWalk /\ starts = DOMAIN funcs
  /\ phase' = "done"
  /\ UNCHANGED <<code, pos, calls, starts, walk, funcs>>

Next ==
  \/ SweepInsn \/ SweepGap \/ SweepEnd
  \/ WalkFrom \/ WalkInsn \/ WalkGap \/ WalkOut \/ Finish

\* The tool is one sequential program: it goes on as long as it can.
Spec == Init /\ [][Next]_vars /\ WF_vars(Next)

----------------------------------------------------------------------------

\* Addresses stay in the payload: no call makes a start outside, only the reset jump can.
TypeOK ==
  /\ phase \in {"sweep", "walk", "done"}
  /\ pos \in 0..N
  /\ calls \subseteq Address \X Address
  /\ \A s \in starts \ Address : code[0].kind = "jump" /\ s = code[0].target
  /\ DOMAIN funcs \subseteq starts

\* Whatever the payload, the inventory is finished: neither loop stays where
\* nothing decodes.
Terminates == <>(phase = "done")

\* Every function recorded ends in the payload, and no earlier than it starts.  The only
\* one that may start outside is the target of the reset jump: it is recorded as ending
\* with the payload, so with a size of zero or below, and as calling nobody.
ExtentsInImage ==
  \A s \in DOMAIN funcs :
    \/ s \in Address /\ s <= funcs[s].end /\ funcs[s].end <= N
    \/ /\ s \notin Address /\ code[0].kind = "jump" /\ s = code[0].target
       /\ funcs[s].end = N /\ funcs[s].callees = {}

\* A function whose walk goes on through another one ends where that one ends and
\* calls whom it calls: extents that meet in step are nested.
NestedEndTogether ==
  \A s, t \in DOMAIN funcs : t \in funcs[s].passed =>
    funcs[t].end = funcs[s].end /\ funcs[t].callees \subseteq funcs[s].callees

\* What is left of function_extent's description, that a walk ends when it runs into
\* the next known start: no start that an extent spans is where an instruction of the
\* walk ended.  The walk came by it inside an instruction or over a gap.
SpansUnseenOnly ==
  \A s \in DOMAIN funcs, t \in starts :
    s < t /\ t < funcs[s].end => \A a \in funcs[s].passed : a + code[a].size # t

=============================================================================
