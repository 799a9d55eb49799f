------------------------------ MODULE SymbolMap ------------------------------
(***************************************************************************)
(* tools/gen_symbols.py: the landmarks of every analysis artifact merged   *)
(* into one table of symbols.  An artifact that is not on disk is passed   *)
(* over.  What an artifact contributes is a sequence of calls of add; they *)
(* all go into one table keyed by address, which finalize turns into rows  *)
(* with unique labels.  A name is a word and the addresses formatted       *)
(* behind it, as in sub_28e or in what finalize makes of a name two        *)
(* addresses share.                                                        *)
(***************************************************************************)
EXTENDS Integers, Sequences

CONSTANTS
  Call,         \* the calls of add: [addr, name, kind, force]
  Artifacts,    \* the calls each artifact gives rise to, in the order read
  None          \* what parse_addr returns for an address it cannot read

Generic(name) == name.word = "sub"
Suffixed(name, a) == [name EXCEPT !.tail = Append(@, a)]

\* What the code does not check.  It forces landmark names only, and no name it
\* makes up is another with an address appended.
ASSUME CallTypes ==
  /\ Artifacts \in Seq(Seq(Call))
  /\ None \notin Int
  /\ \A c \in Call :
       /\ c.addr \in Int \cup {None}
       /\ c.name \in [word : STRING, tail : Seq(Int)]
       /\ c.force \in BOOLEAN
       /\ c.force => ~Generic(c.name)

ASSUME NamesStandAlone ==
  \A c, d \in Call : d.addr # None => c.name # Suffixed(d.name, d.addr)

VARIABLES
  read,         \* the number of artifacts looked for
  calls,        \* the calls of add that the artifacts read so far give rise to
  done,         \* the number of them made
  syms,         \* address -> entry
  rows          \* what finalize returned: address -> row

vars == <<read, calls, done, syms, rows>>

----------------------------------------------------------------------------

Init ==
  /\ read = 0 /\ calls = <<>> /\ done = 0
  /\ syms = [a \in {} |-> None]
  /\ rows = [a \in {} |-> None]

\* load: the next artifact, if it is there.
Load ==
  /\ done = Len(calls) /\ read < Len(Artifacts)
  /\ read' = read + 1
  /\ \E present \in BOOLEAN : calls' = IF present THEN calls \o Artifacts[read + 1] ELSE calls
  /\ UNCHANGED <<done, syms, rows>>

\* A faulty variant: force replaces generic names only.
Polite(c) ==
  c.addr = None \/ (c.addr \in DOMAIN syms /\ ~Generic(syms[c.addr].name))

\* The calls of add that leave the table as it is.
Ignored(c) ==
  \/ c.addr = None
  \/ /\ c.addr \in DOMAIN syms /\ ~c.force
     /\ ~(Generic(syms[c.addr].name) /\ ~Generic(c.name))

Entry(c) == [name |-> c.name, kind |-> c.kind]

Add ==
  /\ done < Len(calls)
  /\ done' = done + 1
  /\ LET c == calls[done + 1]
     IN  syms' = IF Ignored(c) THEN syms
                 ELSE [a \in DOMAIN syms \cup {c.addr} |->
                        IF a = c.addr THEN Entry(c) ELSE syms[a]]
  /\ UNCHANGED <<read, calls, rows>>

\* A faulty variant: only the row before is compared.
TakenByNeighbour(a) ==
  \E b \in DOMAIN syms : /\ b < a /\ syms[b].name = syms[a].name
                         /\ \A x \in DOMAIN syms : ~(b < x /\ x < a)

\* In the order of addresses, a row whose name an earlier one has.
Taken(a) == \E b \in DOMAIN syms : b < a /\ syms[b].name = syms[a].name

Label(a) == IF Taken(a) THEN Suffixed(syms[a].name, a) ELSE syms[a].name

Finalize ==
  /\ done = Len(calls) /\ read = Len(Artifacts)
  /\ rows' = [a \in DOMAIN syms |-> [syms[a] EXCEPT !.name = Label(a)]]
  /\ UNCHANGED <<read, calls, done, syms>>

Next == Load \/ Add \/ Finalize

Spec == Init /\ [][Next]_vars

----------------------------------------------------------------------------

Made == 1..done
Of(a) == {i \in Made : calls[i].addr = a}
Forced(a) == {i \in Of(a) : calls[i].force}
Specific(a) == {i \in Of(a) : ~Generic(calls[i].name)}

\* The call whose name an address should have: the last forced one, or else the
\* first with a landmark's name, or else the first.
Wins(i, a) ==
  /\ i \in Of(a)
  /\ IF Forced(a) # {} THEN i \in Forced(a) /\ \A j \in Forced(a) : j <= i
     ELSE IF Specific(a) # {} THEN i \in Specific(a) /\ \A j \in Specific(a) : i <= j
     ELSE \A j \in Of(a) : i <= j

\* Whatever artifacts are missing and in whatever order the calls come, the table
\* holds for every address named so far the entry of the call that should win.
MergedByPriority ==
  /\ DOMAIN syms = {calls[i].addr : i \in Made} \ {None}
  /\ \A a \in DOMAIN syms : \E i \in Made : Wins(i, a) /\ syms[a] = Entry(calls[i])

\* Two rows never have the same label: Ghidra's import would move the one symbol.
UniqueLabels == \A a, b \in DOMAIN rows : rows[a].name = rows[b].name => a = b

=============================================================================
