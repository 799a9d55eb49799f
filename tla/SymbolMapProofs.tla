--------------------------- MODULE SymbolMapProofs ---------------------------
(***************************************************************************)
(* The merge of SymbolMap for all artifacts and all calls of add: what the *)
(* run shows on some of the committed artifacts.                           *)
(***************************************************************************)
EXTENDS SymbolMap, TLAPS

TypeInv ==
  /\ read \in 0..Len(Artifacts)
  /\ calls \in Seq(Call)
  /\ done \in 0..Len(calls)

\* UniqueLabels needs to know where names come from, and MergedByPriority says so.
IInv == TypeInv /\ MergedByPriority /\ UniqueLabels

\* Reading an artifact appends to the calls and changes none that is there.
LEMMA LoadKeepsCalls ==
  ASSUME TypeInv, Load
  PROVE  /\ TypeInv'
         /\ \A i \in Made : calls'[i] = calls[i]
<1>1. read + 1 \in 1..Len(Artifacts) /\ Artifacts[read + 1] \in Seq(Call)
  BY CallTypes DEF TypeInv, Load
<1>2. calls' \in Seq(Call)
  BY <1>1 DEF TypeInv, Load
<1>3. done \in 0..Len(calls') /\ \A i \in Made : calls'[i] = calls[i]
  <2>1. CASE calls' = calls
    BY <2>1 DEF TypeInv
  <2>2. CASE calls' = calls \o Artifacts[read + 1]
    BY <2>2, <1>1 DEF TypeInv, Made
  <2> QED
    BY <2>1, <2>2 DEF Load
<1>4. read' \in 0..Len(Artifacts) /\ done' = done
  BY <1>1, CallTypes DEF TypeInv, Load
<1> QED
  BY <1>2, <1>3, <1>4 DEF TypeInv

\* The sets a winner is chosen from, as long as the calls made stay what they are.
LEMMA SameMade ==
  ASSUME done' = done, \A i \in Made : calls'[i] = calls[i], NEW a
  PROVE  /\ Made' = Made /\ Of(a)' = Of(a)
         /\ Forced(a)' = Forced(a) /\ Specific(a)' = Specific(a)
<1>1. Made' = Made
  BY DEF Made
<1>2. Of(a)' = Of(a)
  BY <1>1 DEF Of
<1>3. Forced(a)' = Forced(a) /\ Specific(a)' = Specific(a)
  <2>1. \A i \in Of(a) : i \in Made
    BY DEF Of
  <2> QED
    BY <1>2, <2>1 DEF Forced, Specific, Generic
<1> QED
  BY <1>1, <1>2, <1>3

LEMMA MergedWhenSame ==
  ASSUME MergedByPriority, syms' = syms,
         done' = done, \A i \in Made : calls'[i] = calls[i]
  PROVE  MergedByPriority'
<1>1. Made' = Made
  BY DEF Made
<1>2. DOMAIN syms' = {calls'[i].addr : i \in Made'} \ {None}
  BY <1>1 DEF MergedByPriority
<1>3. ASSUME NEW a \in DOMAIN syms'
      PROVE  \E i \in Made' : Wins(i, a)' /\ syms'[a] = Entry(calls'[i])
  <2>1. PICK i \in Made : Wins(i, a) /\ syms[a] = Entry(calls[i])
    BY DEF MergedByPriority
  <2>2. Wins(i, a)'
    BY <2>1, SameMade DEF Wins
  <2> QED
    BY <1>1, <2>1, <2>2 DEF Entry
<1> QED
  BY <1>2, <1>3 DEF MergedByPriority

(***************************************************************************)
(* One call of add.                                                        *)
(***************************************************************************)

\* The call about to be made joins the sets of its own address and of no other.
LEMMA OneMore ==
  ASSUME TypeInv, Add, NEW a
  PROVE  LET n == done + 1
             c == calls[n]
         IN  /\ n \in 1..Len(calls) /\ c \in Call /\ calls' = calls
             /\ Made' = Made \cup {n} /\ n \notin Made
             /\ Of(a)' = IF c.addr = a THEN Of(a) \cup {n} ELSE Of(a)
             /\ Forced(a)' = IF c.addr = a /\ c.force THEN Forced(a) \cup {n} ELSE Forced(a)
             /\ Specific(a)' = IF c.addr = a /\ ~Generic(c.name)
                               THEN Specific(a) \cup {n} ELSE Specific(a)
<1> DEFINE n == done + 1
           c == calls[n]
<1>1. n \in 1..Len(calls) /\ c \in Call /\ calls' = calls /\ done' = n
  BY DEF TypeInv, Add
<1>2. Made' = Made \cup {n} /\ n \notin Made
  BY DEF TypeInv, Add, Made
<1>3. Of(a)' = IF c.addr = a THEN Of(a) \cup {n} ELSE Of(a)
  BY <1>1, <1>2 DEF Of
<1>4. Forced(a)' = IF c.addr = a /\ c.force THEN Forced(a) \cup {n} ELSE Forced(a)
  BY <1>1, <1>3 DEF Forced
<1>5. Specific(a)' = IF c.addr = a /\ ~Generic(c.name)
                     THEN Specific(a) \cup {n} ELSE Specific(a)
  BY <1>1, <1>3 DEF Specific, Generic
<1> QED
  BY <1>1, <1>2, <1>3, <1>4, <1>5

\* The sets, spelled out.
LEMMA Sets ==
  ASSUME NEW a
  PROVE  /\ Forced(a) \subseteq Of(a) /\ Specific(a) \subseteq Of(a) /\ Of(a) \subseteq Made
         /\ Made \subseteq Nat
         /\ \A i \in Of(a) : calls[i].addr = a
         /\ \A i \in Of(a) : i \in Specific(a) <=> ~Generic(calls[i].name)
BY DEF Of, Forced, Specific, Made

\* A forced call carries a landmark's name.
LEMMA ForcedIsSpecific ==
  ASSUME TypeInv, NEW a
  PROVE  Forced(a) \subseteq Specific(a)
<1>1. \A i \in Made : calls[i] \in Call
  BY DEF TypeInv, Made
<1> QED
  BY <1>1, CallTypes DEF Forced, Specific, Of

\* A winner has a landmark's name as soon as any call for its address has one.
LEMMA WinnerIsSpecific ==
  ASSUME TypeInv, NEW a, NEW i, Wins(i, a)
  PROVE  Specific(a) # {} <=> i \in Specific(a)
BY ForcedIsSpecific DEF Wins

LEMMA AddMerges ==
  ASSUME TypeInv, MergedByPriority, Add
  PROVE  MergedByPriority'
<1> DEFINE n == done + 1
           c == calls[n]
<1>1. n \in 1..Len(calls) /\ c \in Call /\ calls' = calls /\ Made' = Made \cup {n} /\ n \notin Made
  BY OneMore
<1>2. n \in Nat /\ n <= n /\ \A i \in Made : i <= n
  BY DEF Made, TypeInv
<1>3. syms' = IF Ignored(c) THEN syms
              ELSE [a \in DOMAIN syms \cup {c.addr} |->
                     IF a = c.addr THEN Entry(c) ELSE syms[a]]
  BY DEF Add
<1>4. DOMAIN syms = {calls[i].addr : i \in Made} \ {None}
  BY DEF MergedByPriority
<1> HIDE DEF n, c
<1>5. DOMAIN syms' = {calls'[i].addr : i \in Made'} \ {None}
  <2>1. {calls'[i].addr : i \in Made'} = {calls[i].addr : i \in Made} \cup {c.addr}
    BY <1>1 DEF c
  <2>2. CASE Ignored(c)
    BY <2>1, <2>2, <1>3, <1>4 DEF Ignored
  <2>3. CASE ~Ignored(c)
    BY <2>1, <2>3, <1>3, <1>4 DEF Ignored
  <2> QED
    BY <2>2, <2>3
<1>6. ASSUME NEW a \in DOMAIN syms', a # c.addr
      PROVE  \E i \in Made' : Wins(i, a)' /\ syms'[a] = Entry(calls'[i])
  <2>1. a \in DOMAIN syms /\ syms'[a] = syms[a]
    BY <1>3, <1>6
  <2>2. PICK i \in Made : Wins(i, a) /\ syms[a] = Entry(calls[i])
    BY <2>1 DEF MergedByPriority
  <2>3. Of(a)' = Of(a) /\ Forced(a)' = Forced(a) /\ Specific(a)' = Specific(a)
    BY <1>6, OneMore DEF n, c
  <2>4. Wins(i, a)'
    BY <2>2, <2>3 DEF Wins
  <2> QED
    BY <1>1, <2>1, <2>2, <2>4 DEF Entry
<1>7. ASSUME NEW a \in DOMAIN syms', a = c.addr
      PROVE  \E i \in Made' : Wins(i, a)' /\ syms'[a] = Entry(calls'[i])
  <2>1. a # None
    BY <1>5
  <2>2. /\ Of(a)' = Of(a) \cup {n}
        /\ Forced(a)' = IF c.force THEN Forced(a) \cup {n} ELSE Forced(a)
        /\ Specific(a)' = IF ~Generic(c.name) THEN Specific(a) \cup {n} ELSE Specific(a)
    BY <1>7, OneMore DEF n, c
  <2>3. CASE Ignored(c)
    <3>1. a \in DOMAIN syms /\ ~c.force /\ ~(Generic(syms[a].name) /\ ~Generic(c.name))
      BY <2>1, <2>3, <1>7 DEF Ignored
    <3>2. PICK i \in Made : Wins(i, a) /\ syms[a] = Entry(calls[i])
      BY <3>1 DEF MergedByPriority
    <3>3. Specific(a) = {} => Generic(c.name)
      BY <3>1, <3>2, Sets DEF Wins, Entry
    <3>4. Wins(i, a)'
      <4>1. Forced(a)' = Forced(a) /\ i \in Of(a)' /\ Specific(a) \subseteq Of(a) /\ Of(a) \subseteq Made
        BY <2>2, <3>1, <3>2, Sets DEF Wins
      <4>2. i <= n
        BY <1>2
      <4>3. CASE Forced(a) # {}
        BY <3>2, <4>1, <4>3 DEF Wins
      <4>4. CASE Forced(a) = {} /\ Specific(a) # {}
        BY <2>2, <3>2, <4>1, <4>2, <4>4 DEF Wins
      <4>5. CASE Forced(a) = {} /\ Specific(a) = {}
        BY <2>2, <3>2, <3>3, <4>1, <4>2, <4>5 DEF Wins
      <4> QED
        BY <4>3, <4>4, <4>5
    <3> QED
      BY <1>1, <1>3, <2>3, <3>2, <3>4 DEF Entry
  <2>4. CASE ~Ignored(c)
    <3>1. syms'[a] = Entry(c) /\ c = calls'[n] /\ n \in Made'
      BY <1>1, <1>3, <1>7, <2>4 DEF c
    <3>2. CASE c.force
      <4>1. Forced(a)' = Forced(a) \cup {n} /\ n \in Of(a)' /\ Forced(a) \subseteq Made
        BY <2>2, <3>2, Sets
      <4>2. PICK m \in Nat : m = n
        BY <1>2
      <4>3. Wins(m, a)'
        BY <1>2, <4>1, <4>2 DEF Wins
      <4> QED
        BY <3>1, <4>2, <4>3
    <3>3. CASE ~c.force /\ a \notin DOMAIN syms
      <4>1. Of(a) = {}
        BY <1>4, <2>1, <3>3, Sets
      <4>2. Forced(a) = {} /\ Specific(a) = {} /\ n <= n
        BY <4>1, <1>1, Sets
      <4> QED
        BY <2>2, <3>1, <3>3, <4>1, <4>2 DEF Wins
    <3>4. CASE ~c.force /\ a \in DOMAIN syms
      <4>1. Generic(syms[a].name) /\ ~Generic(c.name)
        BY <2>1, <2>4, <3>4, <1>7 DEF Ignored
      <4>2. PICK i \in Made : Wins(i, a) /\ syms[a] = Entry(calls[i])
        BY <3>4 DEF MergedByPriority
      <4>3. Generic(calls[i].name)
        BY <4>1, <4>2 DEF Entry
      <4>4. Specific(a) = {} /\ Forced(a) = {}
        BY <4>2, <4>3, WinnerIsSpecific, ForcedIsSpecific, Sets
      <4>5. n <= n
        BY <1>1
      <4> QED
        BY <2>2, <3>1, <3>4, <4>1, <4>4, <4>5 DEF Wins
    <3> QED
      BY <3>1, <3>2, <3>3, <3>4
  <2> QED
    BY <2>3, <2>4
<1> QED
  BY <1>5, <1>6, <1>7 DEF MergedByPriority

----------------------------------------------------------------------------

\* Every name in the table comes from a call for its address.
LEMMA NamesComeFromCalls ==
  ASSUME TypeInv, MergedByPriority, NEW a \in DOMAIN syms
  PROVE  \E c \in Call : c.addr = a /\ c.addr # None /\ c.addr \in Int /\ syms[a].name = c.name
<1>1. PICK i \in Made : Wins(i, a) /\ syms[a] = Entry(calls[i])
  BY DEF MergedByPriority
<1>2. calls[i] \in Call /\ calls[i].addr = a
  BY <1>1, Sets DEF TypeInv, Made, Wins
<1>3. a # None
  BY DEF MergedByPriority
<1> QED
  BY <1>1, <1>2, <1>3, CallTypes DEF Entry

\* Appending an address keeps two names apart.
LEMMA SuffixTellsApart ==
  ASSUME NEW c \in Call, NEW d \in Call, NEW a \in Int, NEW b \in Int,
         Suffixed(c.name, a) = Suffixed(d.name, b)
  PROVE  a = b
<1>1. c.name.tail \in Seq(Int) /\ d.name.tail \in Seq(Int)
  BY CallTypes
<1>2. Append(c.name.tail, a) = Append(d.name.tail, b)
  <2>1. c.name \in [word : STRING, tail : Seq(Int)] /\ d.name \in [word : STRING, tail : Seq(Int)]
    BY CallTypes
  <2> QED
    BY <2>1 DEF Suffixed
<1>3. Len(c.name.tail) + 1 = Len(d.name.tail) + 1
  BY <1>1, <1>2
<1> QED
  BY <1>1, <1>2, <1>3

LEMMA FinalizeLabels ==
  ASSUME TypeInv, MergedByPriority, Finalize
  PROVE  UniqueLabels'
<1> SUFFICES ASSUME NEW a \in DOMAIN syms, NEW b \in DOMAIN syms, a < b, Label(a) = Label(b)
             PROVE  FALSE
  <2>1. DOMAIN rows' = DOMAIN syms /\ \A x \in DOMAIN syms : rows'[x].name = Label(x)
    <3>1. \A x \in DOMAIN syms : syms[x] = [name |-> syms[x].name, kind |-> syms[x].kind]
      <4> TAKE x \in DOMAIN syms
      <4>1. PICK i \in Made : syms[x] = Entry(calls[i])
        BY DEF MergedByPriority
      <4> QED
        BY <4>1 DEF Entry
    <3> QED
      BY <3>1 DEF Finalize
  <2>2. \A x \in DOMAIN syms : x \in Int
    BY NamesComeFromCalls
  <2> QED
    BY <2>1, <2>2 DEF UniqueLabels
<1>1. PICK c \in Call : c.addr = a /\ c.addr # None /\ c.addr \in Int /\ syms[a].name = c.name
  BY NamesComeFromCalls
<1>2. PICK d \in Call : d.addr = b /\ d.addr # None /\ d.addr \in Int /\ syms[b].name = d.name
  BY NamesComeFromCalls
<1>3. CASE Taken(a) /\ Taken(b)
  BY <1>1, <1>2, <1>3, SuffixTellsApart DEF Label
<1>4. CASE Taken(a) /\ ~Taken(b)
  BY <1>1, <1>2, <1>4, NamesStandAlone DEF Label
<1>5. CASE ~Taken(a) /\ Taken(b)
  BY <1>1, <1>2, <1>5, NamesStandAlone DEF Label
<1>6. CASE ~Taken(a) /\ ~Taken(b)
  BY <1>6 DEF Label, Taken
<1> QED
  BY <1>3, <1>4, <1>5, <1>6

LEMMA Invariance == Spec => []IInv
<1>1. Init => IInv
  <2> SUFFICES ASSUME Init
               PROVE  IInv
    OBVIOUS
  <2>1. TypeInv
    BY CallTypes DEF Init, TypeInv
  <2>2. Made = {}
    BY DEF Init, Made
  <2> QED
    BY <2>1, <2>2 DEF Init, IInv, MergedByPriority, UniqueLabels
<1>2. IInv /\ [Next]_vars => IInv'
  <2> SUFFICES ASSUME IInv, [Next]_vars
               PROVE  IInv'
    OBVIOUS
  <2>1. CASE Load
    <3>1. TypeInv' /\ MergedByPriority'
      BY <2>1, LoadKeepsCalls, MergedWhenSame DEF IInv, Load
    <3> QED
      BY <2>1, <3>1 DEF IInv, Load, UniqueLabels
  <2>2. CASE Add
    <3>1. TypeInv'
      BY <2>2 DEF IInv, TypeInv, Add
    <3>2. UniqueLabels'
      BY <2>2 DEF IInv, UniqueLabels, Add
    <3> QED
      BY <2>2, <3>1, <3>2, AddMerges DEF IInv
  <2>3. CASE Finalize
    <3>1. TypeInv' /\ MergedByPriority'
      BY <2>3, MergedWhenSame DEF IInv, TypeInv, Finalize
    <3> QED
      BY <2>3, <3>1, FinalizeLabels DEF IInv
  <2>4. CASE UNCHANGED vars
    <3>1. TypeInv' /\ MergedByPriority'
      BY <2>4, MergedWhenSame DEF IInv, TypeInv, vars
    <3> QED
      BY <2>4, <3>1 DEF IInv, UniqueLabels, vars
  <2> QED
    BY <2>1, <2>2, <2>3, <2>4 DEF Next
<1> QED
  BY <1>1, <1>2, PTL DEF Spec

\* Whatever the artifacts and whichever of them are missing, every address has the
\* entry of the last forced call, or of the first landmark, or of the first call.
THEOREM TableIsMergedByPriority == Spec => []MergedByPriority
<1>1. IInv => MergedByPriority
  BY DEF IInv
<1> QED
  BY <1>1, Invariance, PTL

\* The labels finalize hands out are unique, as its comment says, as long as no
\* name given is another name with an address appended.
THEOREM LabelsAreUnique == Spec => []UniqueLabels
<1>1. IInv => UniqueLabels
  BY DEF IInv
<1> QED
  BY <1>1, Invariance, PTL

=============================================================================
