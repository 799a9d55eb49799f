-------------------------- MODULE FunctionMapProofs --------------------------
(***************************************************************************)
(* The inventory of FunctionMap for payloads of every size: what lies      *)
(* where, what functions that overlap have in common, and how many steps   *)
(* it takes at most.  That it is finished, as a liveness property, stays   *)
(* with the model checker.                                                 *)
(***************************************************************************)
EXTENDS FunctionMap, TLAPS, WellFoundedInduction, FiniteSetTheorems

\* The walk under way is inside the payload, behind its start; from a start outside it
\* has not moved.
WalkInside ==
  walk # NoWalk =>
    /\ walk.start \in starts
    /\ walk.start \in Nat /\ walk.last \in Nat /\ walk.addr \in Nat
    /\ walk.start <= walk.last /\ walk.last <= walk.addr
    /\ walk.start \in Address => walk.addr <= N
    /\ walk.start \notin Address =>
         walk.addr = walk.start /\ walk.callees = {} /\ walk.passed = {}

Recorded == \A s \in DOMAIN funcs : funcs[s].end \in Nat

NoneKnown == phase = "sweep" => starts = {}

\* Both properties need where the walk is; the walk needs which starts lie outside, and
\* that nothing is recorded while they are still unknown.
IInv == code \in Codes /\ TypeOK /\ NoneKnown /\ WalkInside /\ Recorded /\ ExtentsInImage

----------------------------------------------------------------------------

LEMMA LeastOne ==
  ASSUME NEW S \in SUBSET Nat, S # {}
  PROVE  \E x \in S : \A y \in S : x <= y
<1>1. PICK x \in S : \A y \in S : ~(<<y, x>> \in OpToRel(<, Nat))
  BY NatLessThanWellFounded, WFMin
<1>2. ASSUME NEW y \in S PROVE x <= y
  <2>1. <<y, x>> \in Nat \X Nat
    OBVIOUS
  <2>2. ~(y < x)
    BY <1>1, <2>1, Zenon DEF OpToRel
  <2> QED
    BY <2>2
<1> QED
  BY <1>2

\* Min of FiniteSetsExt is a member, for any set of naturals that has one.
LEMMA MinIsMember ==
  ASSUME NEW S \in SUBSET Nat, S # {}
  PROVE  Min(S) \in S
BY LeastOne DEF Min

LEMMA LeastIsMember ==
  ASSUME NEW m \in Nat, NEW n \in Nat
  PROVE  Min({m, n}) \in {m, n} /\ Min({m, n}) <= m /\ Min({m, n}) <= n
<1>1. PICK x \in {m, n} : \A y \in {m, n} : x <= y
  <2>1. {m, n} \in SUBSET Nat /\ {m, n} # {}
    OBVIOUS
  <2> QED
    BY <2>1, LeastOne
<1> QED
  BY <1>1 DEF Min

\* What an address holds.
LEMMA Halfword ==
  ASSUME code \in Codes, NEW a \in Address
  PROVE  /\ code[a].size \in {1, 2} /\ code[a].target \in Nat
         /\ code[a].kind \in Kind
BY CodeTypes

\* Where a start may lie.
LEMMA StartsAreNaturals ==
  ASSUME code \in Codes, TypeOK
  PROVE  /\ starts \subseteq Nat /\ starts \subseteq Address \cup {code[0].target}
         /\ N \in Nat /\ \A s \in starts : s \in Address <=> s < N
<1>1. N \in Nat \ {0} /\ 0 \in Address /\ Address \subseteq Nat
  BY CodeTypes DEF Address
<1>2. code[0].target \in Nat
  BY <1>1, Halfword
<1>3. starts \subseteq Address \cup {code[0].target}
  BY DEF TypeOK
<1> QED
  BY <1>1, <1>2, <1>3 DEF Address

----------------------------------------------------------------------------

LEMMA InitHolds == Init => IInv
<1> SUFFICES ASSUME Init PROVE IInv
  OBVIOUS
<1> QED
  BY CodeTypes DEF Init, IInv, TypeOK, NoneKnown, WalkInside, Recorded, ExtentsInImage

\* The sweep adds calls between addresses of the payload and leaves its end
\* exactly at N.
LEMMA SweepHolds ==
  ASSUME IInv, SweepInsn \/ SweepGap
  PROVE  IInv'
<1>1. N \in Nat \ {0} /\ pos \in Nat
  BY CodeTypes DEF IInv, TypeOK
<1>2. calls' \subseteq Address \X Address /\ pos' \in 0..N
  <2>1. CASE SweepInsn
    <3>1. pos \in Address /\ pos + code[pos].size <= N
      BY <2>1 DEF SweepInsn, Decodes
    <3>2. code[pos].size \in {1, 2} /\ code[pos].target \in Nat
      BY <3>1, Halfword DEF IInv
    <3>3. CallAt(pos) \subseteq Address \X Address
      BY <1>1, <3>1, <3>2 DEF CallAt, Address
    <3> QED
      BY <1>1, <2>1, <3>1, <3>2, <3>3 DEF SweepInsn, IInv, TypeOK
  <2>2. CASE SweepGap
    BY <1>1, <2>2 DEF SweepGap, IInv, TypeOK
  <2> QED
    BY <2>1, <2>2
<1>3. UNCHANGED <<code, phase, starts, walk, funcs>>
  BY DEF SweepInsn, SweepGap
<1> QED
  BY <1>2, <1>3 DEF IInv, TypeOK, NoneKnown, WalkInside, Recorded, ExtentsInImage, NoWalk

\* Before the starts are known no walk is under way and nothing is recorded.
LEMMA SweepEndHolds ==
  ASSUME IInv, SweepEnd
  PROVE  IInv'
<1>1. \A s \in ResetEntry : code[0].kind = "jump" /\ s = code[0].target
  BY DEF ResetEntry
<1>2. \A s \in starts' \ Address : code[0].kind = "jump" /\ s = code[0].target
  BY <1>1 DEF SweepEnd, IInv, TypeOK
<1>3. starts = {} /\ DOMAIN funcs = {}
  BY DEF SweepEnd, IInv, TypeOK, NoneKnown
<1>4. walk = NoWalk
  BY <1>3 DEF IInv, WalkInside
<1> QED
  BY <1>2, <1>3, <1>4
  DEF SweepEnd, IInv, TypeOK, NoneKnown, WalkInside, Recorded, ExtentsInImage, NoWalk

LEMMA WalkFromHolds ==
  ASSUME IInv, WalkFrom
  PROVE  IInv'
<1> DEFINE s == Min(starts \ DOMAIN funcs)
<1>1. starts \subseteq Nat /\ DOMAIN funcs \subseteq starts /\ N \in Nat
  BY StartsAreNaturals DEF IInv, TypeOK
<1>2. s \in starts
  <2>1. starts \ DOMAIN funcs # {}
    BY <1>1, Zenon DEF WalkFrom
  <2>2. starts \ DOMAIN funcs \in SUBSET Nat
    BY <1>1, Zenon
  <2>3. s \in starts \ DOMAIN funcs
    BY <2>1, <2>2, MinIsMember, Zenon
  <2> QED
    BY <2>3
<1>3. s \in Nat /\ (s \in Address => s <= N)
  <2> HIDE DEF s
  <2> QED
    BY <1>1, <1>2, StartsAreNaturals DEF IInv
<1>4. walk' = [start |-> s, addr |-> s, last |-> s, callees |-> {}, passed |-> {}]
  BY DEF WalkFrom
<1>5. WalkInside'
  BY <1>2, <1>3, <1>4 DEF WalkInside, WalkFrom
<1> QED
  BY <1>5 DEF WalkFrom, IInv, TypeOK, NoneKnown, Recorded, ExtentsInImage

\* What is recorded of a walk inside the payload lies inside the payload.
LEMMA RecordHolds ==
  ASSUME IInv, walk # NoWalk, phase # "sweep",
         NEW end \in Nat, NEW callees, NEW passed, Record(end, callees, passed),
         \/ walk.start \in Address /\ walk.start <= end /\ end <= N
         \/ walk.start \notin Address /\ end = N /\ callees = {},
         UNCHANGED <<code, phase, pos, calls, starts>>
  PROVE  IInv'
<1>1. walk.start \in starts
  BY DEF IInv, WalkInside
<1>2. DOMAIN funcs' = DOMAIN funcs \cup {walk.start}
  BY DEF Record
<1>3. ASSUME NEW s \in DOMAIN funcs'
      PROVE  /\ funcs'[s].end \in Nat
             /\ \/ s \in Address /\ s <= funcs'[s].end /\ funcs'[s].end <= N
                \/ /\ s \notin Address /\ code[0].kind = "jump" /\ s = code[0].target
                   /\ funcs'[s].end = N /\ funcs'[s].callees = {}
  <2>1. CASE s = walk.start
    <3>1. funcs'[s].end = end /\ funcs'[s].callees = callees \cap starts
      BY <1>2, <2>1 DEF Record
    <3>2. s \notin Address => code[0].kind = "jump" /\ s = code[0].target
      BY <1>1, <2>1 DEF IInv, TypeOK
    <3> QED
      BY <2>1, <3>1, <3>2
  <2>2. CASE s # walk.start
    BY <1>2, <2>2 DEF Record, IInv, Recorded, ExtentsInImage
  <2> QED
    BY <2>1, <2>2
<1>4. walk' = NoWalk
  BY DEF Record
<1>5. TypeOK' /\ NoneKnown'
  BY <1>1, <1>2 DEF IInv, TypeOK, NoneKnown
<1> QED
  BY <1>3, <1>4, <1>5 DEF IInv, WalkInside, Recorded, ExtentsInImage, NoWalk

LEMMA WalkInsnHolds ==
  ASSUME IInv, WalkInsn
  PROVE  IInv'
<1> DEFINE insn    == code[walk.addr]
           next    == walk.addr + insn.size
           callees == walk.callees \cup (IF insn.kind = "call" THEN {insn.target} ELSE {})
           passed  == walk.passed \cup {walk.addr}
<1>1. /\ walk.start \in Nat /\ walk.last \in Nat /\ walk.addr \in Nat
      /\ walk.start <= walk.last /\ walk.last <= walk.addr /\ walk.start \in Address
  BY CodeTypes DEF WalkInsn, IInv, WalkInside, Address, Decodes
<1>2. insn.size \in {1, 2} /\ next <= N
  BY Halfword DEF WalkInsn, Decodes, IInv
<1>3. next \in Nat /\ walk.start <= next
  BY <1>1, <1>2
<1>4. CASE Record(next, callees, passed)
  <2>1. walk # NoWalk /\ phase # "sweep" /\ UNCHANGED <<code, phase, pos, calls, starts>>
    BY DEF WalkInsn
  <2> QED
    BY <1>1, <1>2, <1>3, <1>4, <2>1, RecordHolds
<1>5. CASE /\ walk' = [walk EXCEPT !.addr = next, !.last = next, !.callees = callees,
                                   !.passed = passed]
           /\ UNCHANGED funcs
  <2>1. WalkInside'
    BY <1>1, <1>2, <1>3, <1>5 DEF WalkInsn, IInv, WalkInside
  <2> QED
    BY <1>5, <2>1 DEF WalkInsn, IInv, TypeOK, NoneKnown, Recorded, ExtentsInImage
<1> QED
  BY <1>4, <1>5 DEF WalkInsn

LEMMA WalkGapHolds ==
  ASSUME IInv, WalkGap
  PROVE  IInv'
<1>1. WalkInside'
  BY CodeTypes DEF WalkGap, IInv, WalkInside, Address
<1> QED
  BY <1>1 DEF WalkGap, IInv, TypeOK, NoneKnown, Recorded, ExtentsInImage

LEMMA WalkOutHolds ==
  ASSUME IInv, WalkOut
  PROVE  IInv'
<1>1. /\ walk.start \in Nat /\ walk.last \in Nat /\ N \in Nat
      /\ walk.start <= walk.last /\ (walk.start \in Address => walk.last <= N)
      /\ walk.start \notin Address => walk.callees = {} /\ N <= walk.last
  BY CodeTypes DEF WalkOut, IInv, WalkInside, Address
<1>2. /\ Min({walk.last, N}) \in {walk.last, N}
      /\ Min({walk.last, N}) <= walk.last /\ Min({walk.last, N}) <= N
  BY <1>1, LeastIsMember
<1>3. Min({walk.last, N}) \in Nat
  BY <1>1, <1>2
<1>4. CASE walk.start \in Address
  <2>1. walk.start <= Min({walk.last, N})
    BY <1>1, <1>2, <1>4 DEF Address
  <2> QED
    BY <1>2, <1>3, <1>4, <2>1, RecordHolds DEF WalkOut
<1>5. CASE walk.start \notin Address
  <2>1. Min({walk.last, N}) = N
    BY <1>1, <1>2, <1>5
  <2> QED
    BY <1>1, <1>3, <1>5, <2>1, RecordHolds DEF WalkOut
<1> QED
  BY <1>4, <1>5

----------------------------------------------------------------------------

LEMMA StepHolds == IInv /\ [Next]_vars => IInv'
<1> SUFFICES ASSUME IInv, [Next]_vars PROVE IInv'
  OBVIOUS
<1>1. CASE SweepInsn \/ SweepGap
  BY <1>1, SweepHolds
<1>2. CASE SweepEnd
  BY <1>2, SweepEndHolds
<1>3. CASE WalkFrom
  BY <1>3, WalkFromHolds
<1>4. CASE WalkInsn
  BY <1>4, WalkInsnHolds
<1>5. CASE WalkGap
  BY <1>5, WalkGapHolds
<1>6. CASE WalkOut
  BY <1>6, WalkOutHolds
<1>7. CASE Finish
  BY <1>7 DEF Finish, IInv, TypeOK, NoneKnown, WalkInside, Recorded, ExtentsInImage, NoWalk
<1>8. CASE UNCHANGED vars
  BY <1>8 DEF vars, IInv, TypeOK, NoneKnown, WalkInside, Recorded, ExtentsInImage, NoWalk
<1> QED
  BY <1>1, <1>2, <1>3, <1>4, <1>5, <1>6, <1>7, <1>8 DEF Next

LEMMA Invariance == Spec => []IInv
<1>1. IInv /\ [Next]_vars => IInv'
  BY StepHolds
<1> QED
  BY InitHolds, <1>1, PTL DEF Spec

\* all_direct_calls and build: for every payload, calls lie in it, and so do the starts,
\* the target of its reset jump apart.
THEOREM AddressesInPayload == Spec => []TypeOK
<1>1. IInv => TypeOK
  BY DEF IInv
<1> QED
  BY <1>1, Invariance, PTL

\* function_extent: for every payload, what is recorded of a function lies in it, behind
\* the function's start; the one function that may start outside, where the reset jump
\* leads, is recorded as ending with the payload and calling nobody.
THEOREM ExtentsLieInPayload == Spec => []ExtentsInImage
<1>1. IInv => ExtentsInImage
  BY DEF IInv
<1> QED
  BY <1>1, Invariance, PTL

----------------------------------------------------------------------------
(***************************************************************************)
(* The path of a walk, as facts about a payload c and a set of starts st.  *)
(***************************************************************************)

DecodesIn(c, a) == a \in Address /\ c[a].kind # "bad" /\ a + c[a].size <= N
After(c, a) == a + c[a].size
Gap(c, from, to) == \A x \in from..(to - 1) : ~DecodesIn(c, x)

\* A walk from s ends with the instruction at a.
Stops(c, st, s, a) ==
  c[a].kind \in {"ret", "jump"} \/ (After(c, a) \in st /\ After(c, a) # s)

\* From s, or from an instruction of the path P, to b over what does not decode.
Reached(c, st, s, P, b) ==
  \/ Gap(c, s, b)
  \/ \E p \in P : ~Stops(c, st, s, p) /\ After(c, p) <= b /\ Gap(c, After(c, p), b)

\* Where the path goes on from a, as far as b.
GoesOn(c, P, a, b) ==
  \A x \in After(c, a)..(b - 1) : DecodesIn(c, x) /\ Gap(c, After(c, a), x) => x \in P

Targets(c, P) == {c[a].target : a \in {p \in P : c[p].kind = "call"}}

\* f records the whole walk from s.
Whole(c, st, s, f) ==
  /\ \A a \in f.passed : DecodesIn(c, a) /\ s <= a /\ Reached(c, st, s, f.passed, a)
  /\ DecodesIn(c, s) => s \in f.passed
  /\ \A a \in f.passed :
       /\ Stops(c, st, s, a) => f.end = After(c, a)
       /\ ~Stops(c, st, s, a) =>
            GoesOn(c, f.passed, a, N) /\ (Gap(c, After(c, a), N) => f.end = After(c, a))
  /\ f.callees = Targets(c, f.passed) \cap st

\* The walk under way has made the path P from s, and is at b.
Trail(c, st, s, P, last, b) ==
  /\ \A a \in P : /\ DecodesIn(c, a) /\ s <= a /\ Reached(c, st, s, P, a)
                  /\ ~Stops(c, st, s, a) /\ After(c, a) <= b /\ GoesOn(c, P, a, b)
                  /\ Gap(c, After(c, a), b) => last = After(c, a)
  /\ DecodesIn(c, s) /\ s < b => s \in P
  /\ Reached(c, st, s, P, b)

----------------------------------------------------------------------------

LEMMA InsnIn ==
  ASSUME NEW c \in Codes, NEW a, DecodesIn(c, a)
  PROVE  /\ a \in Nat /\ a < N /\ a \in Address
         /\ c[a].size \in {1, 2} /\ After(c, a) \in Nat /\ a < After(c, a) /\ After(c, a) <= N
<1>1. a \in Address /\ a \in Nat /\ a < N /\ N \in Nat
  BY CodeTypes DEF DecodesIn, Address
<1>2. c[a].size \in {1, 2}
  BY <1>1, CodeTypes
<1> QED
  BY <1>1, <1>2 DEF After, DecodesIn

LEMMA GreatestOne ==
  ASSUME NEW S \in SUBSET Address, S # {}
  PROVE  \E x \in S : \A y \in S : y <= x
<1> DEFINE D == {N - y : y \in S}
<1>1. N \in Nat /\ \A y \in S : y \in Nat /\ y < N
  BY CodeTypes DEF Address
<1>2. D \in SUBSET Nat /\ D # {}
  BY <1>1
<1>3. PICK d \in D : \A e \in D : d <= e
  <2> HIDE DEF D
  <2> QED
    BY <1>2, LeastOne
<1>4. PICK x \in S : d = N - x
  BY <1>3
<1>5. \A y \in S : N - x <= N - y
  BY <1>3, <1>4
<1> QED
  BY <1>1, <1>4, <1>5

\* Either nothing decodes from a place on, or the path has a next instruction.
LEMMA NextOnPath ==
  ASSUME NEW c, NEW n \in Nat, ~Gap(c, n, N)
  PROVE  \E x \in n..(N - 1) : DecodesIn(c, x) /\ Gap(c, n, x)
<1> DEFINE S == {x \in n..(N - 1) : DecodesIn(c, x)}
<1>1. N \in Nat
  BY CodeTypes
<1>2. S \in SUBSET Nat /\ S # {}
  BY <1>1 DEF Gap
<1>3. PICK x \in S : \A y \in S : x <= y
  <2> HIDE DEF S
  <2> QED
    BY <1>2, LeastOne
<1>4. ASSUME NEW y \in n..(x - 1), DecodesIn(c, y) PROVE FALSE
  <2>1. y \in S /\ y < x
    BY <1>1, <1>3, <1>4
  <2> QED
    BY <1>1, <1>3, <2>1
<1> QED
  BY <1>3, <1>4 DEF Gap

\* Behind t, the walks from s and t end with the same instructions.
LEMMA StopTogether ==
  ASSUME NEW c \in Codes, NEW st, NEW s \in Nat, NEW t \in Nat, s <= t,
         NEW a, DecodesIn(c, a), t <= a
  PROVE  Stops(c, st, s, a) <=> Stops(c, st, t, a)
<1>1. After(c, a) \in Nat /\ t < After(c, a)
  BY InsnIn
<1> QED
  BY <1>1 DEF Stops

\* A walk that comes by the start of another one has all of its path.
LEMMA PathsJoin ==
  ASSUME NEW c \in Codes, NEW st, NEW s \in Nat, NEW t \in Nat,
         NEW f, NEW g, Whole(c, st, s, f), Whole(c, st, t, g), t \in f.passed
  PROVE  g.passed \subseteq f.passed /\ t \in g.passed /\ s <= t
<1> DEFINE S == g.passed \ f.passed
<1>1. DecodesIn(c, t) /\ s <= t /\ t \in g.passed
  BY DEF Whole
<1>2. S \in SUBSET Nat
  BY InsnIn DEF Whole
<1>3. ASSUME S # {} PROVE FALSE
  <2>1. PICK a \in S : \A y \in S : a <= y
    <3> HIDE DEF S
    <3> QED
      BY <1>2, <1>3, LeastOne
  <2>2. /\ DecodesIn(c, a) /\ t <= a /\ Reached(c, st, t, g.passed, a)
        /\ a # t /\ a \in Nat /\ a < N /\ N \in Nat
    BY <2>1, InsnIn, CodeTypes DEF Whole
  <2>3. ~Gap(c, t, a)
    <3>1. t \in t..(a - 1)
      BY <2>2
    <3> QED
      BY <1>1, <3>1 DEF Gap
  <2>4. PICK p \in g.passed : ~Stops(c, st, t, p) /\ After(c, p) <= a /\ Gap(c, After(c, p), a)
    BY <2>2, <2>3 DEF Reached
  <2>5. DecodesIn(c, p) /\ t <= p /\ p \in Nat /\ p < After(c, p) /\ After(c, p) \in Nat
    BY <2>4, InsnIn DEF Whole
  <2>6. p \in f.passed
    <3>1. p < a
      BY <2>2, <2>4, <2>5
    <3> QED
      BY <2>1, <2>2, <2>5, <3>1
  <2>7. GoesOn(c, f.passed, p, N)
    BY <1>1, <2>4, <2>5, <2>6, StopTogether DEF Whole
  <2>8. a \in After(c, p)..(N - 1)
    BY <2>2, <2>4, <2>5
  <2>9. a \in f.passed
    BY <2>2, <2>4, <2>7, <2>8 DEF GoesOn
  <2> QED
    BY <2>1, <2>9
<1> QED
  BY <1>1, <1>3

\* So they end together.
LEMMA EndTogether ==
  ASSUME NEW c \in Codes, NEW st, NEW s \in Nat, NEW t \in Nat,
         NEW f, NEW g, Whole(c, st, s, f), Whole(c, st, t, g), t \in f.passed
  PROVE  g.end = f.end /\ g.callees \subseteq f.callees
<1>1. g.passed \subseteq f.passed /\ t \in g.passed /\ s <= t
  BY PathsJoin
<1>2. g.passed \in SUBSET Address
  BY InsnIn DEF Whole
<1>3. PICK a \in g.passed : \A y \in g.passed : y <= a
  BY <1>1, <1>2, GreatestOne
<1>4. DecodesIn(c, a) /\ t <= a /\ a \in Nat /\ a < After(c, a) /\ After(c, a) \in Nat
  BY <1>3, InsnIn DEF Whole
<1>5. Stops(c, st, s, a) <=> Stops(c, st, t, a)
  BY <1>1, <1>4, StopTogether
<1>6. g.end = f.end
  <2>1. CASE Stops(c, st, t, a)
    BY <1>1, <1>3, <1>5, <2>1 DEF Whole
  <2>2. CASE ~Stops(c, st, t, a)
    <3>1. GoesOn(c, g.passed, a, N)
      BY <1>3, <2>2 DEF Whole
    <3>2. ASSUME ~Gap(c, After(c, a), N) PROVE FALSE
      <4>1. PICK x \in After(c, a)..(N - 1) : DecodesIn(c, x) /\ Gap(c, After(c, a), x)
        BY <1>4, <3>2, NextOnPath
      <4>2. x \in g.passed
        BY <3>1, <4>1 DEF GoesOn
      <4>3. x \in Nat /\ a < x
        BY <1>4, <4>1, InsnIn
      <4> QED
        BY <1>3, <1>4, <4>2, <4>3
    <3>3. g.end = After(c, a)
      BY <1>3, <2>2, <3>2 DEF Whole
    <3>4. f.end = After(c, a)
      BY <1>1, <1>3, <1>5, <2>2, <3>2 DEF Whole
    <3> QED
      BY <3>3, <3>4
  <2> QED
    BY <2>1, <2>2
<1>7. g.callees \subseteq f.callees
  BY <1>1 DEF Whole, Targets
<1> QED
  BY <1>6, <1>7

----------------------------------------------------------------------------
(* How a walk makes its path. *)

LEMMA NoGapHere ==
  ASSUME NEW c, NEW n \in Nat, NEW b \in Nat, NEW m \in Nat, n <= b, b < m, DecodesIn(c, b)
  PROVE  ~Gap(c, n, m)
<1>1. b \in n..(m - 1)
  OBVIOUS
<1> QED
  BY <1>1 DEF Gap

LEMMA TrailBegins ==
  ASSUME NEW c, NEW st, NEW s \in Nat
  PROVE  Trail(c, st, s, {}, s, s)
<1>1. Gap(c, s, s)
  BY DEF Gap
<1> QED
  BY <1>1 DEF Trail, Reached

LEMMA GapGrows ==
  ASSUME NEW c, NEW n \in Nat, NEW b \in Nat, ~DecodesIn(c, b)
  PROVE  /\ Gap(c, n, b) => Gap(c, n, b + 1)
         /\ n <= b => (Gap(c, n, b + 1) => Gap(c, n, b))
BY DEF Gap

LEMMA TrailOverGap ==
  ASSUME NEW c \in Codes, NEW st, NEW s \in Nat, NEW P, NEW last, NEW b \in Nat, s <= b,
         Trail(c, st, s, P, last, b), ~DecodesIn(c, b)
  PROVE  Trail(c, st, s, P, last, b + 1)
<1>1. ASSUME NEW a \in P
      PROVE  /\ DecodesIn(c, a) /\ After(c, a) \in Nat /\ After(c, a) <= b
             /\ GoesOn(c, P, a, b + 1)
             /\ Gap(c, After(c, a), b + 1) => last = After(c, a)
  <2>1. DecodesIn(c, a) /\ After(c, a) <= b /\ GoesOn(c, P, a, b)
        /\ (Gap(c, After(c, a), b) => last = After(c, a))
    BY DEF Trail
  <2>2. After(c, a) \in Nat
    BY <2>1, InsnIn
  <2>3. GoesOn(c, P, a, b + 1)
    BY <2>1, <2>2 DEF GoesOn
  <2> QED
    BY <2>1, <2>2, <2>3, GapGrows
<1>2. Reached(c, st, s, P, b + 1)
  <2>1. CASE Gap(c, s, b)
    BY <2>1, GapGrows DEF Reached
  <2>2. CASE \E p \in P : ~Stops(c, st, s, p) /\ After(c, p) <= b /\ Gap(c, After(c, p), b)
    <3>1. PICK p \in P : ~Stops(c, st, s, p) /\ After(c, p) <= b /\ Gap(c, After(c, p), b)
      BY <2>2
    <3>2. After(c, p) \in Nat /\ After(c, p) <= b + 1 /\ Gap(c, After(c, p), b + 1)
      BY <1>1, <3>1, GapGrows
    <3> QED
      BY <3>1, <3>2 DEF Reached
  <2> QED
    BY <2>1, <2>2 DEF Trail, Reached
<1>3. DecodesIn(c, s) /\ s < b + 1 => s \in P
  BY DEF Trail
<1>4. \A a \in P : s <= a /\ Reached(c, st, s, P, a) /\ ~Stops(c, st, s, a) /\ After(c, a) <= b + 1
  BY <1>1 DEF Trail
<1> QED
  BY <1>1, <1>2, <1>3, <1>4 DEF Trail

\* What both outcomes of an instruction at b have in common.
LEMMA PathGrows ==
  ASSUME NEW c \in Codes, NEW st, NEW s \in Nat, NEW P, NEW last, NEW b \in Nat, s <= b,
         Trail(c, st, s, P, last, b), DecodesIn(c, b)
  PROVE  /\ \A a \in P \cup {b} :
              DecodesIn(c, a) /\ s <= a /\ Reached(c, st, s, P \cup {b}, a)
         /\ DecodesIn(c, s) => s \in P \cup {b}
         /\ \A a \in P, m \in Nat : b < m =>
              GoesOn(c, P \cup {b}, a, m) /\ ~Gap(c, After(c, a), m)
         /\ \A a \in P : ~Stops(c, st, s, a)
<1>1. \A x \in Nat : Reached(c, st, s, P, x) => Reached(c, st, s, P \cup {b}, x)
  BY DEF Reached
<1>2. \A a \in P : DecodesIn(c, a) /\ s <= a /\ Reached(c, st, s, P, a) /\ a \in Nat
  BY InsnIn DEF Trail
<1>3. Reached(c, st, s, P, b)
  BY DEF Trail
<1>4. ASSUME NEW a \in P, NEW m \in Nat, b < m
      PROVE  GoesOn(c, P \cup {b}, a, m) /\ ~Gap(c, After(c, a), m)
  <2>1. After(c, a) \in Nat /\ After(c, a) <= b /\ GoesOn(c, P, a, b)
    BY InsnIn DEF Trail
  <2>2. ~Gap(c, After(c, a), m)
    BY <1>4, <2>1, NoGapHere
  <2>3. ASSUME NEW x \in After(c, a)..(m - 1), DecodesIn(c, x), Gap(c, After(c, a), x)
        PROVE  x \in P \cup {b}
    <3>1. x \in Nat
      BY <2>1
    <3>2. ~(b < x)
      BY <2>1, <2>3, <3>1, NoGapHere
    <3>3. CASE x < b
      <4>1. x \in After(c, a)..(b - 1)
        BY <2>1, <3>1, <3>3
      <4> QED
        BY <2>1, <2>3, <4>1 DEF GoesOn
    <3> QED
      BY <3>1, <3>2, <3>3
  <2> QED
    BY <2>2, <2>3 DEF GoesOn
<1> QED
  BY <1>1, <1>2, <1>3, <1>4 DEF Trail

LEMMA TrailGoesOn ==
  ASSUME NEW c \in Codes, NEW st, NEW s \in Nat, NEW P, NEW last, NEW b \in Nat, s <= b,
         Trail(c, st, s, P, last, b), DecodesIn(c, b), ~Stops(c, st, s, b)
  PROVE  Trail(c, st, s, P \cup {b}, After(c, b), After(c, b))
<1> DEFINE n == After(c, b)
<1>1. n \in Nat /\ b < n
  BY InsnIn
<1>2. \A a \in P : DecodesIn(c, a) /\ After(c, a) \in Nat /\ After(c, a) <= b
  BY InsnIn DEF Trail
<1>3. Gap(c, n, n) /\ GoesOn(c, P \cup {b}, b, n)
  BY <1>1 DEF Gap, GoesOn
<1>4. ASSUME NEW a \in P
      PROVE  /\ After(c, a) <= n /\ ~Stops(c, st, s, a)
             /\ GoesOn(c, P \cup {b}, a, n) /\ ~Gap(c, After(c, a), n)
  <2>1. /\ \A q \in P, m \in Nat : b < m =>
             GoesOn(c, P \cup {b}, q, m) /\ ~Gap(c, After(c, q), m)
        /\ \A q \in P : ~Stops(c, st, s, q)
    BY PathGrows
  <2> QED
    BY <1>1, <1>2, <2>1
<1>5. Reached(c, st, s, P \cup {b}, n)
  BY <1>1, <1>3 DEF Reached
<1>6. /\ \A a \in P \cup {b} :
           DecodesIn(c, a) /\ s <= a /\ Reached(c, st, s, P \cup {b}, a)
      /\ DecodesIn(c, s) => s \in P \cup {b}
  BY PathGrows
<1> QED
  BY <1>1, <1>3, <1>4, <1>5, <1>6 DEF Trail

LEMMA TrailEnds ==
  ASSUME NEW c \in Codes, NEW st, NEW s \in Nat, NEW P, NEW last, NEW b \in Nat, s <= b,
         Trail(c, st, s, P, last, b), DecodesIn(c, b), Stops(c, st, s, b),
         NEW f, f.passed = P \cup {b}, f.end = After(c, b),
         f.callees = Targets(c, P \cup {b}) \cap st
  PROVE  Whole(c, st, s, f)
<1>1. b < N /\ N \in Nat
  BY InsnIn, CodeTypes
<1>2. ASSUME NEW a \in P
      PROVE  /\ ~Stops(c, st, s, a)
             /\ GoesOn(c, f.passed, a, N) /\ ~Gap(c, After(c, a), N)
  <2>1. /\ \A q \in P, m \in Nat : b < m =>
             GoesOn(c, P \cup {b}, q, m) /\ ~Gap(c, After(c, q), m)
        /\ \A q \in P : ~Stops(c, st, s, q)
    BY PathGrows
  <2> QED
    BY <1>1, <2>1
<1>3. /\ \A a \in P \cup {b} :
           DecodesIn(c, a) /\ s <= a /\ Reached(c, st, s, P \cup {b}, a)
      /\ DecodesIn(c, s) => s \in P \cup {b}
  BY PathGrows
<1> QED
  BY <1>2, <1>3 DEF Whole

LEMMA TrailRunsOut ==
  ASSUME NEW c \in Codes, NEW st, NEW s \in Nat, NEW P, NEW last,
         Trail(c, st, s, P, last, N),
         NEW f, f.passed = P, f.end = last, f.callees = Targets(c, P) \cap st
  PROVE  Whole(c, st, s, f)
<1>1. DecodesIn(c, s) => s < N
  BY InsnIn
<1> QED
  BY <1>1 DEF Trail, Whole

----------------------------------------------------------------------------

(***************************************************************************)
(* Every function recorded is a whole walk, and the walk under way is the  *)
(* beginning of one.                                                       *)
(***************************************************************************)

UnderWay ==
  walk # NoWalk =>
    /\ walk = [start |-> walk.start, addr |-> walk.addr, last |-> walk.last,
               callees |-> walk.callees, passed |-> walk.passed]
    /\ Trail(code, starts, walk.start, walk.passed, walk.last, walk.addr)
    /\ walk.callees = Targets(code, walk.passed)

PathInv ==
  /\ \A s \in DOMAIN funcs : Whole(code, starts, s, funcs[s])
  /\ UnderWay

LEMMA SameDecodes == \A a : Decodes(a) <=> DecodesIn(code, a)
BY DEF Decodes, DecodesIn

LEMMA WalkIsInside ==
  ASSUME IInv, walk # NoWalk
  PROVE  /\ walk.start \in Nat /\ walk.addr \in Nat /\ walk.last \in Nat
         /\ walk.start <= walk.addr /\ walk.last <= walk.addr
         /\ walk.start \in Address => walk.addr <= N
         /\ code \in Codes /\ N \in Nat
BY CodeTypes DEF IInv, WalkInside

\* A whole walk is recorded, and the others stay as they were.
LEMMA RecordWhole ==
  ASSUME IInv, PathInv, NEW end, NEW callees, NEW passed, Record(end, callees, passed),
         \A f : (f.passed = passed /\ f.end = end /\ f.callees = callees \cap starts) =>
                  Whole(code, starts, walk.start, f),
         UNCHANGED <<code, starts>>
  PROVE  PathInv'
<1> DEFINE row == [end |-> end, callees |-> callees \cap starts, passed |-> passed]
<1>1. Whole(code, starts, walk.start, row)
  <2>1. row.passed = passed /\ row.end = end /\ row.callees = callees \cap starts
    OBVIOUS
  <2> HIDE DEF row
  <2> QED
    BY <2>1
<1>2. walk' = NoWalk
  BY DEF Record
<1>3. ASSUME NEW s \in DOMAIN funcs' PROVE Whole(code, starts, s, funcs'[s])
  <2>1. CASE s = walk.start
    <3>1. funcs'[s] = row
      BY <2>1 DEF Record
    <3> HIDE DEF row
    <3> QED
      BY <1>1, <2>1, <3>1
  <2>2. CASE s # walk.start
    BY <1>3, <2>2 DEF Record, PathInv
  <2> QED
    BY <2>1, <2>2
<1> QED
  BY <1>2, <1>3 DEF PathInv, UnderWay, NoWalk

LEMMA PathFrom ==
  ASSUME IInv, PathInv, WalkFrom, IInv'
  PROVE  PathInv'
<1> DEFINE s == Min(starts \ DOMAIN funcs)
<1>1. walk' = [start |-> s, addr |-> s, last |-> s, callees |-> {}, passed |-> {}]
  BY DEF WalkFrom
<1>2. walk'.start = s /\ walk' # NoWalk
  BY <1>1 DEF NoWalk
<1>3. s \in Nat
  <2>2. walk'.start \in Nat
    BY <1>2 DEF IInv, WalkInside
  <2> HIDE DEF s
  <2> QED
    BY <1>2, <2>2
<1>4. Trail(code, starts, s, {}, s, s)
  <2> HIDE DEF s
  <2> QED
    BY <1>3, TrailBegins
<1>5. Targets(code, {}) = {}
  BY DEF Targets
<1> HIDE DEF s
<1>6. UNCHANGED <<code, starts, funcs>>
  BY DEF WalkFrom
<1> QED
  BY <1>1, <1>4, <1>5, <1>6 DEF PathInv, UnderWay

LEMMA PathInsn ==
  ASSUME IInv, PathInv, WalkInsn
  PROVE  PathInv'
<1> DEFINE b       == walk.addr
           insn    == code[b]
           next    == b + insn.size
           callees == walk.callees \cup (IF insn.kind = "call" THEN {insn.target} ELSE {})
           passed  == walk.passed \cup {b}
<1>1. /\ walk # NoWalk /\ DecodesIn(code, b) /\ next = After(code, b)
      /\ UNCHANGED <<code, phase, pos, calls, starts>>
  BY SameDecodes DEF WalkInsn, After
<1>2. /\ walk.start \in Nat /\ b \in Nat /\ walk.start <= b /\ code \in Codes
  BY <1>1, WalkIsInside
<1>3. /\ Trail(code, starts, walk.start, walk.passed, walk.last, b)
      /\ walk.callees = Targets(code, walk.passed)
      /\ walk = [start |-> walk.start, addr |-> b, last |-> walk.last,
                 callees |-> walk.callees, passed |-> walk.passed]
  BY <1>1 DEF PathInv, UnderWay
<1>4. callees = Targets(code, passed)
  BY <1>3 DEF Targets
<1>5. (insn.kind \in {"ret", "jump"} \/ RunsInto(next)) <=> Stops(code, starts, walk.start, b)
  BY <1>1 DEF RunsInto, Stops
<1>6. CASE Stops(code, starts, walk.start, b)
  <2>1. Record(next, callees, passed)
    BY <1>5, <1>6 DEF WalkInsn
  <2> HIDE DEF next, callees, passed
  <2>2. \A f : (f.passed = passed /\ f.end = next /\ f.callees = callees \cap starts) =>
                 Whole(code, starts, walk.start, f)
    BY <1>1, <1>2, <1>3, <1>4, <1>6, TrailEnds DEF passed
  <2> QED
    BY <1>1, <2>1, <2>2, RecordWhole
<1>7. CASE ~Stops(code, starts, walk.start, b)
  <2>1. /\ walk' = [walk EXCEPT !.addr = next, !.last = next, !.callees = callees,
                                !.passed = passed]
        /\ UNCHANGED funcs
    BY <1>5, <1>7 DEF WalkInsn
  <2> HIDE DEF next, callees
  <2>2. Trail(code, starts, walk.start, passed, next, next)
    BY <1>1, <1>2, <1>3, <1>7, TrailGoesOn
  <2> HIDE DEF passed, b
  <2>3. walk' = [start |-> walk.start, addr |-> next, last |-> next,
                 callees |-> callees, passed |-> passed]
    BY <1>3, <2>1
  <2> QED
    BY <1>1, <1>4, <2>1, <2>2, <2>3 DEF PathInv, UnderWay
<1> QED
  BY <1>6, <1>7

LEMMA PathGap ==
  ASSUME IInv, PathInv, WalkGap
  PROVE  PathInv'
<1>1. walk # NoWalk /\ ~DecodesIn(code, walk.addr) /\ UNCHANGED <<code, starts, funcs>>
  BY SameDecodes DEF WalkGap
<1>2. Trail(code, starts, walk.start, walk.passed, walk.last, walk.addr + 1)
  BY <1>1, WalkIsInside, TrailOverGap DEF PathInv, UnderWay
<1>3. walk' = [start |-> walk.start, addr |-> walk.addr + 1, last |-> walk.last,
               callees |-> walk.callees, passed |-> walk.passed]
  BY <1>1 DEF WalkGap, PathInv, UnderWay
<1> QED
  BY <1>1, <1>2, <1>3 DEF PathInv, UnderWay

LEMMA PathOut ==
  ASSUME IInv, PathInv, WalkOut
  PROVE  PathInv'
<1>1. walk # NoWalk /\ walk.addr >= N /\ UNCHANGED <<code, starts>>
      /\ Record(Min({walk.last, N}), walk.callees, walk.passed)
  BY DEF WalkOut
<1>2. /\ walk.start \in Nat /\ walk.last \in Nat /\ walk.last <= walk.addr
      /\ code \in Codes /\ N \in Nat
  BY <1>1, WalkIsInside
<1>3. CASE walk.start \in Address
  <2>1. walk.addr = N
    BY <1>1, <1>3, WalkIsInside
  <2>2. Min({walk.last, N}) = walk.last
    <3>1. Min({walk.last, N}) \in {walk.last, N} /\ Min({walk.last, N}) <= walk.last
      BY <1>2, LeastIsMember
    <3> QED
      BY <1>2, <2>1, <3>1
  <2>3. /\ Trail(code, starts, walk.start, walk.passed, walk.last, N)
        /\ walk.callees = Targets(code, walk.passed)
    BY <1>1, <2>1 DEF PathInv, UnderWay
  <2>4. \A f : (f.passed = walk.passed /\ f.end = walk.last
                  /\ f.callees = walk.callees \cap starts)
                 => Whole(code, starts, walk.start, f)
    BY <1>2, <2>3, TrailRunsOut
  <2> QED
    BY <1>1, <2>2, <2>4, RecordWhole
<1>4. CASE walk.start \notin Address
  <2>1. walk.callees = {} /\ walk.passed = {}
    BY <1>1, <1>4 DEF IInv, WalkInside
  <2>2. \A f : (f.passed = {} /\ f.callees = {}) => Whole(code, starts, walk.start, f)
    BY <1>4 DEF Whole, Targets, DecodesIn
  <2> QED
    BY <1>1, <2>1, <2>2, RecordWhole
<1> QED
  BY <1>3, <1>4

LEMMA PathStep ==
  ASSUME IInv, PathInv, [Next]_vars, IInv'
  PROVE  PathInv'
<1>1. CASE SweepInsn \/ SweepGap
  BY <1>1 DEF SweepInsn, SweepGap, PathInv, UnderWay, NoWalk
<1>2. CASE SweepEnd
  <2>1. starts = {} /\ DOMAIN funcs = {} /\ walk = NoWalk
    BY <1>2 DEF SweepEnd, IInv, TypeOK, NoneKnown, WalkInside
  <2> QED
    BY <1>2, <2>1 DEF SweepEnd, PathInv, UnderWay, NoWalk
<1>3. CASE WalkFrom
  BY <1>3, PathFrom
<1>4. CASE WalkInsn
  BY <1>4, PathInsn
<1>5. CASE WalkGap
  BY <1>5, PathGap
<1>6. CASE WalkOut
  BY <1>6, PathOut
<1>7. CASE Finish
  BY <1>7 DEF Finish, PathInv, UnderWay, NoWalk
<1>8. CASE UNCHANGED vars
  BY <1>8 DEF vars, PathInv, UnderWay, NoWalk
<1> QED
  BY <1>1, <1>2, <1>3, <1>4, <1>5, <1>6, <1>7, <1>8 DEF Next

LEMMA PathInvariance == Spec => [](IInv /\ PathInv)
<1>1. Init => IInv /\ PathInv
  <2>1. Init => PathInv
    BY DEF Init, PathInv, UnderWay
  <2> QED
    BY <2>1, InitHolds
<1>2. IInv /\ PathInv /\ [Next]_vars => IInv' /\ PathInv'
  BY StepHolds, PathStep
<1> QED
  BY <1>1, <1>2, PTL DEF Spec

\* function_extent: for every payload, a function whose walk goes on through another
\* one ends where that one ends, and calls whom it calls.
THEOREM NestedFunctionsEndTogether == Spec => []NestedEndTogether
<1>1. IInv /\ PathInv => NestedEndTogether
  <2> SUFFICES ASSUME IInv, PathInv, NEW s \in DOMAIN funcs, NEW t \in DOMAIN funcs,
                      t \in funcs[s].passed
               PROVE  funcs[t].end = funcs[s].end /\ funcs[t].callees \subseteq funcs[s].callees
    BY DEF NestedEndTogether
  <2>1. s \in Nat /\ t \in Nat /\ code \in Codes
    BY StartsAreNaturals DEF IInv, TypeOK
  <2>2. Whole(code, starts, s, funcs[s]) /\ Whole(code, starts, t, funcs[t])
    BY DEF PathInv
  <2> QED
    BY <2>1, <2>2, EndTogether
<1> QED
  BY <1>1, PathInvariance, PTL

\* function_extent: for every payload, a known start that an extent spans is not where
\* an instruction of its walk ended.
THEOREM StartsAreSpannedUnseen == Spec => []SpansUnseenOnly
<1>1. IInv /\ PathInv => SpansUnseenOnly
  <2> SUFFICES ASSUME IInv, PathInv, NEW s \in DOMAIN funcs, NEW t \in starts,
                      s < t, t < funcs[s].end, NEW a \in funcs[s].passed,
                      a + code[a].size = t
               PROVE  FALSE
    BY DEF SpansUnseenOnly
  <2>1. s \in Nat /\ t \in Nat
    BY StartsAreNaturals DEF IInv, TypeOK
  <2>2. Stops(code, starts, s, a) /\ After(code, a) = t
    BY <2>1 DEF Stops, After
  <2>3. funcs[s].end = t
    BY <2>2 DEF PathInv, Whole
  <2> QED
    BY <2>1, <2>3
<1> QED
  BY <1>1, PathInvariance, PTL

----------------------------------------------------------------------------

(***************************************************************************)
(* How long it takes.  A bound on the steps that are left falls with every *)
(* step, so that neither loop can go on for ever, on any payload.          *)
(***************************************************************************)

Unmeasured == starts \ DOMAIN funcs

\* Of a walk at a: the addresses before the end, and the record.
WalkLeft(a) == IF a < N THEN N + 1 - a ELSE 1

StepsLeft ==
  CASE phase = "sweep" -> (N + 1) * (N + 2) + 2 + (N - pos)
    [] phase = "walk" /\ walk = NoWalk -> 1 + Cardinality(Unmeasured) * (N + 2)
    [] phase = "walk" /\ walk # NoWalk ->
         1 + (Cardinality(Unmeasured) - 1) * (N + 2) + WalkLeft(walk.addr)
    [] phase = "done" -> 0

EveryStepCounts == [][StepsLeft' \in Nat /\ StepsLeft' < StepsLeft]_vars

\* What is being measured is not recorded yet.
Pending ==
  walk # NoWalk =>
    /\ phase = "walk" /\ walk.start \notin DOMAIN funcs
    /\ walk = [start |-> walk.start, addr |-> walk.addr, last |-> walk.last,
               callees |-> walk.callees, passed |-> walk.passed]

LEMMA OpenWalk ==
  ASSUME NEW s, NEW a, NEW l, NEW cs, NEW ps
  PROVE  [start |-> s, addr |-> a, last |-> l, callees |-> cs, passed |-> ps] # NoWalk
<1> DEFINE w == [start |-> s, addr |-> a, last |-> l, callees |-> cs, passed |-> ps]
<1>1. "addr" \in DOMAIN w /\ "addr" \notin DOMAIN NoWalk
  BY DEF NoWalk
<1> QED
  BY <1>1

\* A product grows with its first factor.
LEMMA Rows ==
  ASSUME NEW m \in Nat, NEW n \in Nat, m <= n, NEW d \in Nat
  PROVE  m * d \in Nat /\ n * d \in Nat /\ m * d <= n * d
OBVIOUS

LEMMA RowsLess ==
  ASSUME NEW m \in Nat \ {0}, NEW d \in Nat
  PROVE  (m - 1) * d \in Nat /\ m * d = (m - 1) * d + d
OBVIOUS

\* Starts can be counted.
LEMMA Counted ==
  ASSUME NEW t, NEW S \in SUBSET (Address \cup {t})
  PROVE  /\ IsFiniteSet(S) /\ Cardinality(S) \in 0..(N + 1)
         /\ S # {} => Cardinality(S) \in Nat \ {0}
<1>1. N \in Nat \ {0}
  BY CodeTypes
<1>2. IsFiniteSet(Address) /\ Cardinality(Address) = N
  BY <1>1, FS_Interval DEF Address
<1>3. IsFiniteSet(S) /\ Cardinality(S) <= N + 1
  <2>1. IsFiniteSet(Address \cup {t}) /\ Cardinality(Address \cup {t}) \in {N, N + 1}
    BY <1>2, FS_AddElement
  <2>2. Cardinality(S) <= Cardinality(Address \cup {t}) /\ IsFiniteSet(S)
    BY <2>1, FS_Subset
  <2>3. Cardinality(S) \in Nat
    BY <2>2, FS_CardinalityType
  <2> QED
    BY <1>1, <2>1, <2>2, <2>3
<1>4. Cardinality(S) \in Nat /\ (Cardinality(S) = 0 <=> S = {})
  BY <1>3, FS_CardinalityType, FS_EmptySet
<1> QED
  BY <1>1, <1>3, <1>4

LEMMA UnmeasuredIsCounted ==
  ASSUME IInv
  PROVE  /\ IsFiniteSet(Unmeasured) /\ Cardinality(Unmeasured) \in 0..(N + 1)
         /\ Unmeasured # {} => Cardinality(Unmeasured) \in Nat \ {0}
<1>1. Unmeasured \in SUBSET (Address \cup {code[0].target})
  BY StartsAreNaturals DEF IInv, Unmeasured
<1> QED
  BY <1>1, Counted

\* Recording a function ends its walk and leaves one fewer to measure.
LEMMA RecordCounts ==
  ASSUME IInv, Pending, phase = "walk", walk # NoWalk, phase' = phase, starts' = starts,
         NEW end, NEW callees, NEW passed, Record(end, callees, passed)
  PROVE  Pending' /\ StepsLeft' \in Nat /\ StepsLeft' < StepsLeft
<1>1. walk.start \in Unmeasured /\ walk.addr \in Nat /\ N \in Nat
  BY CodeTypes DEF IInv, WalkInside, Pending, Unmeasured
<1>2. DOMAIN funcs' = DOMAIN funcs \cup {walk.start} /\ walk' = NoWalk
  BY DEF Record
<1>3. Unmeasured' = Unmeasured \ {walk.start}
  BY <1>2 DEF Unmeasured
<1> DEFINE k == Cardinality(Unmeasured)
<1>4. k \in Nat \ {0} /\ Cardinality(Unmeasured') = k - 1
  BY <1>1, <1>3, UnmeasuredIsCounted, FS_RemoveElement
<1>5. StepsLeft = 1 + (k - 1) * (N + 2) + WalkLeft(walk.addr)
  BY DEF StepsLeft
<1>6. StepsLeft' = 1 + (k - 1) * (N + 2)
  BY <1>2, <1>4 DEF StepsLeft, NoWalk
<1> HIDE DEF k
<1>7. (k - 1) * (N + 2) \in Nat
  BY <1>1, <1>4
<1>8. StepsLeft' \in Nat /\ StepsLeft' < StepsLeft
  BY <1>1, <1>5, <1>6, <1>7 DEF WalkLeft
<1>9. Pending'
  BY <1>2 DEF Pending, NoWalk
<1> QED
  BY <1>8, <1>9

LEMMA Nearer ==
  ASSUME NEW n \in Nat, NEW m \in Nat, NEW x \in Nat, NEW y \in Nat, x < y, y <= n
  PROVE  m + 2 + (n - y) \in Nat /\ m + 2 + (n - y) < m + 2 + (n - x)
OBVIOUS

LEMMA StepCounts ==
  ASSUME IInv, Pending, Next
  PROVE  Pending' /\ StepsLeft' \in Nat /\ StepsLeft' < StepsLeft
<1>1. N \in Nat \ {0} /\ (N + 1) * (N + 2) \in Nat /\ pos \in 0..N
  BY CodeTypes DEF IInv, TypeOK
<1>2. phase = "sweep" => StepsLeft = (N + 1) * (N + 2) + 2 + (N - pos)
  BY DEF StepsLeft
<1> DEFINE k == Cardinality(Unmeasured)
<1>3. k \in 0..(N + 1) /\ (Unmeasured # {} => k \in Nat \ {0})
  BY UnmeasuredIsCounted
<1>4. CASE SweepInsn \/ SweepGap
  <2>1. phase = "sweep" /\ phase' = "sweep" /\ walk' = walk /\ funcs' = funcs
    BY <1>4 DEF SweepInsn, SweepGap
  <2>2. pos' \in 0..N
    BY <1>4, SweepHolds DEF IInv, TypeOK
  <2>3. pos' > pos
    <3>1. CASE SweepInsn
      <4>1. code[pos].size \in {1, 2}
        BY <3>1, Halfword DEF SweepInsn, Decodes, IInv
      <4> QED
        BY <1>1, <3>1, <4>1 DEF SweepInsn
    <3>2. CASE SweepGap
      BY <1>1, <3>2 DEF SweepGap
    <3> QED
      BY <1>4, <3>1, <3>2
  <2>4. PICK m \in Nat : m = (N + 1) * (N + 2)
    BY <1>1
  <2>5. StepsLeft = m + 2 + (N - pos) /\ StepsLeft' = m + 2 + (N - pos')
    BY <1>2, <2>1, <2>4 DEF StepsLeft
  <2>6. N \in Nat /\ pos \in 0..N
    BY <1>1
  <2>7. Pending'
    BY <2>1 DEF Pending
  <2>8. PICK x \in Nat, y \in Nat : x = pos /\ y = pos' /\ x < y /\ y <= N
    BY <2>2, <2>3, <2>6
  <2>9. m + 2 + (N - y) \in Nat /\ m + 2 + (N - y) < m + 2 + (N - x)
    BY <2>6, <2>8, Nearer
  <2> QED
    BY <2>5, <2>7, <2>8, <2>9
<1>5. CASE SweepEnd
  <2>1. phase = "sweep" /\ phase' = "walk" /\ walk' = walk /\ walk = NoWalk
    BY <1>5 DEF SweepEnd, Pending
  <2>2. Cardinality(Unmeasured)' \in 0..(N + 1)
    <3>1. PICK t : t = code[0].target
      OBVIOUS
    <3>2. code' = code /\ TypeOK'
      BY <1>5, SweepEndHolds DEF IInv, SweepEnd
    <3>3. Unmeasured' \in SUBSET (Address \cup {t})
      BY <3>1, <3>2 DEF TypeOK, Unmeasured
    <3> QED
      BY <3>3, Counted
  <2>3. StepsLeft' = 1 + Cardinality(Unmeasured)' * (N + 2)
    BY <2>1 DEF StepsLeft, NoWalk
  <2>4. PICK m : m = Cardinality(Unmeasured)'
    OBVIOUS
  <2>5. m * (N + 2) \in Nat /\ m * (N + 2) <= (N + 1) * (N + 2)
    BY <1>1, <2>2, <2>4, Rows
  <2>6. Pending'
    BY <2>1 DEF Pending, NoWalk
  <2> QED
    BY <1>1, <1>2, <2>1, <2>3, <2>4, <2>5, <2>6
<1>6. CASE WalkFrom
  <2>1. IInv'
    BY <1>6, WalkFromHolds
  <2>2. /\ phase = "walk" /\ phase' = "walk" /\ walk = NoWalk
        /\ Unmeasured' = Unmeasured /\ funcs' = funcs
    BY <1>6 DEF WalkFrom, Unmeasured
  <2>3. Unmeasured # {}
    <3>1. DOMAIN funcs \subseteq starts /\ starts # DOMAIN funcs
      BY <1>6 DEF WalkFrom, IInv, TypeOK
    <3> QED
      BY <3>1, Zenon DEF Unmeasured
  <2>4. Unmeasured \in SUBSET Nat
    BY StartsAreNaturals DEF IInv, Unmeasured
  <2>5. PICK s \in Unmeasured : s = Min(starts \ DOMAIN funcs)
    BY <2>3, <2>4, MinIsMember DEF Unmeasured
  <2>6. walk' = [start |-> s, addr |-> s, last |-> s, callees |-> {}, passed |-> {}]
    BY <1>6, <2>5 DEF WalkFrom
  <2>7. walk'.start = s /\ walk'.addr = s /\ s \in Nat /\ walk' # NoWalk
    BY <2>4, <2>6, OpenWalk
  <2>8. Cardinality(Unmeasured)' = k
    BY <2>2
  <2>9. StepsLeft = 1 + k * (N + 2)
    BY <2>2 DEF StepsLeft
  <2>10. StepsLeft' = 1 + (k - 1) * (N + 2) + WalkLeft(s)
    BY <2>2, <2>7, <2>8 DEF StepsLeft, NoWalk
  <2>11. WalkLeft(s) \in Nat /\ WalkLeft(s) < N + 2
    BY <1>1, <2>7 DEF WalkLeft
  <2> HIDE DEF k
  <2>12. (k - 1) * (N + 2) \in Nat /\ k * (N + 2) = (k - 1) * (N + 2) + (N + 2)
    BY <1>1, <1>3, <2>3, RowsLess
  <2>13. Pending'
    BY <2>2, <2>5, <2>6, <2>7 DEF Pending, Unmeasured
  <2> QED
    BY <1>1, <2>7, <2>9, <2>10, <2>11, <2>12, <2>13
<1>7. ASSUME phase = "walk", walk # NoWalk, phase' = phase, starts' = starts, funcs' = funcs,
             walk.addr < N, IInv', NEW a, a > walk.addr, NEW l, NEW cs, NEW ps,
             walk' = [start |-> walk.start, addr |-> a, last |-> l, callees |-> cs,
                      passed |-> ps]
      PROVE  Pending' /\ StepsLeft' \in Nat /\ StepsLeft' < StepsLeft
  <2>0. walk' # NoWalk /\ walk'.start = walk.start /\ walk'.addr = a
    BY <1>7, OpenWalk
  <2>1. /\ walk.addr \in Nat /\ walk.start \in Unmeasured /\ a \in Nat /\ walk.addr < N
    BY <1>7, <2>0 DEF IInv, WalkInside, Pending, Unmeasured, NoWalk
  <2>2. Cardinality(Unmeasured)' = k /\ Unmeasured # {}
    BY <1>7, <2>1 DEF Unmeasured
  <2>3. StepsLeft = 1 + (k - 1) * (N + 2) + WalkLeft(walk.addr)
    BY <1>7 DEF StepsLeft
  <2>4. StepsLeft' = 1 + (k - 1) * (N + 2) + WalkLeft(a)
    BY <1>7, <2>0, <2>2 DEF StepsLeft, NoWalk
  <2> HIDE DEF k
  <2>5. (k - 1) * (N + 2) \in Nat
    BY <1>1, <1>3, <2>2, RowsLess
  <2>6. Pending'
    BY <1>7, <2>0 DEF Pending
  <2> QED
    BY <1>1, <1>7, <2>1, <2>3, <2>4, <2>5, <2>6 DEF WalkLeft
<1>8. CASE WalkInsn
  <2> DEFINE insn    == code[walk.addr]
             next    == walk.addr + insn.size
             callees == walk.callees \cup (IF insn.kind = "call" THEN {insn.target} ELSE {})
             passed  == walk.passed \cup {walk.addr}
  <2>1. CASE insn.kind \in {"ret", "jump"} \/ RunsInto(next)
    <3>1. Record(next, callees, passed)
      BY <1>8, <2>1 DEF WalkInsn
    <3> QED
      BY <1>8, <3>1, RecordCounts DEF WalkInsn
  <2>2. CASE ~(insn.kind \in {"ret", "jump"} \/ RunsInto(next))
    <3>1. /\ walk' = [walk EXCEPT !.addr = next, !.last = next, !.callees = callees,
                                  !.passed = passed]
          /\ funcs' = funcs
      BY <1>8, <2>2 DEF WalkInsn
    <3>2. walk' = [start |-> walk.start, addr |-> next, last |-> next, callees |-> callees,
                   passed |-> passed]
      BY <1>8, <3>1 DEF WalkInsn, Pending
    <3>3. next > walk.addr
      <4>1. insn.size \in {1, 2} /\ walk.addr \in Nat
        BY <1>8, Halfword DEF WalkInsn, Decodes, IInv, WalkInside
      <4> QED
        BY <4>1
    <3>4. walk.addr < N
      BY <1>1, <1>8 DEF WalkInsn, Decodes, Address
    <3>5. IInv'
      BY <1>8, WalkInsnHolds
    <3> HIDE DEF next, callees, passed
    <3> QED
      BY <1>7, <1>8, <3>1, <3>2, <3>3, <3>4, <3>5 DEF WalkInsn
  <2> QED
    BY <2>1, <2>2
<1>9. CASE WalkGap
  <2>1. walk' = [start |-> walk.start, addr |-> walk.addr + 1, last |-> walk.last,
                 callees |-> walk.callees, passed |-> walk.passed]
    BY <1>9 DEF WalkGap, Pending
  <2>2. walk.addr + 1 > walk.addr /\ IInv'
    BY <1>9, WalkGapHolds DEF WalkGap, IInv, WalkInside
  <2> QED
    BY <1>7, <1>9, <2>1, <2>2 DEF WalkGap
<1>10. CASE WalkOut
  BY <1>10, RecordCounts DEF WalkOut
<1>11. CASE Finish
  <2>1. /\ phase = "walk" /\ walk = NoWalk /\ phase' = "done" /\ walk' = NoWalk
        /\ StepsLeft' = 0
    BY <1>11 DEF Finish, StepsLeft, NoWalk
  <2>2. StepsLeft = 1 + k * (N + 2)
    BY <2>1 DEF StepsLeft
  <2> HIDE DEF k
  <2>3. k * (N + 2) \in Nat
    BY <1>1, <1>3
  <2> QED
    BY <1>1, <2>1, <2>2, <2>3 DEF Pending, NoWalk
<1> QED
  BY <1>4, <1>5, <1>6, <1>8, <1>9, <1>10, <1>11 DEF Next

\* all_direct_calls and build: for every payload, each step of the two loops leaves fewer
\* steps to go; from the first, at most (N + 1) * (N + 2) + 2 + N.
THEOREM EveryStepIsCounted == Spec => EveryStepCounts
<1>1. Init => IInv /\ Pending
  BY InitHolds DEF Init, Pending, NoWalk
<1>2. IInv /\ Pending /\ [Next]_vars => (IInv /\ Pending)'
  <2>1. ASSUME IInv, Pending, Next
        PROVE  (IInv /\ Pending)'
    BY <2>1, StepHolds, StepCounts
  <2>2. ASSUME IInv, Pending, UNCHANGED vars
        PROVE  (IInv /\ Pending)'
    <3>1. IInv'
      BY <2>2, StepHolds
    <3>2. Pending'
      BY <2>2 DEF vars, Pending, NoWalk
    <3> QED
      BY <3>1, <3>2
  <2> QED
    BY <2>1, <2>2
<1>3. IInv /\ Pending /\ [Next]_vars => [StepsLeft' \in Nat /\ StepsLeft' < StepsLeft]_vars
  BY StepCounts
<1> QED
  BY <1>1, <1>2, <1>3, PTL DEF Spec, EveryStepCounts

=============================================================================
