-------------------------- MODULE TriggerScanProofs --------------------------
(***************************************************************************)
(* The rows of TriggerScan for payloads and windows of every size: where a *)
(* window lies, and when its row says what the call passes.  The sweep and *)
(* the window decode the same bytes from different places; what relates    *)
(* them is that the sweep's path leads from any address on it to the call. *)
(* The steps are bounded; that every call gets its row, as a liveness      *)
(* property, stays with the model checker.                                 *)
(***************************************************************************)
EXTENDS TriggerScan, TLAPS, WellFoundedInduction, FiniteSetTheorems

Moves == {"li", "mv"}

\* What li or mv leaves in a0.
Value(c, a) == IF c[a].kind = "li" THEN c[a].imm ELSE None

\* One instruction after the other, the last of them in front of b.
Chain(c, P, b) ==
  /\ \A a \in P :
       /\ a \in Address /\ a < b /\ c[a].kind # "bad"
       /\ a + c[a].size = b \/ a + c[a].size \in P
  /\ \A a, x \in P : a < x => a + c[a].size <= x

\* From w on, P has but moves into a0 and instructions that leave it alone.
MovesFrom(c, P, w) == \A a \in P : a >= w => c[a].kind \in Moves \cup {"other"}

\* h is what the machine makes of a0 on its path to b: where only moves set a0, its
\* value is that of the last of them.
Sound(c, h, b) ==
  /\ h = [value |-> h.value, set |-> h.set, path |-> h.path]
  /\ h.set \in Int /\ h.set < b
  /\ Chain(c, h.path, b)
  /\ \A w \in h.path : MovesFrom(c, h.path, w) =>
       \/ /\ h.set < w
          /\ \A a \in h.path : a >= w => c[a].kind = "other"
       \/ /\ h.set >= w /\ h.set \in h.path /\ c[h.set].kind \in Moves
          /\ h.value = Value(c, h.set)
          /\ \A a \in h.path : a > h.set => c[a].kind = "other"

\* last is the value of the last move of P in w .. b - 1.
Found(c, P, w, b, last) ==
  \/ /\ last = None
     /\ \A a \in P : w <= a /\ a < b => c[a].kind \notin Moves
  \/ \E m \in P :
       /\ w <= m /\ m < b /\ c[m].kind \in Moves /\ last = Value(c, m)
       /\ \A a \in P : m < a /\ a < b => c[a].kind \notin Moves

Histories == Sound(code, a0, pos) /\ \A s \in sites : Sound(code, held[s], s)

Sites == sites \subseteq Address /\ (phase = "sweep" => DOMAIN rows = {} /\ scan = NoScan)

\* A window that begins on the path of its call stays on it.
ScanOnPath ==
  scan # NoScan =>
    /\ scan = [site |-> scan.site, addr |-> scan.addr, last |-> scan.last]
    /\ scan.site \in sites /\ WindowStart(scan.site) <= scan.addr
    /\ InStep(scan.site) /\ OnlyMoves(scan.site) =>
         /\ scan.addr \in held[scan.site].path \cup {scan.site}
         /\ Found(code, held[scan.site].path, WindowStart(scan.site), scan.addr, scan.last)

IInv ==
  code \in Codes /\ TypeOK /\ Sites /\ Histories /\ ScanOnPath /\ RowsExactInStep

----------------------------------------------------------------------------

LEMMA AddressFacts ==
  /\ N \in Nat \ {0} /\ BACK_WINDOW \in Nat /\ None \notin Nat
  /\ \A a \in Address : a \in Nat /\ a < N
BY CodeTypes DEF Address

LEMMA Halfword ==
  ASSUME NEW c \in Codes, NEW a \in Address
  PROVE  c[a].size \in {1, 2} /\ c[a].imm \in Nat /\ c[a].kind \in Kind
BY CodeTypes

LEMMA LeastOne ==
  ASSUME NEW S \in SUBSET Nat, S # {}
  PROVE  \E x \in S : \A y \in S : x <= y
<1>1. PICK x \in S : \A y \in S : ~(<<y, x>> \in OpToRel(<, Nat))
  BY NatLessThanWellFounded, WFMin
<1>2. ASSUME NEW y \in S PROVE x <= y
  <2>1. <<y, x>> \in Nat \X Nat
    OBVIOUS
  <2>2. ~(y < x)
    BY <1>1, <2>1, Zenon DEF OpToRel
  <2> QED
    BY <2>2
<1> QED
  BY <1>2

\* Min of FiniteSetsExt is a member, for any set of naturals that has one.
LEMMA MinIsMember ==
  ASSUME NEW S \in SUBSET Nat, S # {}
  PROVE  Min(S) \in S
BY LeastOne DEF Min

\* A window begins in the payload, and not behind its call.
LEMMA WindowStarts ==
  ASSUME NEW s \in Nat
  PROVE  WindowStart(s) \in 0..s
<1> DEFINE S == {0, s - BACK_WINDOW}
<1>1. S \subseteq Int /\ \A x \in S : x <= s
  BY AddressFacts
<1>2. \E x \in S : \A y \in S : x >= y
  BY <1>1
<1>3. Max(S) \in S /\ \A y \in S : Max(S) >= y
  BY <1>2 DEF Max
<1> DEFINE m == Max(S)
<1>4. 0 \in S /\ m \in S /\ \A y \in S : m >= y
  BY <1>3
<1> HIDE DEF S, m
<1>5. m \in 0..s
  BY <1>1, <1>4
<1> QED
  BY <1>5 DEF WindowStart, S, m

----------------------------------------------------------------------------
(* The path of the sweep. *)

LEMMA ChainGrows ==
  ASSUME NEW c \in Codes, NEW P, NEW b \in Address, Chain(c, P, b), c[b].kind # "bad"
  PROVE  Chain(c, P \cup {b}, b + c[b].size)
<1>1. c[b].size \in {1, 2} /\ b \in Nat
  BY Halfword, AddressFacts
<1>2. ASSUME NEW a \in P PROVE a \in Nat /\ c[a].size \in {1, 2} /\ a + c[a].size <= b
  BY Halfword, AddressFacts DEF Chain
<1>3. ASSUME NEW a \in P \cup {b}
      PROVE  /\ a \in Address /\ a < b + c[b].size /\ c[a].kind # "bad"
             /\ a + c[a].size = b + c[b].size \/ a + c[a].size \in P \cup {b}
  BY <1>1, <1>2 DEF Chain
<1>4. ASSUME NEW a \in P \cup {b}, NEW x \in P \cup {b}, a < x PROVE a + c[a].size <= x
  BY <1>1, <1>2, <1>4 DEF Chain
<1> QED
  BY <1>3, <1>4 DEF Chain

\* One more instruction, of which the machine makes g.
LEMMA SoundGrows ==
  ASSUME NEW c \in Codes, NEW h, NEW b \in Address, Sound(c, h, b), c[b].kind # "bad",
         NEW g, g = [value |-> g.value, set |-> g.set, path |-> h.path \cup {b}],
         \/ c[b].kind \in Moves /\ g.value = Value(c, b) /\ g.set = b
         \/ c[b].kind \notin Moves \cup {"other"} /\ g.set \in {-1, b}
         \/ c[b].kind = "other" /\ g.value = h.value /\ g.set = h.set
  PROVE  Sound(c, g, b + c[b].size)
<1>1. c[b].size \in {1, 2} /\ b \in Nat /\ h.set \in Int /\ h.set < b
  BY Halfword, AddressFacts DEF Sound
<1>2. g.path = h.path \cup {b}
  OBVIOUS
<1>3. Chain(c, g.path, b + c[b].size)
  BY <1>2, ChainGrows DEF Sound
<1>4. g.set \in Int /\ g.set < b + c[b].size
  BY <1>1
<1>5. \A a \in h.path : a \in Nat /\ a < b
  BY AddressFacts DEF Sound, Chain
<1>6. ASSUME NEW w \in g.path, MovesFrom(c, g.path, w)
      PROVE  \/ /\ g.set < w
                /\ \A a \in g.path : a >= w => c[a].kind = "other"
             \/ /\ g.set >= w /\ g.set \in g.path /\ c[g.set].kind \in Moves
                /\ g.value = Value(c, g.set)
                /\ \A a \in g.path : a > g.set => c[a].kind = "other"
  <2>1. w \in Nat /\ w <= b
    BY <1>1, <1>2, <1>5, <1>6
  <2>2. c[b].kind \in Moves \cup {"other"}
    BY <1>1, <1>2, <1>6, <2>1 DEF MovesFrom
  <2>3. CASE c[b].kind \in Moves
    <3>1. g.set = b /\ g.value = Value(c, b)
      BY <2>3 DEF Moves
    <3>2. \A a \in g.path : ~(a > b)
      BY <1>1, <1>2, <1>5
    <3> QED
      BY <1>1, <1>2, <2>1, <2>3, <3>1, <3>2
  <2>4. CASE c[b].kind = "other"
    <3>1. g.set = h.set /\ g.value = h.value
      BY <2>4 DEF Moves
    <3>2. CASE w = b
      BY <1>1, <1>2, <1>5, <2>4, <3>1, <3>2
    <3>3. CASE w # b
      <4>1. w \in h.path /\ MovesFrom(c, h.path, w)
        BY <1>2, <1>6, <3>3 DEF MovesFrom
      <4> QED
        BY <1>1, <1>2, <2>4, <3>1, <4>1 DEF Sound
    <3> QED
      BY <3>2, <3>3
  <2> QED
    BY <2>2, <2>3, <2>4
<1> QED
  BY <1>2, <1>3, <1>4, <1>6 DEF Sound

\* On entry, and behind a gap, nothing is known.
LEMMA SoundBegins ==
  ASSUME NEW c, NEW b \in Nat
  PROVE  Sound(c, Entry, b)
BY DEF Sound, Entry, Chain

LEMMA ExecutedSound ==
  ASSUME code \in Codes, pos \in Address, code[pos].kind # "bad", Sound(code, a0, pos)
  PROVE  Sound(code, Executed(pos), pos + code[pos].size)
<1> DEFINE g == Executed(pos)
<1>1. code[pos].kind \in Kind
  BY Halfword
<1>2. a0 = [value |-> a0.value, set |-> a0.set, path |-> a0.path]
  BY DEF Sound
<1>3. /\ g = [value |-> g.value, set |-> g.set, path |-> a0.path \cup {pos}]
      /\ \/ code[pos].kind \in Moves /\ g.value = Value(code, pos) /\ g.set = pos
         \/ code[pos].kind \notin Moves \cup {"other"} /\ g.set \in {-1, pos}
         \/ code[pos].kind = "other" /\ g.value = a0.value /\ g.set = a0.set
  <2>1. CASE code[pos].kind \in {"li", "mv"}
    BY <2>1 DEF Executed, Moves, Value
  <2>2. CASE code[pos].kind \in {"write", "call"}
    BY <2>2 DEF Executed, Moves
  <2>3. CASE code[pos].kind = "jump"
    BY <2>3 DEF Executed, Moves, Entry
  <2>4. CASE code[pos].kind = "other"
    <3>1. g = [a0 EXCEPT !.path = a0.path \cup {pos}]
      BY <2>4 DEF Executed
    <3>2. g = [value |-> a0.value, set |-> a0.set, path |-> a0.path \cup {pos}]
      BY <1>2, <3>1
    <3> QED
      BY <2>4, <3>2
  <2> QED
    BY <1>1, <2>1, <2>2, <2>3, <2>4 DEF Kind
<1> HIDE DEF g
<1>4. Sound(code, g, pos + code[pos].size)
  BY <1>3, SoundGrows
<1> QED
  BY <1>4 DEF g

----------------------------------------------------------------------------
(* The window that begins on that path. *)

\* It decodes the next instruction of the path, which ends in front of the call.
LEMMA PathGoesOn ==
  ASSUME NEW c \in Codes, NEW P, NEW s \in Address, Chain(c, P, s), NEW a \in P
  PROVE  /\ a < s /\ c[a].kind # "bad" /\ a + c[a].size <= s
         /\ a + c[a].size \in P \cup {s}
<1>1. s \in Nat /\ a \in Nat /\ c[a].size \in {1, 2} /\ \A x \in P : x \in Nat /\ x < s
  BY Halfword, AddressFacts DEF Chain
<1> QED
  BY <1>1 DEF Chain

LEMMA FoundBegins ==
  ASSUME NEW c, NEW P \in SUBSET Nat, NEW w \in Nat
  PROVE  Found(c, P, w, w, None)
BY DEF Found

LEMMA FoundGrows ==
  ASSUME NEW c \in Codes, NEW P, NEW s \in Address, Chain(c, P, s),
         NEW w \in Nat, NEW a \in P, w <= a, NEW last, Found(c, P, w, a, last)
  PROVE  Found(c, P, w, a + c[a].size, IF c[a].kind \in Moves THEN Value(c, a) ELSE last)
<1>1. c[a].size \in {1, 2} /\ \A x \in P : x \in Nat
  BY Halfword, AddressFacts DEF Chain
<1>2. \A x \in P : x < a + c[a].size => x <= a
  <2> TAKE x \in P
  <2>1. ~(a < x /\ x < a + c[a].size)
    BY <1>1 DEF Chain
  <2> QED
    BY <1>1, <2>1
<1>3. CASE c[a].kind \in Moves
  BY <1>1, <1>2, <1>3 DEF Found
<1>4. CASE c[a].kind \notin Moves
  <2>1. \A x \in P : x < a + c[a].size => x < a \/ x = a
    BY <1>1, <1>2
  <2>2. CASE last = None /\ \A x \in P : w <= x /\ x < a => c[x].kind \notin Moves
    BY <1>4, <2>1, <2>2 DEF Found
  <2>3. ASSUME NEW m \in P, w <= m, m < a, c[m].kind \in Moves, last = Value(c, m),
               \A x \in P : m < x /\ x < a => c[x].kind \notin Moves
        PROVE  Found(c, P, w, a + c[a].size, last)
    BY <1>1, <1>4, <2>1, <2>3 DEF Found
  <2> QED
    BY <1>4, <2>2, <2>3 DEF Found
<1> QED
  BY <1>3, <1>4

\* At the call, what was found is what the machine holds.
LEMMA FoundIsHeld ==
  ASSUME NEW c \in Codes, NEW s \in Address, NEW h, Sound(c, h, s),
         NEW w \in h.path, MovesFrom(c, h.path, w), NEW last, Found(c, h.path, w, s, last)
  PROVE  last = IF h.set >= w THEN h.value ELSE None
<1>1. \A a \in h.path : a \in Nat /\ a < s /\ (w <= a <=> a >= w)
  BY AddressFacts DEF Sound, Chain
<1>2. h.set \in Int /\ w \in Nat /\ s \in Nat
  BY <1>1, AddressFacts DEF Sound
<1>3. CASE h.set < w /\ \A a \in h.path : a >= w => c[a].kind = "other"
  <2>1. \A a \in h.path : w <= a => c[a].kind \notin Moves
    BY <1>1, <1>3 DEF Moves
  <2> QED
    BY <1>2, <1>3, <2>1 DEF Found
<1>4. CASE /\ h.set >= w /\ h.set \in h.path /\ c[h.set].kind \in Moves
           /\ h.value = Value(c, h.set)
           /\ \A a \in h.path : a > h.set => c[a].kind = "other"
  <2>1. w <= h.set /\ h.set < s
    BY <1>1, <1>4
  <2>2. PICK m \in h.path :
          /\ w <= m /\ m < s /\ c[m].kind \in Moves /\ last = Value(c, m)
          /\ \A a \in h.path : m < a /\ a < s => c[a].kind \notin Moves
    BY <1>4, <2>1 DEF Found
  <2>3. ~(m > h.set)
    BY <1>4, <2>2 DEF Moves
  <2>4. ~(m < h.set)
    BY <1>4, <2>1, <2>2
  <2>5. m = h.set
    BY <1>1, <1>2, <2>3, <2>4
  <2> QED
    BY <1>4, <2>2, <2>5
<1> QED
  BY <1>3, <1>4 DEF Sound

----------------------------------------------------------------------------

LEMMA InitHolds == Init => IInv
<1> SUFFICES ASSUME Init PROVE IInv
  OBVIOUS
<1>1. Sound(code, a0, pos)
  BY SoundBegins DEF Init
<1> QED
  BY <1>1, AddressFacts
  DEF Init, IInv, TypeOK, Sites, Histories, ScanOnPath, RowsExactInStep

\* The sweep adds a call with what the machine holds there; no window is open yet.
LEMMA SweepInsnHolds ==
  ASSUME IInv, SweepInsn
  PROVE  IInv'
<1>1. pos \in Address /\ code[pos].kind # "bad" /\ pos + code[pos].size <= N
  BY AddressFacts DEF SweepInsn, Decodes, IInv, TypeOK, Address
<1>2. Sound(code, Executed(pos), pos + code[pos].size)
  BY <1>1, ExecutedSound DEF IInv, Histories
<1>3. code' = code /\ phase' = phase /\ scan' = scan /\ rows' = rows /\ phase = "sweep"
  BY DEF SweepInsn
<1>4. DOMAIN rows = {} /\ scan = NoScan
  BY <1>3 DEF IInv, Sites
<1>5. pos' \in 0..N /\ Sound(code', a0', pos')
  BY <1>1, <1>2, <1>3, Halfword, AddressFacts DEF SweepInsn, IInv
<1>6. sites' \subseteq Address /\ DOMAIN held' = sites' /\ \A s \in sites' : Sound(code', held'[s], s)
  <2>1. CASE code[pos].kind = "call"
    <3>1. sites' = sites \cup {pos} /\ held' = [s \in sites' |-> IF s = pos THEN a0 ELSE held[s]]
      BY <2>1 DEF SweepInsn
    <3> QED
      BY <1>1, <1>3, <3>1 DEF IInv, Sites, Histories
  <2>2. CASE code[pos].kind # "call"
    BY <1>3, <2>2 DEF SweepInsn, IInv, TypeOK, Sites, Histories
  <2> QED
    BY <2>1, <2>2
<1> QED
  BY <1>3, <1>4, <1>5, <1>6
  DEF IInv, TypeOK, Sites, Histories, ScanOnPath, RowsExactInStep, NoScan

LEMMA SweepGapHolds ==
  ASSUME IInv, SweepGap
  PROVE  IInv'
<1>1. Sound(code', a0', pos') /\ pos' \in 0..N
  BY SoundBegins, AddressFacts DEF SweepGap, IInv, TypeOK
<1> QED
  BY <1>1 DEF SweepGap, IInv, TypeOK, Sites, Histories, ScanOnPath, RowsExactInStep,
              InStep, OnlyMoves, SetInWindow, WindowStart, NoScan

\* What was decoded stays, whatever the windows make of it.
LEMMA Unmoved ==
  ASSUME UNCHANGED <<code, held>>, NEW s
  PROVE  /\ InStep(s)' <=> InStep(s)
         /\ OnlyMoves(s)' <=> OnlyMoves(s)
         /\ SetInWindow(s)' <=> SetInWindow(s)
BY DEF InStep, OnlyMoves, SetInWindow, WindowStart

LEMMA WindowFromHolds ==
  ASSUME IInv, WindowFrom
  PROVE  IInv'
<1>1. sites \subseteq Address /\ DOMAIN rows \subseteq sites
  BY DEF IInv, TypeOK, Sites
<1>2. PICK s \in sites : s = Min(sites \ DOMAIN rows)
  <2>1. sites \ DOMAIN rows # {}
    BY <1>1, Zenon DEF WindowFrom
  <2>2. sites \ DOMAIN rows \in SUBSET Nat
    BY <1>1, AddressFacts, Zenon
  <2>3. Min(sites \ DOMAIN rows) \in sites \ DOMAIN rows
    BY <2>1, <2>2, MinIsMember, Zenon
  <2> QED
    BY <2>3
<1>3. PICK w : w = WindowStart(s)
  OBVIOUS
<1>4. s \in Nat /\ w \in 0..s
  BY <1>1, <1>3, AddressFacts, WindowStarts
<1>5. scan' = [site |-> s, addr |-> w, last |-> None]
  BY <1>2, <1>3 DEF WindowFrom
<1>6. UNCHANGED <<code, phase, pos, sites, rows, a0, held>> /\ phase # "sweep"
  BY DEF WindowFrom
<1>7. scan'.site = s /\ scan'.addr = w /\ scan'.last = None
  BY <1>5
<1>8. TypeOK'
  BY <1>4, <1>6, <1>7 DEF IInv, TypeOK
<1>9. Found(code, held[s].path, w, w, None)
  <2>1. held[s].path \in SUBSET Nat
    BY AddressFacts DEF IInv, Histories, Sound, Chain
  <2> QED
    BY <1>4, <2>1, FoundBegins
<1>10. ScanOnPath'
  <2>1. InStep(s)' => w \in held'[s].path
    BY <1>3 DEF InStep, WindowStart
  <2>2. Found(code', held'[s].path, WindowStart(s)', w, None) /\ WindowStart(s)' <= w
    BY <1>3, <1>4, <1>6, <1>9 DEF WindowStart
  <2> QED
    BY <1>2, <1>5, <1>6, <1>7, <2>1, <2>2 DEF ScanOnPath
<1>11. RowsExactInStep'
  BY <1>6, Unmoved, Zenon DEF IInv, RowsExactInStep
<1> QED
  BY <1>6, <1>8, <1>10, <1>11 DEF IInv, Sites, Histories

\* A window on the path goes on along it; any other one only stays in front of its
\* call.
LEMMA WindowInsnHolds ==
  ASSUME IInv, WindowInsn
  PROVE  IInv'
<1>1. PICK s, a, l : s = scan.site /\ a = scan.addr /\ l = scan.last
  OBVIOUS
<1>2. scan = [site |-> s, addr |-> a, last |-> l] /\ s \in sites /\ s \in Address /\ s \in Nat
  BY <1>1, AddressFacts DEF WindowInsn, IInv, ScanOnPath, Sites
<1>3. a < s /\ a + code[a].size <= s + 1 /\ a \in Address
  BY <1>1, <1>2, AddressFacts DEF WindowInsn, InWindow, Decodes, IInv, TypeOK, Address
<1>4. code[a].size \in {1, 2} /\ code[a].kind \in Kind
  BY <1>3, Halfword DEF IInv
<1>5. PICK b, k : b = a + code[a].size /\ k = LastSet(a, l)
  OBVIOUS
<1>6. scan' = [site |-> s, addr |-> b, last |-> k]
  BY <1>1, <1>2, <1>5 DEF WindowInsn
<1>7. scan'.site = s /\ scan'.addr = b /\ scan'.last = k /\ b \in 0..(s + 1)
  <2>1. a \in Nat /\ b \in Nat
    BY <1>3, <1>4, <1>5, AddressFacts
  <2> QED
    BY <1>2, <1>3, <1>5, <1>6, <2>1
<1>8. UNCHANGED <<code, phase, pos, sites, rows, a0, held>> /\ phase # "sweep"
  BY DEF WindowInsn
<1>9. TypeOK'
  BY <1>7, <1>8 DEF IInv, TypeOK
<1>10. PICK w \in Nat : w = WindowStart(s) /\ w <= a
  BY <1>1, <1>2, WindowStarts DEF WindowInsn, IInv, ScanOnPath
<1>11. ASSUME InStep(s), OnlyMoves(s)
       PROVE  b \in held[s].path \cup {s} /\ Found(code, held[s].path, w, b, k)
  <2>1. a \in held[s].path \cup {s} /\ Found(code, held[s].path, w, a, l)
    BY <1>1, <1>10, <1>11 DEF WindowInsn, IInv, ScanOnPath
  <2>2. a \in held[s].path
    BY <1>2, <1>3, <2>1
  <2>3. Chain(code, held[s].path, s)
    BY <1>2 DEF IInv, Histories, Sound
  <2>4. b \in held[s].path \cup {s}
    BY <1>2, <1>5, <2>2, <2>3, PathGoesOn DEF IInv
  <2>5. k = IF code[a].kind \in Moves THEN Value(code, a) ELSE l
    BY <1>5 DEF LastSet, Moves, Value
  <2>6. Found(code, held[s].path, w, a + code[a].size,
              IF code[a].kind \in Moves THEN Value(code, a) ELSE l)
    BY <1>2, <1>10, <2>1, <2>2, <2>3, FoundGrows DEF IInv
  <2> QED
    BY <1>5, <2>4, <2>5, <2>6
<1>12. ScanOnPath'
  <2>1. (InStep(s) /\ OnlyMoves(s))' =>
           b \in held'[s].path \cup {s} /\ Found(code', held'[s].path, WindowStart(s)', b, k)
    BY <1>8, <1>10, <1>11, Unmoved DEF WindowStart
  <2>2. WindowStart(s)' <= b
    BY <1>3, <1>4, <1>5, <1>10, AddressFacts DEF WindowStart
  <2> QED
    BY <1>2, <1>6, <1>7, <1>8, <2>1, <2>2 DEF ScanOnPath
<1>13. RowsExactInStep'
  BY <1>8, Unmoved, Zenon DEF IInv, RowsExactInStep
<1> QED
  BY <1>8, <1>9, <1>12, <1>13 DEF IInv, Sites, Histories

\* A window on the path ends at the call and nowhere else.
LEMMA WindowEndHolds ==
  ASSUME IInv, WindowEnd
  PROVE  IInv'
<1>1. PICK s, a, l : s = scan.site /\ a = scan.addr /\ l = scan.last
  OBVIOUS
<1>2. s \in sites /\ s \in Address /\ s \in Nat
  BY <1>1, AddressFacts DEF WindowEnd, IInv, ScanOnPath, Sites
<1>3. rows' = [t \in DOMAIN rows \cup {s} |-> IF t = s THEN l ELSE rows[t]]
  BY <1>1 DEF WindowEnd
<1>4. UNCHANGED <<code, phase, pos, sites, a0, held>> /\ phase # "sweep" /\ scan' = NoScan
  BY DEF WindowEnd
<1>5. ASSUME InStep(s), OnlyMoves(s)
      PROVE  l = IF SetInWindow(s) THEN held[s].value ELSE None
  <2>1. PICK w : w = WindowStart(s)
    OBVIOUS
  <2>2. a \in held[s].path \cup {s} /\ Found(code, held[s].path, w, a, l)
    BY <1>1, <1>5, <2>1 DEF WindowEnd, IInv, ScanOnPath
  <2>3. Sound(code, held[s], s)
    BY <1>2 DEF IInv, Histories
  <2>4. ASSUME a \in held[s].path PROVE FALSE
    <3>1. a < s /\ code[a].kind # "bad" /\ a + code[a].size <= s
      BY <1>2, <2>3, <2>4, PathGoesOn DEF IInv, Sound
    <3>2. code[a].size \in Int /\ a \in Int
      BY <2>3, <2>4, Halfword, AddressFacts DEF IInv, Sound, Chain
    <3>3. InWindow
      BY <1>1, <1>2, <3>1, <3>2 DEF InWindow, Decodes
    <3> QED
      BY <3>3 DEF WindowEnd
  <2>5. a = s
    BY <2>2, <2>4
  <2>6. w \in held[s].path /\ MovesFrom(code, held[s].path, w)
    BY <1>5, <2>1 DEF InStep, OnlyMoves, MovesFrom, Moves
  <2>7. l = IF held[s].set >= w THEN held[s].value ELSE None
    BY <1>2, <2>2, <2>3, <2>5, <2>6, FoundIsHeld DEF IInv
  <2> QED
    BY <2>1, <2>7 DEF SetInWindow
<1>6. ASSUME NEW t \in DOMAIN rows', InStep(t), OnlyMoves(t)
      PROVE  rows'[t] = IF SetInWindow(t) THEN held[t].value ELSE None
  <2>1. CASE t = s
    BY <1>3, <1>5, <1>6, <2>1
  <2>2. CASE t # s
    BY <1>3, <1>6, <2>2 DEF IInv, RowsExactInStep
  <2> QED
    BY <2>1, <2>2
<1>7. RowsExactInStep'
  BY <1>4, <1>6, Unmoved, Zenon DEF RowsExactInStep
<1>8. TypeOK'
  BY <1>2, <1>3, <1>4 DEF IInv, TypeOK, NoScan
<1> QED
  BY <1>4, <1>7, <1>8 DEF IInv, Sites, Histories, ScanOnPath, NoScan

LEMMA SameDecoding ==
  ASSUME IInv, UNCHANGED <<code, pos, sites, scan, rows, a0, held>>,
         phase' \in {"window", "done"} \/ phase' = phase
  PROVE  IInv'
<1>1. RowsExactInStep'
  BY Unmoved, Zenon DEF IInv, RowsExactInStep
<1>2. ScanOnPath'
  BY DEF IInv, ScanOnPath, InStep, OnlyMoves, WindowStart, NoScan
<1> QED
  BY <1>1, <1>2 DEF IInv, TypeOK, Sites, Histories, NoScan

LEMMA StepHolds == IInv /\ [Next]_vars => IInv'
<1> SUFFICES ASSUME IInv, [Next]_vars PROVE IInv'
  OBVIOUS
<1>1. CASE SweepInsn
  BY <1>1, SweepInsnHolds
<1>2. CASE SweepGap
  BY <1>2, SweepGapHolds
<1>3. CASE WindowFrom
  BY <1>3, WindowFromHolds
<1>4. CASE WindowInsn
  BY <1>4, WindowInsnHolds
<1>5. CASE WindowEnd
  BY <1>5, WindowEndHolds
<1>6. CASE SweepEnd \/ Finish \/ UNCHANGED vars
  BY <1>6, SameDecoding DEF SweepEnd, Finish, vars
<1> QED
  BY <1>1, <1>2, <1>3, <1>4, <1>5, <1>6 DEF Next

LEMMA Invariance == Spec => []IInv
<1>1. IInv /\ [Next]_vars => IInv'
  BY StepHolds
<1> QED
  BY InitHolds, <1>1, PTL DEF Spec

\* find_callers and a0_const_before: for every payload and window, the scan of a window
\* stays between the start of the payload and the first halfword of its call, and rows
\* are for calls that were found.
THEOREM WindowsLieInFront == Spec => []TypeOK
<1>1. IInv => TypeOK
  BY DEF IInv
<1> QED
  BY <1>1, Invariance, PTL

\* a0_const_before: for every payload and window, a window that begins in step with the
\* code and in which only li and mv set a0 gives the constant the call passes, or that
\* there is none.
THEOREM RowsAreExactInStep == Spec => []RowsExactInStep
<1>1. IInv => RowsExactInStep
  BY DEF IInv
<1> QED
  BY <1>1, Invariance, PTL

----------------------------------------------------------------------------

(***************************************************************************)
(* How long it takes.  A bound on the steps that are left falls with every *)
(* step, so that neither loop can go on for ever, on any payload.          *)
(***************************************************************************)

Unread == sites \ DOMAIN rows

StepsLeft ==
  CASE phase = "sweep" -> N * (N + 2) + 2 + (N - pos)
    [] phase = "window" /\ scan = NoScan -> 1 + Cardinality(Unread) * (N + 2)
    [] phase = "window" /\ scan # NoScan ->
         1 + (Cardinality(Unread) - 1) * (N + 2) + (scan.site + 2 - scan.addr)
    [] phase = "done" -> 0

EveryStepCounts == [][StepsLeft' \in Nat /\ StepsLeft' < StepsLeft]_vars

\* The site whose window is open has no row yet.
Pending == scan # NoScan => phase = "window" /\ scan.site \notin DOMAIN rows

LEMMA OpenScan ==
  ASSUME NEW s, NEW a, NEW l
  PROVE  [site |-> s, addr |-> a, last |-> l] # NoScan
<1> DEFINE w == [site |-> s, addr |-> a, last |-> l]
<1>1. "addr" \in DOMAIN w /\ "addr" \notin DOMAIN NoScan
  BY DEF NoScan
<1> QED
  BY <1>1

\* A product grows with its first factor.
LEMMA Lines ==
  ASSUME NEW m \in Nat, NEW n \in Nat, m <= n, NEW d \in Nat
  PROVE  m * d \in Nat /\ n * d \in Nat /\ m * d <= n * d
OBVIOUS

LEMMA LinesLess ==
  ASSUME NEW m \in Nat \ {0}, NEW d \in Nat
  PROVE  (m - 1) * d \in Nat /\ m * d = (m - 1) * d + d
OBVIOUS

\* A set of addresses can be counted.
LEMMA Counted ==
  ASSUME NEW S \in SUBSET Address
  PROVE  /\ IsFiniteSet(S) /\ Cardinality(S) \in 0..N
         /\ S # {} => Cardinality(S) \in Nat \ {0}
<1>1. N \in Nat \ {0}
  BY CodeTypes
<1>2. IsFiniteSet(Address) /\ Cardinality(Address) = N
  BY <1>1, FS_Interval DEF Address
<1>3. IsFiniteSet(S) /\ Cardinality(S) <= N
  BY <1>2, FS_Subset
<1>4. Cardinality(S) \in Nat /\ (Cardinality(S) = 0 <=> S = {})
  BY <1>3, FS_CardinalityType, FS_EmptySet
<1> QED
  BY <1>1, <1>3, <1>4

\* An open window: its site is unread, and its place is not behind the call's first
\* halfword by more than one.
LEMMA OpenWindow ==
  ASSUME IInv, Pending, scan # NoScan
  PROVE  /\ phase = "window" /\ scan.site \in Unread /\ scan.site \in Nat /\ scan.site < N
         /\ scan.addr \in Nat /\ scan.addr <= scan.site + 1
         /\ scan = [site |-> scan.site, addr |-> scan.addr, last |-> scan.last]
         /\ Unread # {}
<1>1. phase = "window" /\ scan.site \notin DOMAIN rows
  BY DEF Pending
<1>2. /\ scan.site \in sites /\ sites \subseteq Address
      /\ scan = [site |-> scan.site, addr |-> scan.addr, last |-> scan.last]
  BY DEF IInv, Sites, ScanOnPath
<1>3. scan.site \in Nat /\ scan.site < N
  BY <1>2, AddressFacts
<1>4. scan.addr \in 0..(scan.site + 1)
  BY DEF IInv, TypeOK
<1> QED
  BY <1>1, <1>2, <1>3, <1>4 DEF Unread

LEMMA Nearer ==
  ASSUME NEW n \in Nat, NEW m \in Nat, NEW x \in Nat, NEW y \in Nat, x < y, y <= n
  PROVE  m + 2 + (n - y) \in Nat /\ m + 2 + (n - y) < m + 2 + (n - x)
OBVIOUS

LEMMA StepCounts ==
  ASSUME IInv, Pending, Next
  PROVE  Pending' /\ StepsLeft' \in Nat /\ StepsLeft' < StepsLeft
<1>1. N \in Nat \ {0} /\ N * (N + 2) \in Nat /\ pos \in 0..N
  BY CodeTypes DEF IInv, TypeOK
<1>2. phase = "sweep" => StepsLeft = N * (N + 2) + 2 + (N - pos)
  BY DEF StepsLeft
<1>3. Unread \in SUBSET Address
  BY DEF Unread, IInv, Sites
<1> DEFINE k == Cardinality(Unread)
<1>4. k \in 0..N /\ (Unread # {} => k \in Nat \ {0})
  BY <1>3, Counted
<1>5. CASE SweepInsn \/ SweepGap
  <2>1. phase = "sweep" /\ phase' = "sweep" /\ scan' = scan /\ scan = NoScan
    BY <1>5 DEF SweepInsn, SweepGap, IInv, Sites
  <2>2. pos' \in 0..N
    BY <1>5, SweepInsnHolds, SweepGapHolds DEF IInv, TypeOK
  <2>3. pos' > pos
    <3>1. CASE SweepInsn
      <4>1. pos \in Address
        BY <1>1, <3>1 DEF SweepInsn, Decodes, Address
      <4>2. code[pos].size \in {1, 2}
        BY <4>1, Halfword DEF IInv
      <4> QED
        BY <1>1, <3>1, <4>2 DEF SweepInsn
    <3>2. CASE SweepGap
      BY <1>1, <3>2 DEF SweepGap
    <3> QED
      BY <1>5, <3>1, <3>2
  <2>4. PICK m \in Nat : m = N * (N + 2)
    BY <1>1
  <2>5. StepsLeft = m + 2 + (N - pos) /\ StepsLeft' = m + 2 + (N - pos')
    BY <1>2, <2>1, <2>4 DEF StepsLeft
  <2>6. N \in Nat /\ pos \in 0..N
    BY <1>1
  <2>7. Pending'
    BY <2>1 DEF Pending, NoScan
  <2>8. PICK x \in Nat, y \in Nat : x = pos /\ y = pos' /\ x < y /\ y <= N
    BY <2>2, <2>3, <2>6
  <2>9. m + 2 + (N - y) \in Nat /\ m + 2 + (N - y) < m + 2 + (N - x)
    BY <2>6, <2>8, Nearer
  <2> QED
    BY <2>5, <2>7, <2>8, <2>9
<1>6. CASE SweepEnd
  <2>1. /\ phase = "sweep" /\ phase' = "window" /\ scan' = scan /\ scan = NoScan
        /\ Unread' = Unread
    BY <1>6 DEF SweepEnd, IInv, Sites, Unread
  <2>2. Cardinality(Unread)' = k
    BY <2>1
  <2>3. StepsLeft' = 1 + k * (N + 2)
    BY <2>1, <2>2 DEF StepsLeft, NoScan
  <2> HIDE DEF k
  <2>4. k * (N + 2) \in Nat /\ k * (N + 2) <= N * (N + 2)
    BY <1>1, <1>4, Lines
  <2>5. Pending'
    BY <2>1 DEF Pending, NoScan
  <2> QED
    BY <1>1, <1>2, <2>1, <2>3, <2>4, <2>5
<1>7. CASE WindowFrom
  <2>1. /\ phase = "window" /\ phase' = "window" /\ scan = NoScan
        /\ Unread' = Unread /\ rows' = rows
    BY <1>7 DEF WindowFrom, Unread
  <2>2. Unread # {}
    <3>1. DOMAIN rows \subseteq sites /\ sites # DOMAIN rows
      BY <1>7 DEF WindowFrom, IInv, TypeOK
    <3> QED
      BY <3>1, Zenon DEF Unread
  <2>3. \A s \in Unread : s \in Nat /\ s < N
    BY <1>3, AddressFacts
  <2>4. PICK s \in Unread : s = Min(sites \ DOMAIN rows)
    BY <2>2, <2>3, MinIsMember DEF Unread
  <2>5. PICK w \in Nat : w <= s /\ w = WindowStart(s)
    BY <2>3, WindowStarts
  <2>6. scan' = [site |-> s, addr |-> w, last |-> None]
    BY <1>7, <2>4, <2>5 DEF WindowFrom
  <2>7. scan'.site = s /\ scan'.addr = w /\ scan' # NoScan
    BY <2>6, OpenScan
  <2>8. Cardinality(Unread)' = k
    BY <2>1
  <2>9. StepsLeft = 1 + k * (N + 2)
    BY <2>1 DEF StepsLeft
  <2>10. StepsLeft' = 1 + (k - 1) * (N + 2) + (s + 2 - w)
    BY <2>1, <2>7, <2>8 DEF StepsLeft, NoScan
  <2> HIDE DEF k
  <2>11. (k - 1) * (N + 2) \in Nat /\ k * (N + 2) = (k - 1) * (N + 2) + (N + 2)
    BY <1>1, <1>4, <2>2, LinesLess
  <2>12. Pending'
    BY <2>1, <2>4, <2>7 DEF Pending, Unread
  <2> QED
    BY <1>1, <2>3, <2>5, <2>9, <2>10, <2>11, <2>12
<1>8. CASE WindowInsn
  <2>1. scan # NoScan /\ InWindow /\ phase' = phase /\ Unread' = Unread /\ rows' = rows
    BY <1>8 DEF WindowInsn, Unread
  <2>2. PICK s, a, l : s = scan.site /\ a = scan.addr /\ l = scan.last
    OBVIOUS
  <2>3. /\ phase = "window" /\ s \in Unread /\ s \in Nat /\ s < N /\ a \in Nat
        /\ scan = [site |-> s, addr |-> a, last |-> l] /\ Unread # {}
    BY <2>1, <2>2, OpenWindow
  <2>4. a < s /\ a + code[a].size <= s + 1
    BY <2>1, <2>2 DEF InWindow, Decodes
  <2>5. code[a].size \in {1, 2}
    <3>1. a \in Address
      BY <1>1, <2>3, <2>4 DEF Address
    <3> QED
      BY <3>1, Halfword DEF IInv
  <2>6. PICK b, m : b = a + code[a].size /\ m = LastSet(a, l)
    OBVIOUS
  <2>7. scan' = [site |-> s, addr |-> b, last |-> m]
    BY <1>8, <2>2, <2>3, <2>6 DEF WindowInsn
  <2>8. scan'.site = s /\ scan'.addr = b /\ scan' # NoScan
    BY <2>7, OpenScan
  <2>9. Cardinality(Unread)' = k
    BY <2>1
  <2>10. StepsLeft = 1 + (k - 1) * (N + 2) + (s + 2 - a)
    BY <2>1, <2>2, <2>3 DEF StepsLeft
  <2>11. StepsLeft' = 1 + (k - 1) * (N + 2) + (s + 2 - b)
    BY <2>1, <2>3, <2>8, <2>9 DEF StepsLeft, NoScan
  <2> HIDE DEF k
  <2>12. (k - 1) * (N + 2) \in Nat
    BY <1>1, <1>4, <2>3, LinesLess
  <2>13. Pending'
    BY <2>1, <2>3, <2>8 DEF Pending, Unread
  <2> QED
    BY <2>3, <2>4, <2>5, <2>6, <2>10, <2>11, <2>12, <2>13
<1>9. CASE WindowEnd
  <2>1. PICK s, a : s = scan.site /\ a = scan.addr
    OBVIOUS
  <2>2. scan # NoScan /\ scan' = NoScan /\ phase' = phase /\ sites' = sites
    BY <1>9 DEF WindowEnd
  <2>3. DOMAIN rows' = DOMAIN rows \cup {s}
    BY <1>9, <2>1 DEF WindowEnd
  <2>4. /\ phase = "window" /\ s \in Unread /\ s \in Nat /\ a \in Nat /\ a <= s + 1
        /\ Unread # {}
    BY <2>1, <2>2, OpenWindow
  <2>5. Unread' = Unread \ {s}
    BY <2>2, <2>3 DEF Unread
  <2>6. Cardinality(Unread') = k - 1
    BY <1>3, <2>4, <2>5, Counted, FS_RemoveElement
  <2>7. StepsLeft = 1 + (k - 1) * (N + 2) + (s + 2 - a)
    BY <2>1, <2>2, <2>4 DEF StepsLeft
  <2>8. StepsLeft' = 1 + (k - 1) * (N + 2)
    BY <2>2, <2>4, <2>6 DEF StepsLeft, NoScan
  <2> HIDE DEF k
  <2>9. (k - 1) * (N + 2) \in Nat
    BY <1>1, <1>4, <2>4, LinesLess
  <2>10. Pending'
    BY <2>2 DEF Pending, NoScan
  <2> QED
    BY <2>4, <2>7, <2>8, <2>9, <2>10
<1>10. CASE Finish
  <2>1. /\ phase = "window" /\ scan = NoScan /\ phase' = "done" /\ scan' = NoScan
        /\ StepsLeft' = 0
    BY <1>10 DEF Finish, StepsLeft, NoScan
  <2>2. StepsLeft = 1 + k * (N + 2)
    BY <2>1 DEF StepsLeft
  <2> HIDE DEF k
  <2>3. k * (N + 2) \in Nat
    BY <1>1, <1>4
  <2> QED
    BY <2>1, <2>2, <2>3 DEF Pending, NoScan
<1> QED
  BY <1>5, <1>6, <1>7, <1>8, <1>9, <1>10 DEF Next

\* find_callers and a0_const_before: for every payload and window, each step of the two
\* loops leaves fewer steps to go; from the first, at most N * (N + 2) + 2 + N.
THEOREM EveryWindowIsCounted == Spec => EveryStepCounts
<1>1. Init => IInv /\ Pending
  BY InitHolds DEF Init, Pending, NoScan
<1>2. IInv /\ Pending /\ [Next]_vars => (IInv /\ Pending)'
  <2>1. ASSUME IInv, Pending, Next
        PROVE  (IInv /\ Pending)'
    BY <2>1, StepHolds, StepCounts
  <2>2. ASSUME IInv, Pending, UNCHANGED vars
        PROVE  (IInv /\ Pending)'
    <3>1. IInv'
      BY <2>2, StepHolds
    <3>2. Pending'
      BY <2>2 DEF vars, Pending, NoScan
    <3> QED
      BY <3>1, <3>2
  <2> QED
    BY <2>1, <2>2
<1>3. IInv /\ Pending /\ [Next]_vars => [StepsLeft' \in Nat /\ StepsLeft' < StepsLeft]_vars
  BY StepCounts
<1> QED
  BY <1>1, <1>2, <1>3, PTL DEF Spec, EveryStepCounts

=============================================================================
