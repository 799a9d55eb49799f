---------------------------- MODULE RamScanProofs ----------------------------
(***************************************************************************)
(* The scans of RamScan and StateScan for payloads, words and memories of  *)
(* every size: when an access is counted at the address it uses, and how   *)
(* far the two maps stay apart.                                            *)
(***************************************************************************)
EXTENDS StateScan, TLAPS, FiniteSetTheorems

\* A remembered base is what the register holds, unless the register was spoilt.
BasesHeld == \A r \in DOMAIN pending : r \in spoilt \/ regs[r] = pending[r]

IInv == TypeOK /\ BasesHeld /\ OnlySpoiltGoWrong

----------------------------------------------------------------------------

LEMMA Cut ==
  ASSUME NEW x \in Int
  PROVE  x % Modulus \in Word
<1>1. Modulus \in Nat \ {0}
  BY ScanTypes
<1> QED
  BY <1>1 DEF Word

LEMMA WordFacts ==
  ASSUME at \in Nat
  PROVE  /\ Word \subseteq Int /\ Unknown \notin Word
         /\ \A imm \in Hi : hi(imm) \in Word /\ Auipc(imm) = hi(imm)
         /\ \A base \in Word, disp \in Lo :
              (base + disp) % Modulus \in Word /\ Plus(base, disp) = (base + disp) % Modulus
         /\ \A base \in Word \cup {Unknown}, disp \in Lo :
              Plus(base, disp) \in Word \cup {Unknown}
<1>1. Word \subseteq Int /\ Unknown \notin Word
  BY ScanTypes DEF Word
<1>2. ASSUME NEW imm \in Hi PROVE hi(imm) \in Word /\ Auipc(imm) = hi(imm)
  <2>1. imm \in Int /\ HI_UNIT \in Int /\ LINKED_CODE_BASE \in Int
    BY ScanTypes
  <2>2. LINKED_CODE_BASE + at + imm * HI_UNIT \in Int
    BY <2>1
  <2> QED
    BY <2>2, Cut DEF hi, Auipc
<1>3. ASSUME NEW base \in Word, NEW disp \in Lo
      PROVE  /\ (base + disp) % Modulus \in Word
             /\ Plus(base, disp) = (base + disp) % Modulus
  <2>1. base + disp \in Int
    BY <1>1, ScanTypes
  <2> QED
    BY <1>1, <2>1, Cut DEF Plus
<1>4. ASSUME NEW base \in Word \cup {Unknown}, NEW disp \in Lo
      PROVE  Plus(base, disp) \in Word \cup {Unknown}
  BY <1>3 DEF Plus
<1> QED
  BY <1>1, <1>2, <1>3, <1>4

\* A row that is put stays a row.
LEMMA PutKeepsRows ==
  ASSUME \A a \in DOMAIN cache : InRam(a) /\ cache[a] \in [reads : Nat, writes : Nat],
         NEW a, InRam(a), NEW row \in [reads : Nat, writes : Nat]
  PROVE  \A b \in DOMAIN Put(a, row) :
           InRam(b) /\ Put(a, row)[b] \in [reads : Nat, writes : Nat]
BY DEF Put

LEMMA FieldIsRow ==
  ASSUME \A a \in DOMAIN cache : cache[a] \in [reads : Nat, writes : Nat], NEW a
  PROVE  Field(a) \in [reads : Nat, writes : Nat]
BY DEF Field

----------------------------------------------------------------------------

LEMMA InitHolds == Init => IInv
BY ScanTypes DEF Init, IInv, TypeOK, BasesHeld, OnlySpoiltGoWrong, NoAccess

LEMMA AuipcHolds ==
  ASSUME IInv, at' = at + 1, at < N,
         NEW rd \in Reg, NEW imm \in Hi, ScanAuipc(rd, imm)
  PROVE  IInv'
<1>1. at \in Nat /\ at' \in 0..N
  BY ScanTypes DEF IInv, TypeOK
<1>2. hi(imm) \in Word /\ Auipc(imm) = hi(imm)
  BY <1>1, WordFacts
<1>3. TypeOK'
  BY <1>1, <1>2 DEF IInv, TypeOK, ScanAuipc, InRam, Word
<1>4. ASSUME NEW r \in DOMAIN pending' PROVE r \in spoilt' \/ regs'[r] = pending'[r]
  <2>1. CASE r = rd
    BY <1>2, <2>1 DEF IInv, TypeOK, ScanAuipc
  <2>2. CASE r # rd
    BY <2>2 DEF IInv, TypeOK, BasesHeld, ScanAuipc
  <2> QED
    BY <2>1, <2>2
<1> QED
  BY <1>3, <1>4 DEF IInv, BasesHeld, OnlySpoiltGoWrong, ScanAuipc

\* What a count leaves behind: fewer bases, rows, and a last access that is right or
\* spoilt.
LEMMA CountFacts ==
  ASSUME IInv, NEW kind \in {"reads", "writes"}, NEW rs \in Reg, NEW disp \in Lo,
         Count(kind, rs, disp)
  PROVE  /\ DOMAIN pending' = DOMAIN pending \ {rs}
         /\ \A r \in DOMAIN pending' : pending'[r] = pending[r]
         /\ \A a \in DOMAIN cache' : InRam(a) /\ cache'[a] \in [reads : Nat, writes : Nat]
         /\ last'.spoilt \/ last'.target = last'.used
<1> DEFINE target == (pending[rs] + disp) % Modulus
           row    == [Field(target) EXCEPT ![kind] = @ + 1]
<1>1. CASE rs \notin DOMAIN pending
  <2>1. UNCHANGED <<pending, cache, last>>
    BY <1>1 DEF Count
  <2> QED
    BY <1>1, <2>1 DEF IInv, TypeOK, OnlySpoiltGoWrong
<1>2. CASE rs \in DOMAIN pending
  <2>1. /\ pending' = Without(rs)
        /\ IF ~InRam(target) THEN UNCHANGED <<cache, last>>
           ELSE /\ cache' = Put(target, row)
                /\ last' = [target |-> target, used |-> Plus(regs[rs], disp),
                            spoilt |-> rs \in spoilt]
    BY <1>2 DEF Count
  <2>2. /\ DOMAIN pending' = DOMAIN pending \ {rs}
        /\ \A r \in DOMAIN pending' : pending'[r] = pending[r]
    BY <2>1 DEF Without
  <2>3. \A a \in DOMAIN cache : InRam(a) /\ cache[a] \in [reads : Nat, writes : Nat]
    BY DEF IInv, TypeOK
  <2>4. CASE ~InRam(target)
    BY <2>1, <2>2, <2>3, <2>4 DEF IInv, OnlySpoiltGoWrong
  <2>5. CASE InRam(target)
    <3>1. Field(target) \in [reads : Nat, writes : Nat]
      BY <2>3, FieldIsRow
    <3>2. row \in [reads : Nat, writes : Nat]
      BY <3>1
    <3>3. \A a \in DOMAIN cache' : InRam(a) /\ cache'[a] \in [reads : Nat, writes : Nat]
      <4> HIDE DEF target, row
      <4> QED
        BY <2>1, <2>3, <2>5, <3>2, PutKeepsRows
    <3>4. rs \in spoilt \/ Plus(regs[rs], disp) = target
      <4>1. pending[rs] \in Word /\ at \in Nat
        BY <1>2, ScanTypes DEF IInv, TypeOK
      <4>2. rs \in spoilt \/ regs[rs] = pending[rs]
        BY <1>2 DEF IInv, BasesHeld
      <4> QED
        BY <4>1, <4>2, WordFacts
    <3>5. last'.spoilt = (rs \in spoilt) /\ last'.target = target
          /\ last'.used = Plus(regs[rs], disp)
      BY <2>1, <2>5
    <3> QED
      BY <2>2, <3>3, <3>4, <3>5
  <2> QED
    BY <2>4, <2>5
<1> QED
  BY <1>1, <1>2

\* The base a load consumes is gone, and any other register it writes is spoilt.
LEMMA LoadHolds ==
  ASSUME IInv, at' = at + 1, at < N,
         NEW rd \in Reg, NEW rs \in Reg, NEW disp \in Lo, ScanLoad(rd, rs, disp)
  PROVE  IInv'
<1>1. at' \in 0..N
  BY ScanTypes DEF IInv, TypeOK
<1>2. /\ DOMAIN pending' = DOMAIN pending \ {rs}
      /\ \A r \in DOMAIN pending' : pending'[r] = pending[r]
      /\ \A a \in DOMAIN cache' : InRam(a) /\ cache'[a] \in [reads : Nat, writes : Nat]
      /\ last'.spoilt \/ last'.target = last'.used
  BY CountFacts DEF ScanLoad
<1>3. TypeOK'
  BY <1>1, <1>2 DEF IInv, TypeOK, ScanLoad, InRam, Word
<1>4. ASSUME NEW r \in DOMAIN pending' PROVE r \in spoilt' \/ regs'[r] = pending'[r]
  <2>1. r # rs /\ r \in DOMAIN pending /\ pending'[r] = pending[r]
    BY <1>2
  <2>2. CASE r = rd
    BY <2>1, <2>2 DEF ScanLoad
  <2>3. CASE r # rd
    BY <2>1, <2>3 DEF ScanLoad, IInv, TypeOK, BasesHeld
  <2> QED
    BY <2>2, <2>3
<1> QED
  BY <1>2, <1>3, <1>4 DEF IInv, BasesHeld, OnlySpoiltGoWrong

LEMMA StoreHolds ==
  ASSUME IInv, at' = at + 1, at < N,
         NEW rs \in Reg, NEW disp \in Lo, ScanStore(rs, disp)
  PROVE  IInv'
<1>1. at' \in 0..N
  BY ScanTypes DEF IInv, TypeOK
<1>2. /\ DOMAIN pending' = DOMAIN pending \ {rs}
      /\ \A r \in DOMAIN pending' : pending'[r] = pending[r]
      /\ \A a \in DOMAIN cache' : InRam(a) /\ cache'[a] \in [reads : Nat, writes : Nat]
      /\ last'.spoilt \/ last'.target = last'.used
  BY CountFacts DEF ScanStore
<1>3. TypeOK'
  BY <1>1, <1>2 DEF IInv, TypeOK, ScanStore, InRam, Word
<1> QED
  BY <1>2, <1>3 DEF IInv, BasesHeld, OnlySpoiltGoWrong, ScanStore

LEMMA AddiHolds ==
  ASSUME IInv, at' = at + 1, at < N,
         NEW rd \in Reg, NEW rs \in Reg, NEW imm \in Lo, ScanAddi(rd, rs, imm)
  PROVE  IInv'
<1> DEFINE target == (pending[rs] + imm) % Modulus
<1>1. at \in Nat /\ at' \in 0..N
  BY ScanTypes DEF IInv, TypeOK
<1>2. DOMAIN pending' \subseteq DOMAIN pending
      /\ \A r \in DOMAIN pending' : pending'[r] = pending[r]
  BY DEF ScanAddi, AfterAddi, Without
<1>3. \A a \in DOMAIN cache' : InRam(a) /\ cache'[a] \in [reads : Nat, writes : Nat]
  <2>1. \A a \in DOMAIN cache : InRam(a) /\ cache[a] \in [reads : Nat, writes : Nat]
    BY DEF IInv, TypeOK
  <2>2. cache' = cache \/ (InRam(target) /\ cache' = Put(target, Field(target)))
    BY DEF ScanAddi
  <2>3. Field(target) \in [reads : Nat, writes : Nat]
    BY <2>1, FieldIsRow
  <2> HIDE DEF target
  <2> QED
    BY <2>1, <2>2, <2>3, PutKeepsRows
<1>4. regs' \in [Reg -> Word \cup {Unknown}]
  <2>1. Plus(regs[rs], imm) \in Word \cup {Unknown}
    BY <1>1, WordFacts DEF IInv, TypeOK
  <2> QED
    BY <2>1 DEF ScanAddi, IInv, TypeOK
<1>5. TypeOK'
  BY <1>1, <1>2, <1>3, <1>4 DEF IInv, TypeOK, ScanAddi, InRam, Word
<1>6. ASSUME NEW r \in DOMAIN pending' PROVE r \in spoilt' \/ regs'[r] = pending'[r]
  <2>1. CASE r = rd
    BY <2>1 DEF ScanAddi
  <2>2. CASE r # rd
    BY <1>2, <2>2 DEF ScanAddi, IInv, TypeOK, BasesHeld
  <2> QED
    BY <2>1, <2>2
<1> QED
  BY <1>5, <1>6 DEF IInv, BasesHeld, OnlySpoiltGoWrong, ScanAddi

LEMMA OtherHolds ==
  ASSUME IInv, at' = at + 1, at < N,
         NEW written \in SUBSET Reg, ScanOther(written)
  PROVE  IInv'
<1>1. at' \in 0..N
  BY ScanTypes DEF IInv, TypeOK
<1>2. TypeOK'
  BY <1>1 DEF IInv, TypeOK, ScanOther, InRam, Word
<1>3. ASSUME NEW r \in DOMAIN pending' PROVE r \in spoilt' \/ regs'[r] = pending'[r]
  BY DEF ScanOther, IInv, TypeOK, BasesHeld
<1> QED
  BY <1>2, <1>3 DEF IInv, BasesHeld, OnlySpoiltGoWrong, ScanOther

LEMMA BreakHolds ==
  ASSUME IInv, at' = at + 1, at < N, ScanBreak
  PROVE  IInv'
<1>1. at' \in 0..N
  BY ScanTypes DEF IInv, TypeOK
<1>2. TypeOK'
  BY <1>1 DEF IInv, TypeOK, ScanBreak, InRam, Word
<1> QED
  BY <1>2 DEF IInv, TypeOK, BasesHeld, OnlySpoiltGoWrong, ScanBreak

----------------------------------------------------------------------------

LEMMA StepHolds == IInv /\ [Next]_vars => IInv'
<1> SUFFICES ASSUME IInv, [Next]_vars PROVE IInv'
  OBVIOUS
<1>1. CASE UNCHANGED vars
  BY <1>1 DEF vars, IInv, TypeOK, BasesHeld, OnlySpoiltGoWrong, InRam, Word
<1>2. CASE Next
  <2>1. at < N /\ at' = at + 1
    BY <1>2 DEF Next
  <2>2. ASSUME NEW rd \in Reg, NEW imm \in Hi, ScanAuipc(rd, imm) PROVE IInv'
    BY <2>1, <2>2, AuipcHolds
  <2>3. ASSUME NEW rd \in Reg, NEW rs \in Reg, NEW disp \in Lo, ScanLoad(rd, rs, disp)
        PROVE  IInv'
    BY <2>1, <2>3, LoadHolds
  <2>4. ASSUME NEW rs \in Reg, NEW disp \in Lo, ScanStore(rs, disp) PROVE IInv'
    BY <2>1, <2>4, StoreHolds
  <2>5. ASSUME NEW rd \in Reg, NEW rs \in Reg, NEW imm \in Lo, ScanAddi(rd, rs, imm)
        PROVE  IInv'
    BY <2>1, <2>5, AddiHolds
  <2>6. ASSUME NEW rd \in Reg, ScanOther({rd}) PROVE IInv'
    BY <2>1, <2>6, OtherHolds
  <2>7. ASSUME ScanOther({}) PROVE IInv'
    BY <2>1, <2>7, OtherHolds
  <2>8. ASSUME ScanBreak PROVE IInv'
    BY <2>1, <2>8, BreakHolds
  <2> QED
    BY <1>2, <2>2, <2>3, <2>4, <2>5, <2>6, <2>7, <2>8 DEF Next
<1> QED
  BY <1>1, <1>2

LEMMA Invariance == Spec => []IInv
<1>1. IInv /\ [Next]_vars => IInv'
  BY StepHolds
<1> QED
  BY InitHolds, <1>1, PTL DEF Spec

\* map_ramcache.scan: whatever the payload, rows are for RAM addresses and bases are
\* words.
THEOREM RowsAreInRam == Spec => []TypeOK
<1>1. IInv => TypeOK
  BY DEF IInv
<1> QED
  BY <1>1, Invariance, PTL

\* map_ramcache.scan: whatever the payload, an access is counted at the address it
\* uses unless its base was overwritten since the auipc.
THEOREM CountedWhereUsed == Spec => []OnlySpoiltGoWrong
<1>1. IInv => OnlySpoiltGoWrong
  BY DEF IInv
<1> QED
  BY <1>1, Invariance, PTL

----------------------------------------------------------------------------
(***************************************************************************)
(* One access for one auipc.  A sum over the table cannot be reasoned      *)
(* about here; the auipc that account for a row can: every pending base    *)
(* comes from one of its own, which has accounted for nothing yet.         *)
(***************************************************************************)

Accounted ==
  /\ auipcs \in Nat
  /\ DOMAIN origin = DOMAIN pending
  /\ \A r \in DOMAIN pending : origin[r] \in 1..auipcs /\ origin[r] \notin DOMAIN uses
  /\ \A r, q \in DOMAIN pending : origin[r] = origin[q] => r = q
  /\ DOMAIN uses \subseteq 1..auipcs
  /\ \A u \in DOMAIN uses : uses[u] \in DOMAIN cache
  /\ SingleUse

Sources(f, a) == {u \in DOMAIN f : f[u] = a}

\* One more auipc accounts for one more access, at the address it led to.
LEMMA OneMoreSource ==
  ASSUME NEW n \in Nat, NEW f, DOMAIN f \subseteq 1..n, NEW u, u \notin DOMAIN f, NEW t,
         NEW g, DOMAIN g = DOMAIN f \cup {u}, g[u] = t, \A v \in DOMAIN f : g[v] = f[v],
         NEW a
  PROVE  /\ Cardinality(Sources(f, a)) \in Nat
         /\ Cardinality(Sources(g, a)) = Cardinality(Sources(f, a)) + (IF a = t THEN 1 ELSE 0)
<1>1. IsFiniteSet(Sources(f, a))
  <2>1. IsFiniteSet(1..n)
    <3>1. 1 \in Int /\ n \in Int
      OBVIOUS
    <3> QED
      BY <3>1, FS_Interval, Zenon
  <2>2. Sources(f, a) \subseteq 1..n
    BY DEF Sources
  <2> QED
    BY <2>1, <2>2, FS_Subset
<1>2. Cardinality(Sources(f, a)) \in Nat
  BY <1>1, FS_CardinalityType
<1>3. CASE a = t
  <2>1. Sources(g, a) = Sources(f, a) \cup {u} /\ u \notin Sources(f, a)
    BY <1>3 DEF Sources
  <2> QED
    BY <1>1, <1>2, <1>3, <2>1, FS_AddElement
<1>4. CASE a # t
  <2>1. Sources(g, a) = Sources(f, a)
    BY <1>4 DEF Sources
  <2> QED
    BY <1>2, <1>4, <2>1
<1> QED
  BY <1>2, <1>3, <1>4

\* An address that no auipc led to.
LEMMA NoSource ==
  ASSUME Accounted, NEW a, a \notin DOMAIN cache
  PROVE  Cardinality(UsedFor(a)) = 0
<1>1. UsedFor(a) = {}
  BY DEF Accounted, UsedFor
<1> QED
  BY <1>1, FS_EmptySet

\* What is counted at a row, and for what address it is counted.
LEMMA CountIsAccounted ==
  ASSUME IInv, Accounted, NEW kind \in {"reads", "writes"}, NEW rs \in Reg, NEW disp \in Lo,
         Count(kind, rs, disp), auipcs' = auipcs
  PROVE  Accounted'
<1> DEFINE target == (pending[rs] + disp) % Modulus
           row    == [Field(target) EXCEPT ![kind] = @ + 1]
<1>1. CASE rs \notin DOMAIN pending
  BY <1>1 DEF Count, Accounted, SingleUse, UsedFor
<1>2. CASE rs \in DOMAIN pending
  <2>1. pending' = Without(rs) /\ origin' = [q \in DOMAIN pending' |-> origin[q]]
    BY <1>2 DEF Count
  <2>2. /\ DOMAIN pending' = DOMAIN pending \ {rs} /\ DOMAIN origin' = DOMAIN pending'
        /\ \A q \in DOMAIN pending' : origin'[q] = origin[q]
    BY <2>1 DEF Without
  <2>3. /\ \A r \in DOMAIN pending' : origin'[r] \in 1..auipcs' /\ origin'[r] # origin[rs]
                                      /\ origin'[r] \notin DOMAIN uses
        /\ \A r, q \in DOMAIN pending' : origin'[r] = origin'[q] => r = q
    BY <1>2, <2>2 DEF Accounted
  <2>4. CASE ~InRam(target)
    <3>1. UNCHANGED <<cache, uses>>
      BY <1>2, <2>4 DEF Count
    <3> QED
      BY <2>2, <2>3, <3>1 DEF Accounted, SingleUse, UsedFor
  <2>5. CASE InRam(target)
    <3>1. PICK t, u, new : t = target /\ u = origin[rs] /\ new = row
      OBVIOUS
    <3>2. /\ cache' = Put(t, new)
          /\ uses' = [v \in DOMAIN uses \cup {u} |-> IF v = u THEN t ELSE uses[v]]
      BY <1>2, <2>5, <3>1 DEF Count
    <3>3. u \in 1..auipcs /\ u \notin DOMAIN uses /\ auipcs \in Nat
      BY <1>2, <3>1 DEF Accounted
    <3>4. DOMAIN cache' = DOMAIN cache \cup {t} /\ cache'[t] = new
          /\ \A a \in DOMAIN cache : a # t => cache'[a] = cache[a]
      BY <3>2 DEF Put
    <3>5. new.reads + new.writes = Cardinality(UsedFor(t)) + 1 /\ Cardinality(UsedFor(t)) \in Nat
      <4>1. Field(t) \in [reads : Nat, writes : Nat]
        BY FieldIsRow DEF IInv, TypeOK
      <4>2. new.reads + new.writes = Field(t).reads + Field(t).writes + 1
        BY <3>1, <4>1
      <4>3. Field(t).reads + Field(t).writes = Cardinality(UsedFor(t))
        BY NoSource DEF Field, Accounted, SingleUse
      <4> QED
        BY <4>1, <4>2, <4>3
    <3>6. ASSUME NEW a \in DOMAIN cache'
          PROVE  cache'[a].reads + cache'[a].writes = Cardinality(UsedFor(a))'
      <4>1. /\ Cardinality(Sources(uses, a)) \in Nat
            /\ Cardinality(Sources(uses', a))
                 = Cardinality(Sources(uses, a)) + (IF a = t THEN 1 ELSE 0)
        <5>1. DOMAIN uses' = DOMAIN uses \cup {u} /\ uses'[u] = t
              /\ \A v \in DOMAIN uses : uses'[v] = uses[v]
          BY <3>2, <3>3
        <5>2. DOMAIN uses \subseteq 1..auipcs
          BY DEF Accounted
        <5> QED
          BY <3>3, <5>1, <5>2, OneMoreSource
      <4>2. UsedFor(a) = Sources(uses, a) /\ UsedFor(a)' = Sources(uses', a)
        BY DEF UsedFor, Sources
      <4> HIDE DEF target, row
      <4>3. CASE a = t
        BY <3>4, <3>5, <4>1, <4>2, <4>3
      <4>4. CASE a # t
        BY <3>4, <4>1, <4>2, <4>4 DEF Accounted, SingleUse
      <4> QED
        BY <4>3, <4>4
    <3>7. DOMAIN uses' \subseteq 1..auipcs' /\ \A v \in DOMAIN uses' : uses'[v] \in DOMAIN cache'
      BY <3>2, <3>3, <3>4 DEF Accounted
    <3>8. \A r \in DOMAIN pending' : origin'[r] \notin DOMAIN uses'
      BY <2>3, <3>1, <3>2
    <3> QED
      BY <2>2, <2>3, <3>3, <3>6, <3>7, <3>8 DEF Accounted, SingleUse
  <2> QED
    BY <2>4, <2>5
<1> QED
  BY <1>1, <1>2

LEMMA AuipcIsAccounted ==
  ASSUME Accounted, NEW rd \in Reg, NEW imm \in Hi, ScanAuipc(rd, imm)
  PROVE  Accounted'
<1>1. /\ auipcs' = auipcs + 1 /\ cache' = cache /\ uses' = uses
      /\ DOMAIN pending' = DOMAIN pending \cup {rd} /\ DOMAIN origin' = DOMAIN pending'
      /\ \A r \in DOMAIN pending' : origin'[r] = IF r = rd THEN auipcs + 1 ELSE origin[r]
  BY DEF ScanAuipc
<1>2. auipcs \in Nat /\ DOMAIN uses \subseteq 1..auipcs
      /\ \A r \in DOMAIN pending : origin[r] \in 1..auipcs /\ origin[r] \notin DOMAIN uses
  BY DEF Accounted
<1>3. \A r \in DOMAIN pending' : origin'[r] \in 1..auipcs' /\ origin'[r] \notin DOMAIN uses'
  BY <1>1, <1>2
<1>4. \A r, q \in DOMAIN pending' : origin'[r] = origin'[q] => r = q
  BY <1>1, <1>2 DEF Accounted
<1>5. DOMAIN uses' \subseteq 1..auipcs' /\ auipcs' \in Nat
  BY <1>1, <1>2
<1>6. SingleUse'
  BY <1>1 DEF Accounted, SingleUse, UsedFor
<1> QED
  BY <1>1, <1>3, <1>4, <1>5, <1>6 DEF Accounted

\* addi may make a row, of no accesses.
LEMMA AddiIsAccounted ==
  ASSUME Accounted, NEW rd \in Reg, NEW rs \in Reg, NEW imm \in Lo, ScanAddi(rd, rs, imm)
  PROVE  Accounted'
<1>1. PICK t : t = (pending[rs] + imm) % Modulus
  OBVIOUS
<1>2. auipcs' = auipcs /\ uses' = uses
  BY DEF ScanAddi
<1>3. /\ DOMAIN pending' \subseteq DOMAIN pending /\ DOMAIN origin' = DOMAIN pending'
      /\ \A q \in DOMAIN pending' : origin'[q] = origin[q]
  BY DEF ScanAddi, AfterAddi, Without, Accounted
<1>4. cache' = cache \/ cache' = Put(t, Field(t))
  BY <1>1 DEF ScanAddi
<1>5. DOMAIN cache \subseteq DOMAIN cache' /\ SingleUse'
  <2>1. CASE cache' = cache
    BY <1>2, <2>1 DEF Accounted, SingleUse, UsedFor
  <2>2. CASE cache' = Put(t, Field(t))
    <3>1. Field(t).reads + Field(t).writes = Cardinality(UsedFor(t))
      BY NoSource DEF Field, Accounted, SingleUse
    <3>2. ASSUME NEW a \in DOMAIN cache'
          PROVE  cache'[a].reads + cache'[a].writes = Cardinality(UsedFor(a))'
      <4>1. UsedFor(a)' = UsedFor(a)
        BY <1>2 DEF UsedFor
      <4>2. CASE a = t
        BY <2>2, <3>1, <4>1, <4>2 DEF Put
      <4>3. CASE a # t
        <5>1. a \in DOMAIN cache /\ cache'[a] = cache[a]
          BY <2>2, <4>3 DEF Put
        <5> QED
          BY <4>1, <5>1 DEF Accounted, SingleUse
      <4> QED
        BY <4>2, <4>3
    <3>3. DOMAIN cache \subseteq DOMAIN cache'
      BY <2>2 DEF Put
    <3> QED
      BY <3>2, <3>3, Zenon DEF SingleUse
  <2> QED
    BY <1>4, <2>1, <2>2
<1> QED
  BY <1>2, <1>3, <1>5 DEF Accounted

LEMMA StepIsAccounted == IInv /\ Accounted /\ [Next]_vars => Accounted'
<1> SUFFICES ASSUME IInv, Accounted, [Next]_vars PROVE Accounted'
  OBVIOUS
<1>1. ASSUME UNCHANGED <<pending, cache, auipcs, origin, uses>> PROVE Accounted'
  BY <1>1 DEF Accounted, SingleUse, UsedFor
<1>2. ASSUME NEW rd \in Reg, NEW imm \in Hi, ScanAuipc(rd, imm) PROVE Accounted'
  BY <1>2, AuipcIsAccounted
<1>3. ASSUME NEW rd \in Reg, NEW rs \in Reg, NEW disp \in Lo, ScanLoad(rd, rs, disp)
      PROVE  Accounted'
  BY <1>3, CountIsAccounted DEF ScanLoad
<1>4. ASSUME NEW rs \in Reg, NEW disp \in Lo, ScanStore(rs, disp) PROVE Accounted'
  BY <1>4, CountIsAccounted DEF ScanStore
<1>5. ASSUME NEW rd \in Reg, NEW rs \in Reg, NEW imm \in Lo, ScanAddi(rd, rs, imm)
      PROVE  Accounted'
  BY <1>5, AddiIsAccounted
<1>6. ASSUME NEW written, ScanOther(written) PROVE Accounted'
  BY <1>1, <1>6 DEF ScanOther
<1>7. ASSUME ScanBreak PROVE Accounted'
  BY <1>1, <1>7 DEF ScanBreak
<1>8. CASE UNCHANGED vars
  BY <1>1, <1>8 DEF vars
<1> QED
  BY <1>2, <1>3, <1>4, <1>5, <1>6, <1>7, <1>8 DEF Next

\* map_ramcache.scan: whatever the payload, a base is forgotten with its first use, so
\* that a row counts as many accesses as auipc instructions led to its address.
THEOREM EachAuipcCountsOnce == Spec => []SingleUse
<1>1. Init => Accounted
  BY DEF Init, Accounted, SingleUse
<1>2. IInv /\ Accounted /\ [Next]_vars => Accounted'
  BY StepIsAccounted
<1>3. Accounted => SingleUse
  BY DEF Accounted
<1> QED
  BY <1>1, <1>2, <1>3, Invariance, PTL DEF Spec

----------------------------------------------------------------------------
(* The two maps over one code. *)

LEMMA StateStep == StateNext => Next
<1> SUFFICES ASSUME StateNext PROVE Next
  OBVIOUS
<1>1. at < N /\ at' = at + 1
  BY DEF StateNext
<1>2. ASSUME NEW rd \in Reg, NEW imm \in Hi, StateAuipc(rd, imm) PROVE Next
  BY <1>1, <1>2 DEF Next, StateAuipc
<1>3. ASSUME NEW rd \in Reg, NEW rs \in Reg, NEW disp \in Lo, StateLoad(rd, rs, disp)
      PROVE  Next
  BY <1>1, <1>3 DEF Next, StateLoad
<1>4. ASSUME NEW rs \in Reg, NEW disp \in Lo, StateStore(rs, disp) PROVE Next
  BY <1>1, <1>4 DEF Next, StateStore
<1>5. ASSUME NEW r \in Reg, StateOther({r}) PROVE Next
  BY <1>1, <1>5 DEF Next, StateOther
<1>6. ASSUME StateOther({}) PROVE Next
  BY <1>1, <1>6 DEF Next, StateOther
<1>7. ASSUME StateBreak PROVE Next
  BY <1>1, <1>7 DEF Next, StateBreak
<1>8. ASSUME NEW rd \in Reg, NEW rs \in Reg, NEW imm \in Lo \ {0}, StateAddi(rd, rs, imm)
      PROVE  Next
  BY <1>1, <1>8 DEF Next, StateAddi
<1> QED
  BY <1>2, <1>3, <1>4, <1>5, <1>6, <1>7, <1>8 DEF StateNext

LEMMA StateInvariance == StateSpec => []IInv
<1>1. StateInit => IInv
  BY InitHolds DEF StateInit
<1>2. IInv /\ [StateNext]_<<vars, stateVars>> => IInv'
  BY StateStep, StepHolds
<1> QED
  BY <1>1, <1>2, PTL DEF StateSpec

\* Everything recorded in both maps stands before place p.
AllBefore(p) == \A b \in shared : b < p

\* While map_ramcache has a base for gp, nothing was recorded in both maps since the
\* auipc it is from.
Distinct ==
  /\ setups \subseteq 0..(at - 1) /\ shared \subseteq 0..(at - 1)
  /\ GP \in DOMAIN pending => \E s \in setups : AllBefore(s)
  /\ MapsStayDistinct

\* An instruction that both maps may record, when it uses the base of gp up.
LEMMA ShareHolds ==
  ASSUME IInv, Distinct, at' = at + 1, setups' = setups, DOMAIN pending' \subseteq DOMAIN pending,
         \/ shared' = shared
         \/ /\ shared' = shared \cup {at}
            /\ GP \in DOMAIN pending /\ GP \notin DOMAIN pending'
  PROVE  Distinct'
<1>1. at \in Nat /\ setups \subseteq Int /\ shared \subseteq 0..(at - 1)
  BY ScanTypes DEF IInv, TypeOK, Distinct
<1>2. setups' \subseteq 0..(at' - 1) /\ shared' \subseteq 0..(at' - 1)
  <2>1. 0..(at - 1) \subseteq 0..(at' - 1) /\ at \in 0..(at' - 1)
    BY <1>1
  <2>2. setups' \subseteq 0..(at - 1) /\ shared' \subseteq 0..(at - 1) \cup {at}
    BY <1>1 DEF Distinct
  <2> QED
    BY <2>1, <2>2
<1>3. CASE shared' = shared
  BY <1>2, <1>3 DEF Distinct, AllBefore, MapsStayDistinct
<1>4. CASE shared' = shared \cup {at} /\ GP \in DOMAIN pending /\ GP \notin DOMAIN pending'
  <2>1. PICK s \in setups : \A a \in shared : a < s
    BY <1>4 DEF Distinct, AllBefore
  <2>2. ASSUME NEW b \in shared \cup {at}
        PROVE  \E q \in setups : q < b /\ \A a \in shared \cup {at} : a < b => a < q
    <3>1. CASE b = at
      <4>1. s < at
        BY <1>1, <2>1 DEF Distinct
      <4>2. ASSUME NEW a \in shared \cup {at}, a < at PROVE a < s
        BY <1>1, <2>1, <4>2
      <4> QED
        BY <2>1, <3>1, <4>1, <4>2
    <3>2. CASE b \in shared
      <4>1. PICK q \in setups : q < b /\ \A a \in shared : a < b => a < q
        BY <3>2 DEF Distinct, MapsStayDistinct
      <4>2. ~(at < b)
        BY <1>1, <3>2
      <4> QED
        BY <4>1, <4>2
    <3> QED
      BY <3>1, <3>2
  <2>3. MapsStayDistinct'
    BY <1>4, <2>2 DEF MapsStayDistinct
  <2> QED
    BY <1>2, <1>4, <2>3 DEF Distinct
<1> QED
  BY <1>3, <1>4

\* Only an instruction through gp whose base is known gets into both maps.
LEMMA OnlyThroughGp ==
  ASSUME NEW rs \in Reg, NEW o, NEW count, Tally(rs, o, count), Share,
         rs \notin DOMAIN pending => cache' = cache
  PROVE  \/ shared' = shared
         \/ shared' = shared \cup {at} /\ rs = GP /\ GP \in DOMAIN pending
BY DEF Tally, Share

LEMMA DistinctStep ==
  ASSUME IInv, Distinct, [StateNext]_<<vars, stateVars>>
  PROVE  Distinct'
<1>1. CASE UNCHANGED <<vars, stateVars>>
  BY <1>1 DEF vars, stateVars, Distinct, AllBefore, MapsStayDistinct
<1>2. CASE StateNext
  <2>1. at < N /\ at' = at + 1 /\ at \in Nat
    BY <1>2, ScanTypes DEF StateNext, IInv, TypeOK
  <2>2. ASSUME NEW rd \in Reg, NEW imm \in Hi, StateAuipc(rd, imm) PROVE Distinct'
    <3>1. /\ shared' = shared /\ setups' = (IF rd = GP THEN setups \cup {at} ELSE setups)
          /\ DOMAIN pending' = DOMAIN pending \cup {rd}
      BY <2>2 DEF StateAuipc, ScanAuipc
    <3>2. setups' \subseteq 0..(at' - 1) /\ shared' \subseteq 0..(at' - 1) /\ setups \subseteq setups'
      BY <2>1, <3>1 DEF Distinct
    <3>3. MapsStayDistinct'
      BY <3>1, <3>2 DEF Distinct, MapsStayDistinct
    <3>4. GP \in DOMAIN pending' => \E s \in setups' : \A b \in shared : b < s
      <4>1. CASE rd = GP
        <5>1. at \in setups' /\ \A b \in shared : b < at
          BY <2>1, <3>1, <4>1 DEF Distinct
        <5> QED
          BY <5>1
      <4>2. CASE rd # GP
        BY <3>1, <4>2 DEF Distinct, AllBefore
      <4> QED
        BY <4>1, <4>2
    <3> QED
      BY <3>1, <3>2, <3>3, <3>4 DEF Distinct, AllBefore
  <2>3. ASSUME NEW kind, NEW rs \in Reg, NEW disp, Count(kind, rs, disp)
        PROVE  /\ DOMAIN pending' = DOMAIN pending \ {rs}
               /\ rs \notin DOMAIN pending => cache' = cache
    BY <2>3 DEF Count, Without
  <2>4. ASSUME NEW rd \in Reg, NEW rs \in Reg, NEW disp \in Lo, StateLoad(rd, rs, disp)
        PROVE  Distinct'
    <3>1. Count("reads", rs, disp) /\ Tally(rs, disp, "direct_reads") /\ Share /\ setups' = setups
      BY <2>4 DEF StateLoad, ScanLoad
    <3>2. /\ DOMAIN pending' = DOMAIN pending \ {rs}
          /\ rs \notin DOMAIN pending => cache' = cache
      BY <2>3, <3>1
    <3>3. \/ shared' = shared
          \/ shared' = shared \cup {at} /\ rs = GP /\ GP \in DOMAIN pending
      BY <3>1, <3>2, OnlyThroughGp
    <3> QED
      BY <2>1, <3>1, <3>2, <3>3, ShareHolds
  <2>5. ASSUME NEW rs \in Reg, NEW disp \in Lo, StateStore(rs, disp) PROVE Distinct'
    <3>1. Count("writes", rs, disp) /\ Tally(rs, disp, "direct_writes") /\ Share /\ setups' = setups
      BY <2>5 DEF StateStore, ScanStore
    <3>2. /\ DOMAIN pending' = DOMAIN pending \ {rs}
          /\ rs \notin DOMAIN pending => cache' = cache
      BY <2>3, <3>1
    <3>3. \/ shared' = shared
          \/ shared' = shared \cup {at} /\ rs = GP /\ GP \in DOMAIN pending
      BY <3>1, <3>2, OnlyThroughGp
    <3> QED
      BY <2>1, <3>1, <3>2, <3>3, ShareHolds
  <2>6. ASSUME NEW rd \in Reg, NEW rs \in Reg, NEW imm \in Lo, StateAddi(rd, rs, imm)
        PROVE  Distinct'
    <3>1. /\ Tally(rs, imm, "address_taken") /\ setups' = setups
          /\ IF rd = rs THEN shared' = shared ELSE Share
          /\ rs \notin DOMAIN pending => pending' = pending /\ cache' = cache
          /\ rs \in DOMAIN pending => pending' = AfterAddi(rd, rs)
      BY <2>6 DEF StateAddi, ScanAddi
    <3>2. /\ DOMAIN pending' \subseteq DOMAIN pending
          /\ rd # rs => rs \notin DOMAIN pending'
      BY <3>1 DEF AfterAddi, Without
    <3>3. CASE rd = rs
      BY <2>1, <3>1, <3>2, <3>3, ShareHolds
    <3>4. CASE rd # rs
      <4>1. \/ shared' = shared
            \/ shared' = shared \cup {at} /\ rs = GP /\ GP \in DOMAIN pending
        BY <3>1, <3>4, OnlyThroughGp
      <4> QED
        BY <2>1, <3>1, <3>2, <3>4, <4>1, ShareHolds
    <3> QED
      BY <3>3, <3>4
  <2>7. ASSUME UNCHANGED <<pending, setups, shared>> PROVE Distinct'
    BY <2>1, <2>7, ShareHolds
  <2>8. ASSUME NEW written, StateOther(written) PROVE Distinct'
    BY <2>7, <2>8 DEF StateOther, ScanOther, stateVars
  <2>9. ASSUME StateBreak PROVE Distinct'
    BY <2>7, <2>9 DEF StateBreak, ScanBreak, stateVars
  <2> QED
    BY <1>2, <2>2, <2>4, <2>5, <2>6, <2>8, <2>9 DEF StateNext
<1> QED
  BY <1>1, <1>2

\* map_ramcache.scan beside map_state.scan: whatever the payload, an instruction that
\* both maps record is the first use of gp since an auipc set it.
THEOREM TwoMapsStayDistinct == StateSpec => []MapsStayDistinct
<1>1. StateInit => Distinct
  BY DEF StateInit, Init, Distinct, MapsStayDistinct
<1>2. IInv /\ Distinct /\ [StateNext]_<<vars, stateVars>> => Distinct'
  BY DistinctStep
<1>3. Distinct => MapsStayDistinct
  BY DEF Distinct
<1> QED
  BY <1>1, <1>2, <1>3, StateInvariance, PTL DEF StateSpec

=============================================================================
