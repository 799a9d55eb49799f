---------------------------- MODULE SessionProofs ----------------------------
(***************************************************************************)
(* The conversions of TransportImage, for every number and size of pages,  *)
(* and with them and PatcherProofs what PatchSession promises of the files   *)
(* on a disk, for every catalogue, geometry, request and set of paths.     *)
(* MCSession checks it on two files of two pages of two bytes; the images  *)
(* of the device have 72 pages of 1024 bytes.                              *)
(***************************************************************************)
EXTENDS PatchSession, PatcherProofs

Files(n) == [Extent(n) -> 0..255]

(***************************************************************************)
(* Division, as far as pages need it.                                      *)
(***************************************************************************)

\* Every offset is that of a byte in a page.
LEMMA Division ==
  ASSUME NEW d \in Nat \ {0}, NEW n \in Nat
  PROVE  /\ n \div d \in Nat
         /\ n % d \in 0..(d - 1)
         /\ n = (n \div d) * d + (n % d)
<1>1. n \div d \in Nat /\ n % d \in 0..(d - 1)
  OBVIOUS
<1>2. n % d = n - (n \div d) * d
  BY SMTT(20)
<1>3. (n \div d) * d \in Nat
  BY <1>1
<1> QED
  BY <1>1, <1>2, <1>3

\* A page and a place in it make one offset.
LEMMA DivisionOf ==
  ASSUME NEW d \in Nat \ {0}, NEW q \in Nat, NEW r \in 0..(d - 1)
  PROVE  (q * d + r) \div d = q /\ (q * d + r) % d = r
OBVIOUS

\* The offsets of c pages are those below c * d.
LEMMA InPages ==
  ASSUME NEW c \in Nat, NEW d \in Nat \ {0}, NEW q \in 0..(c - 1), NEW r \in 0..(d - 1)
  PROVE  q * d + r \in 0..(c * d - 1)
<1>1. q * d + d <= c * d
  OBVIOUS
<1>2. q * d \in Nat /\ c * d \in Nat
  OBVIOUS
<1> QED
  BY <1>1, <1>2

LEMMA PageOf ==
  ASSUME NEW c \in Nat, NEW d \in Nat \ {0}, NEW n \in 0..(c * d - 1)
  PROVE  n \div d \in 0..(c - 1)
<1>1. n \in Nat /\ n < c * d
  <2>1. c * d \in Nat
    OBVIOUS
  <2> QED
    BY <2>1
<1>2. n \div d \in Nat /\ n = (n \div d) * d + (n % d) /\ n % d \in Nat
  BY <1>1, Division
<1>3. ASSUME n \div d >= c
      PROVE  FALSE
  <2>1. (n \div d) * d >= c * d
    BY <1>2, <1>3
  <2>2. (n \div d) * d \in Nat /\ c * d \in Nat
    BY <1>2
  <2> QED
    BY <1>1, <1>2, <2>1, <2>2
<1> QED
  BY <1>2, <1>3

\* An extent has one size.
LEMMA OneSize ==
  ASSUME NEW m \in Nat, NEW n \in Nat
  PROVE  Extent(m) = Extent(n) <=> m = n
<1>1. ASSUME NEW a \in Nat, NEW b \in Nat, a < b
      PROVE  a \in Extent(b) /\ a \notin Extent(a)
  BY <1>1 DEF Extent
<1>2. m < n \/ m = n \/ n < m
  OBVIOUS
<1> QED
  BY <1>1, <1>2

\* The sizes of the two forms.
LEMMA Sizes ==
  /\ PAGE_COUNT \in Nat \ {0} /\ PAYLOAD_PAGE_SIZE \in Nat \ {0}
  /\ TRANSPORT_PAGE_SIZE \in Nat \ {0} /\ TRANSPORT_PAGE_SIZE = PAYLOAD_PAGE_SIZE + 2
  /\ PAYLOAD_TOTAL_BYTES \in Nat /\ TRANSPORT_TOTAL_BYTES \in Nat
  /\ TRANSPORT_TOTAL_BYTES = PAYLOAD_TOTAL_BYTES + 2 * PAGE_COUNT
<1>1. /\ PAGE_COUNT \in Nat \ {0} /\ PAYLOAD_PAGE_SIZE \in Nat \ {0}
      /\ TRANSPORT_PAGE_SIZE \in Nat \ {0} /\ TRANSPORT_PAGE_SIZE = PAYLOAD_PAGE_SIZE + 2
  BY Geometry DEF TRANSPORT_PAGE_SIZE, TRANSPORT_HEADER_SIZE
<1>2. PAYLOAD_TOTAL_BYTES \in Nat /\ TRANSPORT_TOTAL_BYTES \in Nat
  BY <1>1 DEF PAYLOAD_TOTAL_BYTES, TRANSPORT_TOTAL_BYTES
<1>3. PAGE_COUNT * (PAYLOAD_PAGE_SIZE + 2) = PAGE_COUNT * PAYLOAD_PAGE_SIZE + 2 * PAGE_COUNT
  BY <1>1
<1> QED
  BY <1>1, <1>2, <1>3 DEF PAYLOAD_TOTAL_BYTES, TRANSPORT_TOTAL_BYTES

----------------------------------------------------------------------------

(***************************************************************************)
(* Conversion between the two forms.                                       *)
(***************************************************************************)

\* An offset of a payload lies in one of its pages.
LEMMA PayloadPage ==
  ASSUME NEW o \in PayloadOffset
  PROVE  /\ o \div PAYLOAD_PAGE_SIZE \in PageIndex
         /\ o % PAYLOAD_PAGE_SIZE \in 0..(PAYLOAD_PAGE_SIZE - 1)
         /\ o = (o \div PAYLOAD_PAGE_SIZE) * PAYLOAD_PAGE_SIZE + (o % PAYLOAD_PAGE_SIZE)
<1>1. o \in Nat /\ o \in 0..(PAGE_COUNT * PAYLOAD_PAGE_SIZE - 1)
  BY Sizes DEF PayloadOffset, Extent, PAYLOAD_TOTAL_BYTES
<1> QED
  BY <1>1, Sizes, PageOf, Division DEF PageIndex, Extent

\* What wrap_transport_image puts at every place of every page.
LEMMA WrappedByte ==
  ASSUME NEW p, NEW pg \in PageIndex, NEW k \in 0..(TRANSPORT_PAGE_SIZE - 1)
  PROVE  PageByte(wrap_transport_image(p), pg, k) =
           IF k = 0 THEN pg \div 256
           ELSE IF k = 1 THEN pg % 256
           ELSE p[pg * PAYLOAD_PAGE_SIZE + k - 2]
<1>1. pg \in Nat /\ pg \in 0..(PAGE_COUNT - 1)
  BY Sizes DEF PageIndex, Extent
<1>2. pg * TRANSPORT_PAGE_SIZE + k \in Extent(TRANSPORT_TOTAL_BYTES)
  BY <1>1, Sizes, InPages DEF Extent, TRANSPORT_TOTAL_BYTES
<1>3. /\ (pg * TRANSPORT_PAGE_SIZE + k) \div TRANSPORT_PAGE_SIZE = pg
      /\ (pg * TRANSPORT_PAGE_SIZE + k) % TRANSPORT_PAGE_SIZE = k
  BY <1>1, Sizes, DivisionOf
<1> QED
  BY <1>2, <1>3 DEF PageByte, wrap_transport_image, TRANSPORT_HEADER_SIZE

\* A wrapped payload carries the indices unwrap_transport_image asks for.
LEMMA WrappedIsReadable ==
  ASSUME NEW p
  PROVE  /\ detect_image_format(wrap_transport_image(p)) = "transport"
         /\ Unwrappable(wrap_transport_image(p))
<1>1. detect_image_format(wrap_transport_image(p)) = "transport"
  BY DEF detect_image_format, wrap_transport_image
<1>2. ASSUME NEW pg \in PageIndex
      PROVE  declared_idx(wrap_transport_image(p), pg) = pg
  <2>1. 0 \in 0..(TRANSPORT_PAGE_SIZE - 1) /\ 1 \in 0..(TRANSPORT_PAGE_SIZE - 1)
    BY Sizes
  <2>2. /\ PageByte(wrap_transport_image(p), pg, 0) = pg \div 256
        /\ PageByte(wrap_transport_image(p), pg, 1) = pg % 256
    BY <2>1, WrappedByte
  <2>3. pg \in Nat
    BY Sizes DEF PageIndex, Extent
  <2>4. pg = (pg \div 256) * 256 + (pg % 256)
    BY <2>3, Division
  <2> QED
    BY <2>2, <2>4 DEF declared_idx
<1> QED
  BY <1>1, <1>2 DEF Unwrappable

\* Wrapping a payload and unwrapping it gives it back.
LEMMA UnwrapOfWrap ==
  ASSUME NEW p \in Files(PAYLOAD_TOTAL_BYTES)
  PROVE  unwrap_transport_image(wrap_transport_image(p)) = p
<1>1. ASSUME NEW o \in PayloadOffset
      PROVE  unwrap_transport_image(wrap_transport_image(p))[o] = p[o]
  <2> DEFINE pg == o \div PAYLOAD_PAGE_SIZE
             k  == o % PAYLOAD_PAGE_SIZE
  <2>1. /\ pg \in PageIndex /\ k \in 0..(PAYLOAD_PAGE_SIZE - 1)
        /\ o = pg * PAYLOAD_PAGE_SIZE + k
    BY PayloadPage
  <2>2. unwrap_transport_image(wrap_transport_image(p))[o]
          = PageByte(wrap_transport_image(p), pg, 2 + k)
    BY DEF unwrap_transport_image, TRANSPORT_HEADER_SIZE
  <2> HIDE DEF pg, k
  <2>3. 2 + k \in 0..(TRANSPORT_PAGE_SIZE - 1) /\ 2 + k # 0 /\ 2 + k # 1
    BY <2>1, Sizes
  <2>4. PageByte(wrap_transport_image(p), pg, 2 + k) = p[pg * PAYLOAD_PAGE_SIZE + (2 + k) - 2]
    BY <2>1, <2>3, WrappedByte
  <2>5. pg * PAYLOAD_PAGE_SIZE + (2 + k) - 2 = o
    <3>1. pg \in Nat /\ k \in Nat /\ pg * PAYLOAD_PAGE_SIZE \in Nat
      BY <2>1, Sizes DEF PageIndex, Extent
    <3> QED
      BY <2>1, <3>1
  <2> QED
    BY <2>2, <2>4, <2>5
<1> QED
  BY <1>1 DEF unwrap_transport_image, Files, PayloadOffset

\* Unwrapping a transport image with the right indices and wrapping it gives it back.
LEMMA WrapOfUnwrap ==
  ASSUME NEW raw \in Files(TRANSPORT_TOTAL_BYTES), Unwrappable(raw)
  PROVE  wrap_transport_image(unwrap_transport_image(raw)) = raw
<1> DEFINE payload == unwrap_transport_image(raw)
<1>1. ASSUME NEW i \in Extent(TRANSPORT_TOTAL_BYTES)
      PROVE  wrap_transport_image(payload)[i] = raw[i]
  <2> DEFINE pg == i \div TRANSPORT_PAGE_SIZE
             k  == i % TRANSPORT_PAGE_SIZE
  <2>1. i \in Nat /\ i \in 0..(PAGE_COUNT * TRANSPORT_PAGE_SIZE - 1)
    BY Sizes DEF Extent, TRANSPORT_TOTAL_BYTES
  <2>2. /\ pg \in PageIndex /\ pg \in Nat
        /\ k \in 0..(TRANSPORT_PAGE_SIZE - 1)
        /\ i = pg * TRANSPORT_PAGE_SIZE + k
    BY <2>1, Sizes, PageOf, Division DEF PageIndex, Extent
  <2> HIDE DEF pg, k, payload
  <2>3. wrap_transport_image(payload)[i] =
          IF k = 0 THEN pg \div 256
          ELSE IF k = 1 THEN pg % 256
          ELSE payload[pg * PAYLOAD_PAGE_SIZE + k - 2]
    BY <2>2, WrappedByte DEF PageByte
  <2>4. raw[i] = PageByte(raw, pg, k)
    BY <2>2 DEF PageByte
  <2>5. ASSUME k \in {0, 1}
        PROVE  wrap_transport_image(payload)[i] = raw[i]
    <3>1. /\ pg * TRANSPORT_PAGE_SIZE + 0 \in Extent(TRANSPORT_TOTAL_BYTES)
          /\ pg * TRANSPORT_PAGE_SIZE + 1 \in Extent(TRANSPORT_TOTAL_BYTES)
      BY <2>2, Sizes, InPages DEF Extent, PageIndex, TRANSPORT_TOTAL_BYTES
    <3>2. PageByte(raw, pg, 0) \in 0..255 /\ PageByte(raw, pg, 1) \in 0..255
      BY <3>1 DEF PageByte, Files
    <3>3. pg = PageByte(raw, pg, 0) * 256 + PageByte(raw, pg, 1)
      BY <2>2 DEF Unwrappable, declared_idx
    <3>4. pg \div 256 = PageByte(raw, pg, 0) /\ pg % 256 = PageByte(raw, pg, 1)
      <4>1. PICK a \in 0..255, b \in 0..255 :
              a = PageByte(raw, pg, 0) /\ b = PageByte(raw, pg, 1)
        BY <3>2
      <4>2. pg = a * 256 + b
        BY <3>3, <4>1
      <4>3. (a * 256 + b) \div 256 = a /\ (a * 256 + b) % 256 = b
        OBVIOUS
      <4> QED
        BY ONLY <4>1, <4>2, <4>3
    <3> QED
      BY <2>3, <2>4, <2>5, <3>4
  <2>6. ASSUME k \notin {0, 1}
        PROVE  wrap_transport_image(payload)[i] = raw[i]
    <3>1. k - 2 \in 0..(PAYLOAD_PAGE_SIZE - 1)
      BY <2>2, <2>6, Sizes
    <3>2. pg * PAYLOAD_PAGE_SIZE + (k - 2) \in PayloadOffset
      BY <2>2, <3>1, Sizes, InPages
      DEF PayloadOffset, PageIndex, Extent, PAYLOAD_TOTAL_BYTES
    <3>3. /\ (pg * PAYLOAD_PAGE_SIZE + (k - 2)) \div PAYLOAD_PAGE_SIZE = pg
          /\ (pg * PAYLOAD_PAGE_SIZE + (k - 2)) % PAYLOAD_PAGE_SIZE = k - 2
      BY <2>2, <3>1, Sizes, DivisionOf
    <3>4. payload[pg * PAYLOAD_PAGE_SIZE + (k - 2)] = PageByte(raw, pg, 2 + (k - 2))
      BY <3>2, <3>3 DEF payload, unwrap_transport_image, TRANSPORT_HEADER_SIZE
    <3>5. pg * PAYLOAD_PAGE_SIZE + k - 2 = pg * PAYLOAD_PAGE_SIZE + (k - 2) /\ 2 + (k - 2) = k
      <4>1. pg * PAYLOAD_PAGE_SIZE \in Nat /\ k \in Int
        BY <2>2, Sizes
      <4> QED
        BY <4>1
    <3> QED
      BY <2>3, <2>4, <2>6, <3>4, <3>5
  <2> QED
    BY <2>5, <2>6
<1> QED
  BY <1>1 DEF wrap_transport_image, Files

\* Whatever the file, of either form or of none: conversion loses nothing, so that
\* apply_patches may unwrap, patch and wrap again without touching another byte.
THEOREM ConversionLosesNothing ==
  ASSUME NEW n \in Nat, NEW raw \in Files(n)
  PROVE  RoundTrips(raw)
<1>1. ASSUME detect_image_format(raw) = "payload"
      PROVE  raw \in Files(PAYLOAD_TOTAL_BYTES)
  BY <1>1 DEF detect_image_format, Files, PayloadOffset
<1>2. ASSUME detect_image_format(raw) = "transport"
      PROVE  raw \in Files(TRANSPORT_TOTAL_BYTES)
  BY <1>2 DEF detect_image_format, Files
<1> QED
  BY <1>1, <1>2, WrappedIsReadable, UnwrapOfWrap, WrapOfUnwrap DEF RoundTrips, Readable

\* The transport offset printed for a payload offset is where the byte is.
THEOREM PrintedOffsetIsRight ==
  ASSUME NEW n \in Nat, NEW raw \in Files(n)
  PROVE  OffsetsAgree(raw)
<1> SUFFICES ASSUME NEW o \in PayloadOffset
             PROVE  raw[payload_to_transport_offset(o)] = unwrap_transport_image(raw)[o]
  BY DEF OffsetsAgree
<1>1. /\ (o \div PAYLOAD_PAGE_SIZE) * TRANSPORT_PAGE_SIZE \in Int
      /\ o % PAYLOAD_PAGE_SIZE \in Int
  BY PayloadPage, Sizes DEF PageIndex, Extent
<1> QED
  BY <1>1
  DEF payload_to_transport_offset, unwrap_transport_image, PageByte, TRANSPORT_HEADER_SIZE

----------------------------------------------------------------------------

(***************************************************************************)
(* Extraction.                                                             *)
(***************************************************************************)

\* How much of a file extraction keeps: whole pages, and a rest of less than a page.
LEMMA Stripped ==
  ASSUME NEW size \in Nat
  PROVE  \E q \in Nat, rest \in 0..(TRANSPORT_PAGE_SIZE - 1), kept \in 0..(PAYLOAD_PAGE_SIZE - 1) :
           /\ size = q * TRANSPORT_PAGE_SIZE + rest
           /\ StrippedSize(size) = q * PAYLOAD_PAGE_SIZE + kept
           /\ kept = 0 <=> rest < 3
           /\ kept = 0 \/ kept = rest - 2
<1> DEFINE q    == size \div TRANSPORT_PAGE_SIZE
           rest == size % TRANSPORT_PAGE_SIZE
           kept == IF rest < 3 THEN 0 ELSE rest - 2
<1>1. q \in Nat /\ rest \in 0..(TRANSPORT_PAGE_SIZE - 1) /\ size = q * TRANSPORT_PAGE_SIZE + rest
  BY Sizes, Division
<1>2. StrippedSize(size) = q * PAYLOAD_PAGE_SIZE + kept
  BY DEF StrippedSize, TRANSPORT_HEADER_SIZE
<1> HIDE DEF q, rest
<1>3. /\ kept \in 0..(PAYLOAD_PAGE_SIZE - 1) /\ (kept = 0 <=> rest < 3)
      /\ kept = 0 \/ kept = rest - 2
  BY <1>1, Sizes
<1> QED
  BY <1>1, <1>2, <1>3

\* Pages and a rest of less than a page make c pages only without a rest.
LEMMA NoRest ==
  ASSUME NEW c \in Nat, NEW d \in Nat \ {0}, NEW q \in Nat, NEW r \in 0..(d - 1)
  PROVE  q * d + r = c * d <=> q = c /\ r = 0
<1>1. c * d + 0 = c * d /\ 0 \in 0..(d - 1)
  BY SMT
<1>2. (q * d + r) \div d = q /\ (q * d + r) % d = r
  BY DivisionOf
<1>3. (c * d + 0) \div d = c /\ (c * d + 0) % d = 0
  BY <1>1, DivisionOf
<1> QED
  BY <1>1, <1>2, <1>3

\* The size of the payload comes out of a whole transport image, or one with one or
\* two bytes behind it.
LEMMA StrippedToPayload ==
  ASSUME NEW size \in Nat
  PROVE  /\ StrippedSize(size) \in Nat
         /\ StrippedSize(size) = PAYLOAD_TOTAL_BYTES <=> size - TRANSPORT_TOTAL_BYTES \in 0..2
<1>1. PICK q \in Nat, rest \in 0..(TRANSPORT_PAGE_SIZE - 1), kept \in 0..(PAYLOAD_PAGE_SIZE - 1) :
        /\ size = q * TRANSPORT_PAGE_SIZE + rest
        /\ StrippedSize(size) = q * PAYLOAD_PAGE_SIZE + kept
        /\ kept = 0 <=> rest < 3
  BY Stripped
<1>2. StrippedSize(size) \in Nat
  <2>1. q * PAYLOAD_PAGE_SIZE \in Nat
    BY Sizes
  <2> QED
    BY <1>1, <2>1, Sizes
<1>3. StrippedSize(size) = PAYLOAD_TOTAL_BYTES <=> q = PAGE_COUNT /\ kept = 0
  BY <1>1, Sizes, NoRest DEF PAYLOAD_TOTAL_BYTES
<1>4. ASSUME q = PAGE_COUNT, rest < 3
      PROVE  size - TRANSPORT_TOTAL_BYTES \in 0..2
  <2>1. size = TRANSPORT_TOTAL_BYTES + rest
    BY <1>1, <1>4 DEF TRANSPORT_TOTAL_BYTES
  <2> QED
    BY <2>1, <1>4, Sizes
<1>5. ASSUME size - TRANSPORT_TOTAL_BYTES \in 0..2
      PROVE  q = PAGE_COUNT /\ rest < 3
  <2> DEFINE j == size - TRANSPORT_TOTAL_BYTES
  <2>1. j \in 0..2 /\ j \in 0..(TRANSPORT_PAGE_SIZE - 1)
    BY <1>5, Sizes
  <2>2. size = PAGE_COUNT * TRANSPORT_PAGE_SIZE + j
    <3>1. size = TRANSPORT_TOTAL_BYTES + j
      BY Sizes
    <3> QED
      BY <3>1 DEF TRANSPORT_TOTAL_BYTES
  <2> HIDE DEF j
  <2>3. size \div TRANSPORT_PAGE_SIZE = PAGE_COUNT /\ size % TRANSPORT_PAGE_SIZE = j
    BY <2>1, <2>2, Sizes, DivisionOf
  <2>4. size \div TRANSPORT_PAGE_SIZE = q /\ size % TRANSPORT_PAGE_SIZE = rest
    BY <1>1, Sizes, DivisionOf
  <2> QED
    BY <2>1, <2>3, <2>4
<1> QED
  BY <1>1, <1>2, <1>3, <1>4, <1>5

\* The two tools read the same payload out of an image the patcher accepts.
THEOREM ExtractionAgrees ==
  ASSUME NEW size \in Nat, NEW raw \in Files(size)
  PROVE  StripAgrees(raw, size)
<1> SUFFICES ASSUME detect_image_format(raw) = "transport"
             PROVE  strip(raw, size) = unwrap_transport_image(raw)
  BY DEF StripAgrees
<1>1. Extent(size) = Extent(TRANSPORT_TOTAL_BYTES)
  BY DEF detect_image_format, Files
<1>2. size = TRANSPORT_TOTAL_BYTES
  BY <1>1, OneSize, Sizes
<1>3. StrippedSize(size) = PAYLOAD_TOTAL_BYTES
  BY <1>2, StrippedToPayload, Sizes
<1> QED
  BY <1>3 DEF strip, unwrap_transport_image, PayloadOffset

\* Whatever file is given to extract_payload, what comes out has the size of an
\* image exactly when the file held every page whole.
THEOREM ExtractionIsWhole ==
  ASSUME NEW size \in Nat, NEW raw
  PROVE  ExtractsWhole(raw, size)
<1>1. DOMAIN strip(raw, size) = Extent(StrippedSize(size)) /\ StrippedSize(size) \in Nat
  BY StrippedToPayload DEF strip
<1>2. PAYLOAD_TOTAL_BYTES # TRANSPORT_TOTAL_BYTES
  BY Sizes
<1>3. detect_image_format(strip(raw, size)) = "payload"
        <=> StrippedSize(size) = PAYLOAD_TOTAL_BYTES
  BY <1>1, <1>2, OneSize, Sizes DEF detect_image_format, PayloadOffset
<1> QED
  BY <1>3, StrippedToPayload DEF ExtractsWhole

----------------------------------------------------------------------------

(***************************************************************************)
(* The files on the disk.  A file can only be taken for an image at two    *)
(* sizes.  At the size of a transport image it is a whole one, and at the  *)
(* size of a payload either a sound payload or the beginning of a          *)
(* transport image, which the guarded reset vector gives away.             *)
(***************************************************************************)

Held(b, n) ==
  /\ b \in [Extent(n) -> Byte]
  /\ n > PAYLOAD_TOTAL_BYTES => b[0] = 0
  /\ n = PAYLOAD_TOTAL_BYTES => Sound(b) \/ b[0] = 0
  /\ n = TRANSPORT_TOTAL_BYTES => Unwrappable(b) /\ Sound(unwrap_transport_image(b))

SoundFile(b) == \E n \in 0..TRANSPORT_TOTAL_BYTES : Held(b, n)

LEMMA SomePayload ==
  PAYLOAD_TOTAL_BYTES \in Nat \ {0} /\ PAYLOAD_TOTAL_BYTES < TRANSPORT_TOTAL_BYTES
<1>1. PAYLOAD_TOTAL_BYTES # 0
  <2>1. \A a, b \in Nat \ {0} : a * b # 0
    OBVIOUS
  <2> QED
    BY <2>1, Sizes DEF PAYLOAD_TOTAL_BYTES
<1> QED
  BY <1>1, Sizes

LEMMA SizeIs ==
  ASSUME NEW n \in 0..TRANSPORT_TOTAL_BYTES, NEW b, DOMAIN b = Extent(n)
  PROVE  Size(b) = n
<1>1. ASSUME NEW m \in 0..TRANSPORT_TOTAL_BYTES, DOMAIN b = Extent(m)
      PROVE  m = n
  <2>1. m \in Nat /\ n \in Nat /\ Extent(m) = Extent(n)
    BY <1>1, Sizes
  <2> QED
    BY <2>1, OneSize
<1> QED
  BY <1>1 DEF Size

LEMMA FormatIs ==
  ASSUME NEW n \in 0..TRANSPORT_TOTAL_BYTES, NEW b, Held(b, n)
  PROVE  /\ detect_image_format(b) = "transport" <=> n = TRANSPORT_TOTAL_BYTES
         /\ detect_image_format(b) = "payload" <=> n = PAYLOAD_TOTAL_BYTES
<1>1. DOMAIN b = Extent(n)
  BY DEF Held
<1>2. /\ DOMAIN b = Extent(TRANSPORT_TOTAL_BYTES) <=> n = TRANSPORT_TOTAL_BYTES
      /\ DOMAIN b = PayloadOffset <=> n = PAYLOAD_TOTAL_BYTES
  BY <1>1, OneSize, Sizes DEF PayloadOffset
<1> QED
  BY <1>2, SomePayload, Sizes DEF detect_image_format

\* What inspect and patch go on with is a sound payload.
LEMMA UsableIsSound ==
  ASSUME NEW b, SoundFile(b), Usable(b)
  PROVE  Sound(PayloadOf(b))
<1>1. PICK n \in 0..TRANSPORT_TOTAL_BYTES : Held(b, n)
  BY DEF SoundFile
<1>2. CASE n = TRANSPORT_TOTAL_BYTES
  BY <1>1, <1>2, FormatIs DEF Held, PayloadOf
<1>3. CASE n # TRANSPORT_TOTAL_BYTES
  <2>1. n = PAYLOAD_TOTAL_BYTES /\ PayloadOf(b) = b
    BY <1>1, <1>3, FormatIs DEF Usable, Readable, PayloadOf
  <2>2. b[0] # 0
    BY <2>1, ResetVectorTells DEF Usable, Safe, Holds
  <2> QED
    BY <1>1, <2>1, <2>2 DEF Held
<1> QED
  BY <1>2, <1>3

LEMMA PayloadHeld ==
  ASSUME NEW p, Sound(p)
  PROVE  Held(p, PAYLOAD_TOTAL_BYTES)
BY SomePayload, Sizes, WholePayload DEF Sound, Held, PayloadOffset

LEMMA SoundIsPayload ==
  ASSUME NEW p, Sound(p)
  PROVE  p \in Files(PAYLOAD_TOTAL_BYTES)
BY WholePayload DEF Sound, Files, PayloadOffset, Byte

\* A page index fits in the two bytes of a header.
LEMMA IndexBytes ==
  ASSUME NEW pg \in PageIndex
  PROVE  pg \div 256 \in Byte /\ pg % 256 \in Byte
<1>1. PAGE_COUNT \in Nat /\ PAGE_COUNT <= 65536
  BY Geometry
<1>2. pg \in Nat /\ pg < 65536
  BY <1>1 DEF PageIndex, Extent
<1>3. pg \div 256 \in Nat /\ pg % 256 \in 0..255 /\ pg = (pg \div 256) * 256 + (pg % 256)
  BY <1>2, Division
<1> QED
  BY <1>2, <1>3 DEF Byte

LEMMA WrappedHeld ==
  ASSUME NEW p, Sound(p)
  PROVE  Held(wrap_transport_image(p), TRANSPORT_TOTAL_BYTES)
<1> DEFINE b == wrap_transport_image(p)
<1>1. p \in Files(PAYLOAD_TOTAL_BYTES)
  BY SoundIsPayload
<1>2. ASSUME NEW i \in Extent(TRANSPORT_TOTAL_BYTES)
      PROVE  b[i] \in Byte
  <2> DEFINE pg == i \div TRANSPORT_PAGE_SIZE
             k  == i % TRANSPORT_PAGE_SIZE
  <2>1. i \in Nat /\ i \in 0..(PAGE_COUNT * TRANSPORT_PAGE_SIZE - 1)
    BY Sizes DEF Extent, TRANSPORT_TOTAL_BYTES
  <2>2. /\ pg \in PageIndex /\ pg \in Nat
        /\ k \in 0..(TRANSPORT_PAGE_SIZE - 1)
        /\ i = pg * TRANSPORT_PAGE_SIZE + k
    BY <2>1, Sizes, PageOf, Division DEF PageIndex, Extent
  <2> HIDE DEF pg, k, b
  <2>3. pg \in PageIndex /\ k \in 0..(TRANSPORT_PAGE_SIZE - 1)
    BY <2>2
  <2>4. pg \in Nat
    BY <2>3, Sizes DEF PageIndex, Extent
  <2>5. pg \div 256 \in Byte /\ pg % 256 \in Byte
    BY <2>3, IndexBytes
  <2>6. b[i] = IF k = 0 THEN pg \div 256
               ELSE IF k = 1 THEN pg % 256
               ELSE p[pg * PAYLOAD_PAGE_SIZE + k - 2]
    <3>1. b[i] = PageByte(b, pg, k)
      BY <2>2 DEF PageByte
    <3> QED
      BY <2>3, <3>1, WrappedByte DEF b
  <2>7. ASSUME k \notin {0, 1}
        PROVE  p[pg * PAYLOAD_PAGE_SIZE + k - 2] \in Byte
    <3>1. k - 2 \in 0..(PAYLOAD_PAGE_SIZE - 1)
      BY <2>3, <2>7, Sizes
    <3>2. pg * PAYLOAD_PAGE_SIZE + (k - 2) \in Extent(PAYLOAD_TOTAL_BYTES)
      <4>1. pg \in 0..(PAGE_COUNT - 1)
        BY <2>3 DEF PageIndex, Extent
      <4> QED
        BY <3>1, <4>1, Sizes, InPages DEF Extent, PAYLOAD_TOTAL_BYTES
    <3>3. pg * PAYLOAD_PAGE_SIZE + k - 2 = pg * PAYLOAD_PAGE_SIZE + (k - 2)
      <4>1. pg * PAYLOAD_PAGE_SIZE \in Nat /\ k \in Int
        BY <2>3, <2>4, Sizes
      <4> QED
        BY <4>1
    <3> QED
      BY <1>1, <3>2, <3>3 DEF Files, Byte
  <2> QED
    BY <2>5, <2>6, <2>7
<1>3. b \in [Extent(TRANSPORT_TOTAL_BYTES) -> Byte]
  BY <1>2 DEF wrap_transport_image
<1>4. b[0] = 0
  <2>1. 0 \in PageIndex /\ 0 \in 0..(TRANSPORT_PAGE_SIZE - 1)
    BY Sizes DEF PageIndex, Extent
  <2>2. PageByte(b, 0, 0) = 0 \div 256
    BY <2>1, WrappedByte
  <2>3. 0 * TRANSPORT_PAGE_SIZE + 0 = 0 /\ 0 \div 256 = 0
    BY Sizes
  <2> QED
    BY <2>2, <2>3 DEF PageByte
<1>5. Unwrappable(b) /\ unwrap_transport_image(b) = p
  BY <1>1, WrappedIsReadable, UnwrapOfWrap
<1> QED
  BY <1>3, <1>4, <1>5, SomePayload DEF Held

\* What a patch run writes.
LEMMA OutputHeld ==
  ASSUME NEW p, Sound(p), NEW format \in {"transport", "payload"}
  PROVE  /\ SoundFile(InFormat(p, format)) /\ Usable(InFormat(p, format))
         /\ detect_image_format(InFormat(p, format)) = format
         /\ PayloadOf(InFormat(p, format)) = p
<1>1. Safe(p)
  BY SoundIsSafe DEF Sound
<1>2. CASE format = "transport"
  <2> DEFINE b == wrap_transport_image(p)
  <2>1. InFormat(p, format) = b /\ Held(b, TRANSPORT_TOTAL_BYTES)
    BY <1>2, WrappedHeld DEF InFormat
  <2>2. /\ detect_image_format(b) = "transport" /\ Unwrappable(b)
        /\ unwrap_transport_image(b) = p
    BY WrappedIsReadable, UnwrapOfWrap, SoundIsPayload
  <2>3. PayloadOf(b) = p
    BY <2>2 DEF PayloadOf
  <2> QED
    BY <1>1, <1>2, <2>1, <2>2, <2>3, Sizes DEF SoundFile, Usable, Readable
<1>3. CASE format = "payload"
  <2>1. InFormat(p, format) = p /\ Held(p, PAYLOAD_TOTAL_BYTES)
    BY <1>3, PayloadHeld DEF InFormat
  <2>2. PAYLOAD_TOTAL_BYTES \in 0..TRANSPORT_TOTAL_BYTES
    BY SomePayload, Sizes
  <2>3. detect_image_format(p) = "payload" /\ PayloadOf(p) = p
    BY <2>1, <2>2, FormatIs DEF PayloadOf
  <2> QED
    BY <1>1, <1>3, <2>1, <2>2, <2>3 DEF SoundFile, Usable, Readable
<1> QED
  BY <1>2, <1>3

\* What a fault leaves of it is taken for no image: it is too short for a transport
\* image, and what has the size of a payload begins with a page index.
LEMMA PrefixHeld ==
  ASSUME NEW m \in 0..TRANSPORT_TOTAL_BYTES, NEW b, Held(b, m), NEW n \in 0..(m - 1)
  PROVE  SoundFile(Prefix(b, n)) /\ ~Usable(Prefix(b, n))
<1>1. \A i \in Extent(n) : i \in Extent(m)
  BY Sizes DEF Extent
<1>2. Prefix(b, n) \in [Extent(n) -> Byte]
  BY <1>1 DEF Prefix, Held
<1>3. n # 0 => Prefix(b, n)[0] = b[0]
  BY Sizes DEF Prefix, Extent
<1>4. Held(Prefix(b, n), n)
  BY <1>2, <1>3, SomePayload, Sizes DEF Held
<1>5. n \in 0..TRANSPORT_TOTAL_BYTES /\ n # TRANSPORT_TOTAL_BYTES
  BY Sizes
<1>6. ASSUME Usable(Prefix(b, n))
      PROVE  FALSE
  <2>1. n = PAYLOAD_TOTAL_BYTES /\ PayloadOf(Prefix(b, n)) = Prefix(b, n)
    BY <1>4, <1>5, <1>6, FormatIs DEF Usable, Readable, PayloadOf
  <2>2. b[0] = 0 /\ n # 0
    BY <2>1, SomePayload, Sizes DEF Held
  <2>3. Prefix(b, n)[0] # 0
    BY <1>6, <2>1, ResetVectorTells DEF Usable, Safe, Holds
  <2> QED
    BY <1>3, <2>2, <2>3
<1> QED
  BY <1>4, <1>5, <1>6 DEF SoundFile

LEMMA EmptyHeld == SoundFile(Empty) /\ ~Usable(Empty)
<1>1. Extent(0) = {}
  BY DEF Extent
<1>2. Empty \in [Extent(0) -> Byte]
  BY <1>1 DEF Empty
<1>3. Held(Empty, 0) /\ 0 \in 0..TRANSPORT_TOTAL_BYTES
  BY <1>2, SomePayload, Sizes DEF Held
<1>4. ~Usable(Empty)
  BY <1>3, FormatIs, SomePayload, Sizes DEF Usable, Readable
<1> QED
  BY <1>3, <1>4 DEF SoundFile

\* Extraction keeps less than a payload, or the payload of a whole image.
LEMMA StripHeld ==
  ASSUME NEW n \in 0..TRANSPORT_TOTAL_BYTES, NEW b, Held(b, n)
  PROVE  /\ SoundFile(strip(b, n))
         /\ n = TRANSPORT_TOTAL_BYTES => strip(b, n) = unwrap_transport_image(b)
         /\ n # TRANSPORT_TOTAL_BYTES => ~Usable(strip(b, n))
<1>1. n \in Nat
  BY Sizes
<1>2. PICK q \in Nat, rest \in 0..(TRANSPORT_PAGE_SIZE - 1), kept \in 0..(PAYLOAD_PAGE_SIZE - 1) :
        /\ n = q * TRANSPORT_PAGE_SIZE + rest
        /\ StrippedSize(n) = q * PAYLOAD_PAGE_SIZE + kept
        /\ kept = 0 <=> rest < 3
        /\ kept = 0 \/ kept = rest - 2
  BY <1>1, Stripped
<1>3. CASE n = TRANSPORT_TOTAL_BYTES
  <2>1. StrippedSize(n) = PAYLOAD_TOTAL_BYTES
    BY <1>1, <1>3, StrippedToPayload, Sizes
  <2>2. strip(b, n) = unwrap_transport_image(b)
    BY <2>1 DEF strip, unwrap_transport_image, PayloadOffset
  <2> QED
    BY <1>3, <2>2, PayloadHeld, SomePayload, Sizes DEF Held, SoundFile
<1>4. CASE n # TRANSPORT_TOTAL_BYTES
  <2> DEFINE s == StrippedSize(n)
  <2>1. s \in Nat /\ s # PAYLOAD_TOTAL_BYTES
    BY <1>1, <1>4, StrippedToPayload, Sizes
  <2>2. s < PAYLOAD_TOTAL_BYTES
    <3>1. n < PAGE_COUNT * TRANSPORT_PAGE_SIZE
      BY <1>4, Sizes DEF TRANSPORT_TOTAL_BYTES
    <3>2. n \in 0..(PAGE_COUNT * TRANSPORT_PAGE_SIZE - 1)
      BY <1>1, <3>1, Sizes DEF TRANSPORT_TOTAL_BYTES
    <3>3. n \div TRANSPORT_PAGE_SIZE = q
      BY <1>2, Sizes, DivisionOf
    <3>4. q \in 0..(PAGE_COUNT - 1)
      BY <3>2, <3>3, Sizes, PageOf
    <3>5. q * PAYLOAD_PAGE_SIZE + kept \in 0..(PAGE_COUNT * PAYLOAD_PAGE_SIZE - 1)
      BY <3>4, Sizes, InPages
    <3> QED
      BY <1>2, <3>5, Sizes DEF PAYLOAD_TOTAL_BYTES
  <2>3. ASSUME NEW o \in Extent(s)
        PROVE  strip(b, n)[o] \in Byte
    <3> DEFINE pg == o \div PAYLOAD_PAGE_SIZE
               k  == o % PAYLOAD_PAGE_SIZE
    <3>1. o \in Nat /\ o < q * PAYLOAD_PAGE_SIZE + kept
      BY <1>2, <2>1 DEF Extent
    <3>2. /\ pg \in Nat /\ k \in 0..(PAYLOAD_PAGE_SIZE - 1)
          /\ o = pg * PAYLOAD_PAGE_SIZE + k
      BY <3>1, Sizes, Division
    <3>3. strip(b, n)[o] = b[pg * TRANSPORT_PAGE_SIZE + (2 + k)]
      BY DEF strip, PageByte, TRANSPORT_HEADER_SIZE
    <3> HIDE DEF pg, k
    <3>4. pg * TRANSPORT_PAGE_SIZE \in Nat /\ q * TRANSPORT_PAGE_SIZE \in Nat
      BY <3>2, Sizes
    <3>5. pg < q \/ (pg = q /\ k < kept)
      <4>1. ASSUME pg > q
            PROVE  FALSE
        <5>1. pg * PAYLOAD_PAGE_SIZE >= q * PAYLOAD_PAGE_SIZE + PAYLOAD_PAGE_SIZE
          BY <3>2, <4>1, Sizes
        <5>2. q * PAYLOAD_PAGE_SIZE \in Nat /\ pg * PAYLOAD_PAGE_SIZE \in Nat
          BY <3>2, Sizes
        <5> QED
          BY <3>1, <3>2, <5>1, <5>2, Sizes
      <4>2. ASSUME pg = q
            PROVE  k < kept
        <5>1. q * PAYLOAD_PAGE_SIZE \in Nat
          BY Sizes
        <5> QED
          BY <3>1, <3>2, <4>2, <5>1, Sizes
      <4> QED
        BY <3>2, <4>1, <4>2
    <3>6. CASE pg < q
      <4>1. pg * TRANSPORT_PAGE_SIZE + TRANSPORT_PAGE_SIZE <= q * TRANSPORT_PAGE_SIZE
        BY <3>2, <3>6, Sizes
      <4>2. pg * TRANSPORT_PAGE_SIZE + (2 + k) \in Extent(n)
        BY <1>2, <3>2, <3>4, <4>1, Sizes DEF Extent
      <4> QED
        BY <3>3, <4>2 DEF Held
    <3>7. CASE pg = q /\ k < kept
      <4>1. pg * TRANSPORT_PAGE_SIZE + (2 + k) \in Extent(n)
        BY <1>2, <3>2, <3>4, <3>7, Sizes DEF Extent
      <4> QED
        BY <3>3, <4>1 DEF Held
    <3> QED
      BY <3>5, <3>6, <3>7
  <2>4. strip(b, n) \in [Extent(s) -> Byte]
    BY <2>3 DEF strip
  <2>5. Held(strip(b, n), s)
    BY <2>1, <2>2, <2>4, SomePayload, Sizes DEF Held
  <2>6. s \in 0..TRANSPORT_TOTAL_BYTES /\ s # TRANSPORT_TOTAL_BYTES
    BY <2>1, <2>2, SomePayload, Sizes
  <2>7. ~Usable(strip(b, n))
    BY <2>1, <2>5, <2>6, FormatIs DEF Usable, Readable
  <2> QED
    BY <1>4, <2>5, <2>6, <2>7 DEF SoundFile
<1> QED
  BY <1>3, <1>4

----------------------------------------------------------------------------

(***************************************************************************)
(* The runs.  The bytes in hand make a sound file, and those of a patch    *)
(* run the image its summary tells of.                                     *)
(***************************************************************************)

Steps == {"open", "image", "open manifest", "manifest", "done"}

Faithful(b, summary) ==
  /\ Usable(b)
  /\ detect_image_format(b) = summary.format
  /\ PayloadOf(b) = summary.payload
  /\ AppliedPatches(PayloadOf(b)) = summary.applied

Vouched(f) == manifest.state = "whole" /\ ~stale /\ manifest.out = f

RunHolds ==
  /\ run = [step |-> run.step, wants |-> run.wants, exit |-> run.exit, out |-> run.out,
            bytes |-> run.bytes, summary |-> run.summary]
  /\ run.out \in Path
  /\ SoundFile(run.bytes)
  /\ run.summary # NoManifest \/ run.wants => Faithful(run.bytes, run.summary)

\* Before its bytes are written the image is open, and neither is it taken for one nor
\* does a manifest vouch for it; before the manifest is written, they are.
RunAtDisk ==
  /\ run.step = "image" =>
       run.out \in DOMAIN disk /\ ~Usable(disk[run.out]) /\ ~Vouched(run.out)
  /\ run.step \in {"open manifest", "manifest"} =>
       run.wants /\ run.out \in DOMAIN disk /\ disk[run.out] = run.bytes

DiskSound == \A f \in DOMAIN disk : SoundFile(disk[f])

\* The inductive invariant.
SessionInv ==
  /\ DiskSound
  /\ run.step \in Steps /\ run.exit \in {"none", "ok", "error"}
  /\ run.step # "done" => RunHolds /\ RunAtDisk
  /\ manifest.state \in {"absent", "torn", "whole"}
  /\ ManifestHonest

LEMMA FollowingIs ==
  ASSUME NEW wants
  PROVE  /\ Following("begin", wants) = "open"
         /\ Following("open", wants) = "image"
         /\ Following("image", wants) = IF wants THEN "open manifest" ELSE "done"
         /\ Following("open manifest", wants) = "manifest"
         /\ Following("manifest", wants) = "done"
BY DEF Following

\* A run that goes on keeps everything but its step.
LEMMA RunGoesOn ==
  ASSUME RunHolds, Proceed, NEW next, next = Following(run.step, run.wants)
  PROVE  /\ next = "done" => run'.step = "done" /\ run'.exit = "ok"
         /\ next # "done" =>
              /\ run'.step = next /\ run'.exit = run.exit /\ run'.wants = run.wants
              /\ run'.out = run.out /\ run'.bytes = run.bytes /\ run'.summary = run.summary
              /\ RunHolds'
<1>1. CASE next = "done"
  BY <1>1 DEF Proceed, Idle
<1>2. CASE next # "done"
  <2>1. run' = [run EXCEPT !.step = next]
    BY <1>2 DEF Proceed
  <2>2. run' = [step |-> next, wants |-> run.wants, exit |-> run.exit, out |-> run.out,
                bytes |-> run.bytes, summary |-> run.summary]
    BY <2>1 DEF RunHolds
  <2>3. /\ run'.step = next /\ run'.exit = run.exit /\ run'.wants = run.wants
        /\ run'.out = run.out /\ run'.bytes = run.bytes /\ run'.summary = run.summary
    BY <2>2
  <2>4. RunHolds'
    BY <2>2, <2>3 DEF RunHolds
  <2> QED
    BY <1>2, <2>3, <2>4
<1> QED
  BY <1>1, <1>2

LEMMA FilesHaveSizes ==
  ASSUME NEW b, SoundFile(b)
  PROVE  Size(b) \in 0..TRANSPORT_TOTAL_BYTES /\ Held(b, Size(b))
<1>1. PICK n \in 0..TRANSPORT_TOTAL_BYTES : Held(b, n)
  BY DEF SoundFile
<1>2. Size(b) = n
  BY <1>1, SizeIs DEF Held
<1> QED
  BY <1>1, <1>2

LEMMA SessionStarts == SessionInit => SessionInv
<1> SUFFICES ASSUME SessionInit PROVE SessionInv
  OBVIOUS
<1>1. DiskSound
  <2>1. Held(wrap_transport_image(Stock), TRANSPORT_TOTAL_BYTES)
    BY StockIsSound, WrappedHeld
  <2>2. SoundFile(wrap_transport_image(Stock))
    BY <2>1, Sizes DEF SoundFile
  <2> QED
    BY <2>2 DEF SessionInit, DiskSound
<1>2. run.step = "done" /\ run.exit = "none" /\ manifest.state = "absent"
  BY DEF SessionInit, Idle, NoManifest
<1> QED
  BY <1>1, <1>2 DEF SessionInv, Steps, ManifestHonest

\* What a patch run holds in its hand.
LEMMA PatchHolds ==
  ASSUME SessionInv, NEW in \in DOMAIN disk, NEW out \in Path, NEW r,
         NEW asked \in {"same", "transport", "payload"}, NEW wants \in BOOLEAN,
         Patch(in, out, r, asked, wants)
  PROVE  run'.step = "open" /\ run'.exit = "none" /\ RunHolds'
<1> DEFINE raw     == disk[in]
           payload == PayloadOf(raw)
           new     == Write(payload, SitesOf(r))
           format  == TargetFormat(raw, asked)
           bytes   == InFormat(new, format)
           summary == [format |-> format, payload |-> new,
                       applied |-> AppliedPatches(payload) \cup Enabled(r)]
<1>1. Usable(raw) /\ Accepts(payload, r)
  BY DEF Patch
<1>2. run' = [step |-> "open", wants |-> wants, exit |-> "none", out |-> out,
              bytes |-> bytes, summary |-> summary]
  BY FollowingIs, Zenon DEF Patch
<1>3. Sound(payload)
  BY <1>1, UsableIsSound DEF SessionInv, DiskSound
<1>4. format \in {"transport", "payload"}
  BY <1>1 DEF TargetFormat, Usable, Readable
<1> HIDE DEF raw, payload, format
<1>5. Sound(new) /\ AppliedPatches(new) = AppliedPatches(payload) \cup Enabled(r)
  BY <1>1, <1>3, AcceptKeepsSound, AppliedAfter
<1> HIDE DEF new
<1>6. /\ SoundFile(bytes) /\ Usable(bytes)
      /\ detect_image_format(bytes) = format /\ PayloadOf(bytes) = new
  BY <1>4, <1>5, OutputHeld
<1> HIDE DEF bytes
<1>7. summary.format = format /\ summary.payload = new
      /\ summary.applied = AppliedPatches(payload) \cup Enabled(r)
  OBVIOUS
<1> HIDE DEF summary
<1>8. Faithful(bytes, summary)
  BY <1>5, <1>6, <1>7 DEF Faithful
<1>9. /\ run'.step = "open" /\ run'.wants = wants /\ run'.exit = "none" /\ run'.out = out
      /\ run'.bytes = bytes /\ run'.summary = summary
  BY <1>2
<1> QED
  BY <1>2, <1>6, <1>8, <1>9 DEF RunHolds

LEMMA ExtractHolds ==
  ASSUME SessionInv, NEW in \in DOMAIN disk, NEW out \in Path, Extract(in, out)
  PROVE  run'.step = "open" /\ run'.exit = "none" /\ RunHolds'
<1> DEFINE bytes == strip(disk[in], Size(disk[in]))
<1>1. run' = [step |-> "open", wants |-> FALSE, exit |-> "none", out |-> out,
              bytes |-> bytes, summary |-> NoManifest]
  BY FollowingIs, Zenon DEF Extract
<1>2. SoundFile(bytes)
  BY FilesHaveSizes, StripHeld DEF SessionInv, DiskSound
<1> HIDE DEF bytes
<1>3. /\ run'.step = "open" /\ run'.wants = FALSE /\ run'.exit = "none" /\ run'.out = out
      /\ run'.bytes = bytes /\ run'.summary = NoManifest
  BY <1>1
<1> QED
  BY <1>1, <1>2, <1>3 DEF RunHolds

\* A step that leaves the disk, the manifest and stale alone keeps what they promise.
LEMMA OthersKept ==
  ASSUME SessionInv, UNCHANGED <<disk, manifest, stale>>
  PROVE  DiskSound' /\ ManifestHonest' /\ manifest'.state \in {"absent", "torn", "whole"}
BY DEF SessionInv, DiskSound, ManifestHonest

LEMMA OpenImageKeeps ==
  ASSUME SessionInv, OpenImage
  PROVE  SessionInv'
<1>1. run.step = "open" /\ run.exit \in {"none", "ok", "error"} /\ RunHolds
  BY DEF SessionInv, OpenImage
<1>2. /\ run'.step = "image" /\ run'.exit = run.exit /\ run'.out = run.out /\ RunHolds'
  BY <1>1, FollowingIs, RunGoesOn DEF OpenImage
<1>3. /\ DOMAIN disk' = DOMAIN disk \cup {run.out} /\ disk'[run.out] = Empty
      /\ \A f \in DOMAIN disk : f # run.out => disk'[f] = disk[f]
      /\ manifest' = manifest
  BY DEF OpenImage
<1>4. stale' = (stale \/ (manifest.state = "whole" /\ manifest.out = run.out))
  BY DEF OpenImage
<1>5. ~stale' => ~stale /\ ~(manifest.state = "whole" /\ manifest.out = run.out)
  BY <1>4
<1>6. DiskSound'
  BY <1>3, EmptyHeld DEF SessionInv, DiskSound
<1>7. ManifestHonest'
  <2> SUFFICES ASSUME manifest'.state = "whole", ~stale'
               PROVE  /\ manifest'.out \in DOMAIN disk' /\ Usable(disk'[manifest'.out])
                      /\ detect_image_format(disk'[manifest'.out]) = manifest'.summary.format
                      /\ PayloadOf(disk'[manifest'.out]) = manifest'.summary.payload
                      /\ AppliedPatches(PayloadOf(disk'[manifest'.out])) =
                           manifest'.summary.applied
    BY DEF ManifestHonest
  <2>1. manifest.state = "whole" /\ ~stale /\ manifest.out # run.out
    BY <1>3, <1>5
  <2>2. manifest.out \in DOMAIN disk
    BY <2>1 DEF SessionInv, ManifestHonest
  <2>3. /\ manifest'.out = manifest.out /\ disk'[manifest.out] = disk[manifest.out]
        /\ manifest.out \in DOMAIN disk'
    BY <1>3, <2>1, <2>2
  <2> QED
    BY <1>3, <2>1, <2>3 DEF SessionInv, ManifestHonest
<1>8. RunAtDisk'
  BY <1>2, <1>3, <1>5, EmptyHeld DEF RunAtDisk, Vouched
<1> QED
  BY <1>1, <1>2, <1>3, <1>6, <1>7, <1>8 DEF SessionInv, Steps

\* Bytes go only to the image of the run, which no manifest vouches for.
LEMMA WriteKeeps ==
  ASSUME SessionInv, run.step = "image", NEW b, SoundFile(b),
         disk' = [disk EXCEPT ![run.out] = b], UNCHANGED <<manifest, stale>>
  PROVE  /\ DiskSound' /\ ManifestHonest' /\ manifest'.state \in {"absent", "torn", "whole"}
         /\ run.out \in DOMAIN disk' /\ disk'[run.out] = b
         /\ ~Vouched(run.out) /\ RunHolds
<1>1. run.out \in DOMAIN disk /\ ~Vouched(run.out) /\ RunHolds
  BY DEF SessionInv, RunAtDisk
<1>2. /\ DOMAIN disk' = DOMAIN disk /\ disk'[run.out] = b
      /\ \A f \in DOMAIN disk : f # run.out => disk'[f] = disk[f]
  BY <1>1
<1>3. DiskSound'
  BY <1>2 DEF SessionInv, DiskSound
<1>4. ManifestHonest'
  BY <1>1, <1>2 DEF SessionInv, ManifestHonest, Vouched
<1> QED
  BY <1>1, <1>2, <1>3, <1>4 DEF SessionInv

LEMMA WritePartKeeps ==
  ASSUME SessionInv, WritePart
  PROVE  SessionInv'
<1>1. run.step = "image" /\ RunHolds /\ RunAtDisk
  BY DEF SessionInv, WritePart
<1>2. PICK n \in Size(disk[run.out])..(Size(run.bytes) - 1) :
        disk' = [disk EXCEPT ![run.out] = Prefix(run.bytes, n)]
  BY DEF WritePart
<1>3. SoundFile(Prefix(run.bytes, n)) /\ ~Usable(Prefix(run.bytes, n))
  <2>1. Size(disk[run.out]) \in 0..TRANSPORT_TOTAL_BYTES
    BY <1>1, FilesHaveSizes DEF SessionInv, DiskSound, RunAtDisk
  <2>2. Size(run.bytes) \in 0..TRANSPORT_TOTAL_BYTES /\ Held(run.bytes, Size(run.bytes))
    BY <1>1, FilesHaveSizes DEF RunHolds
  <2>3. n \in 0..(Size(run.bytes) - 1)
    BY <2>1, <2>2, Sizes
  <2> QED
    BY <2>2, <2>3, PrefixHeld
<1>4. /\ DiskSound' /\ ManifestHonest' /\ manifest'.state \in {"absent", "torn", "whole"}
      /\ run.out \in DOMAIN disk' /\ ~Usable(disk'[run.out]) /\ ~Vouched(run.out)
  BY <1>1, <1>2, <1>3, WriteKeeps DEF WritePart
<1>5. run' = run /\ manifest' = manifest /\ stale' = stale
  BY DEF WritePart
<1>6. RunHolds' /\ RunAtDisk'
  BY <1>1, <1>4, <1>5 DEF RunHolds, RunAtDisk, Vouched
<1> QED
  BY <1>1, <1>4, <1>5, <1>6 DEF SessionInv

LEMMA WriteRestKeeps ==
  ASSUME SessionInv, WriteRest
  PROVE  SessionInv'
<1>1. run.step = "image" /\ run.exit \in {"none", "ok", "error"} /\ RunHolds
  BY DEF SessionInv, WriteRest
<1>2. /\ DiskSound' /\ ManifestHonest' /\ manifest'.state \in {"absent", "torn", "whole"}
      /\ run.out \in DOMAIN disk' /\ disk'[run.out] = run.bytes
  BY <1>1, WriteKeeps DEF WriteRest, RunHolds
<1>3. CASE Following("image", run.wants) = "done"
  <2>1. run'.step = "done" /\ run'.exit = "ok"
    BY <1>1, <1>3, RunGoesOn DEF WriteRest
  <2> QED
    BY <1>2, <2>1 DEF SessionInv, Steps
<1>4. CASE Following("image", run.wants) # "done"
  <2>1. run.wants /\ Following("image", run.wants) = "open manifest"
    BY <1>4, FollowingIs
  <2>2. /\ run'.step = "open manifest" /\ run'.exit = run.exit /\ run'.wants = run.wants
        /\ run'.out = run.out /\ run'.bytes = run.bytes /\ RunHolds'
    BY <1>1, <2>1, RunGoesOn DEF WriteRest
  <2>3. RunAtDisk'
    BY <1>2, <2>1, <2>2 DEF RunAtDisk
  <2> QED
    BY <1>1, <1>2, <2>2, <2>3 DEF SessionInv, Steps
<1> QED
  BY <1>3, <1>4

LEMMA OpenManifestKeeps ==
  ASSUME SessionInv, OpenManifest
  PROVE  SessionInv'
<1>1. /\ run.step = "open manifest" /\ run.exit \in {"none", "ok", "error"}
      /\ RunHolds /\ RunAtDisk
  BY DEF SessionInv, OpenManifest
<1>2. /\ run'.step = "manifest" /\ run'.exit = run.exit /\ run'.wants = run.wants
      /\ run'.out = run.out /\ run'.bytes = run.bytes /\ RunHolds'
  BY <1>1, FollowingIs, RunGoesOn DEF OpenManifest
<1>3. disk' = disk /\ manifest'.state = "torn"
  BY DEF OpenManifest
<1>4. DiskSound' /\ ManifestHonest'
  BY <1>3 DEF SessionInv, DiskSound, ManifestHonest
<1>5. RunAtDisk'
  BY <1>1, <1>2, <1>3 DEF RunAtDisk
<1> QED
  BY <1>1, <1>2, <1>3, <1>4, <1>5 DEF SessionInv, Steps

LEMMA WriteManifestKeeps ==
  ASSUME SessionInv, WriteManifest
  PROVE  SessionInv'
<1>1. run.step = "manifest" /\ RunHolds /\ RunAtDisk
  BY DEF SessionInv, WriteManifest
<1>2. run'.step = "done" /\ run'.exit = "ok"
  BY <1>1, FollowingIs, RunGoesOn DEF WriteManifest
<1>3. disk' = disk /\ manifest' = [state |-> "whole", out |-> run.out, summary |-> run.summary]
  BY DEF WriteManifest
<1>4. manifest'.state = "whole" /\ manifest'.out = run.out /\ manifest'.summary = run.summary
  BY <1>3
<1>5. run.out \in DOMAIN disk /\ disk[run.out] = run.bytes /\ Faithful(run.bytes, run.summary)
  BY <1>1 DEF RunAtDisk, RunHolds
<1>6. DiskSound' /\ ManifestHonest'
  BY <1>3, <1>4, <1>5 DEF SessionInv, DiskSound, ManifestHonest, Faithful
<1> QED
  BY <1>2, <1>4, <1>6 DEF SessionInv, Steps

LEMMA SessionStep ==
  ASSUME SessionInv, [SessionNext]_sessionVars
  PROVE  SessionInv'
<1>1. ASSUME NEW in \in DOMAIN disk, NEW out \in Path, NEW r \in Request,
             NEW asked \in {"same", "transport", "payload"}, NEW wants \in BOOLEAN,
             Patch(in, out, r, asked, wants)
      PROVE  SessionInv'
  <2>1. run'.step = "open" /\ run'.exit = "none" /\ RunHolds'
    BY <1>1, PatchHolds
  <2>2. DiskSound' /\ ManifestHonest' /\ manifest'.state \in {"absent", "torn", "whole"}
    BY <1>1, OthersKept DEF Patch
  <2> QED
    BY <2>1, <2>2 DEF SessionInv, RunAtDisk, Steps
<1>2. ASSUME NEW in \in DOMAIN disk, NEW out \in Path, Extract(in, out)
      PROVE  SessionInv'
  <2>1. run'.step = "open" /\ run'.exit = "none" /\ RunHolds'
    BY <1>2, ExtractHolds
  <2>2. DiskSound' /\ ManifestHonest' /\ manifest'.state \in {"absent", "torn", "whole"}
    BY <1>2, OthersKept DEF Extract
  <2> QED
    BY <2>1, <2>2 DEF SessionInv, RunAtDisk, Steps
<1>3. ASSUME run' = [Idle EXCEPT !.exit = "error"], UNCHANGED <<disk, manifest, stale>>
      PROVE  SessionInv'
  <2>1. run'.step = "done" /\ run'.exit = "error"
    BY <1>3 DEF Idle
  <2>2. DiskSound' /\ ManifestHonest' /\ manifest'.state \in {"absent", "torn", "whole"}
    BY <1>3, OthersKept
  <2> QED
    BY <2>1, <2>2 DEF SessionInv, Steps
<1>4. CASE UNCHANGED sessionVars
  <2>1. run' = run /\ UNCHANGED <<disk, manifest, stale>>
    BY <1>4 DEF sessionVars
  <2>2. DiskSound' /\ ManifestHonest' /\ manifest'.state \in {"absent", "torn", "whole"}
    BY <2>1, OthersKept
  <2> QED
    BY <2>1, <2>2 DEF SessionInv, RunHolds, RunAtDisk, Vouched
<1>5. ASSUME NEW in, NEW r, PatchRefused(in, r)
      PROVE  SessionInv'
  BY <1>3, <1>5 DEF PatchRefused
<1>6. ASSUME Fault
      PROVE  SessionInv'
  BY <1>3, <1>6 DEF Fault
<1> QED
  BY <1>1, <1>2, <1>4, <1>5, <1>6, OpenImageKeeps, WritePartKeeps, WriteRestKeeps,
     OpenManifestKeeps, WriteManifestKeeps DEF SessionNext

LEMMA SessionInvariant == SessionSpec => []SessionInv
BY SessionStarts, SessionStep, PTL DEF SessionSpec

----------------------------------------------------------------------------

(***************************************************************************)
(* What follows for every run of the command line.                         *)
(***************************************************************************)

\* What the files are made of.
FilesOK ==
  /\ \A f \in DOMAIN disk : \E n \in 0..TRANSPORT_TOTAL_BYTES : disk[f] \in [Extent(n) -> Byte]
  /\ run.exit \in {"none", "ok", "error"}
  /\ manifest.state \in {"absent", "torn", "whole"}

\* Every file is a row of bytes no longer than a transport image.
THEOREM FilesAreBytes == SessionSpec => []FilesOK
<1>1. SessionInv => FilesOK
  BY DEF SessionInv, DiskSound, SoundFile, Held, FilesOK
<1> QED
  BY <1>1, SessionInvariant, PTL

\* What inspect and patch would go on with holds whole patches only, whatever was
\* patched, converted, extracted or cut short before.
THEOREM OnlyWholeImagesAreTaken == SessionSpec => []OnlyWholeImages
<1>1. SessionInv => OnlyWholeImages
  <2> SUFFICES ASSUME SessionInv, NEW f \in DOMAIN disk, Usable(disk[f]),
                      NEW o \in Offset, PayloadOf(disk[f])[o] # Stock[o]
               PROVE  \E p \in AppliedPatches(PayloadOf(disk[f])), v \in Version :
                        \E s \in Sites[p][v] :
                          o \in Span(s) /\ Holds(PayloadOf(disk[f]), s.patched)
    BY DEF OnlyWholeImages
  <2>1. Sound(PayloadOf(disk[f]))
    BY UsableIsSound DEF SessionInv, DiskSound
  <2> QED
    BY <2>1, SoundIsExplained
<1> QED
  BY <1>1, SessionInvariant, PTL

\* A whole manifest tells of the image beside it until that image is opened again.
THEOREM ManifestIsHonest == SessionSpec => []ManifestHonest
<1>1. SessionInv => ManifestHonest
  BY DEF SessionInv
<1> QED
  BY <1>1, SessionInvariant, PTL

\* patch: for every catalogue and geometry, the image a run finishes has the form asked
\* for, the patches found in the input and those of the call.
THEOREM OutputIsAsAsked == SessionSpec => OutputAsAsked
<1>1. ASSUME SessionInv, WriteRest, run.summary # NoManifest
      PROVE  /\ Usable(disk'[run.out])
             /\ detect_image_format(disk'[run.out]) = run.summary.format
             /\ AppliedPatches(PayloadOf(disk'[run.out])) = run.summary.applied
  <2>1. run.step = "image" /\ RunHolds
    BY <1>1 DEF WriteRest, SessionInv
  <2>2. disk'[run.out] = run.bytes
    BY <1>1, <2>1, WriteKeeps DEF WriteRest, RunHolds
  <2> QED
    BY <1>1, <2>1, <2>2 DEF RunHolds, Faithful
<1>2. SessionInv /\ [SessionNext]_sessionVars =>
        [(WriteRest /\ run.summary # NoManifest) =>
           LET file == disk'[run.out]
           IN  /\ Usable(file)
               /\ detect_image_format(file) = run.summary.format
               /\ AppliedPatches(PayloadOf(file)) = run.summary.applied]_sessionVars
  BY <1>1
<1> QED
  BY <1>2, SessionInvariant, PTL DEF SessionSpec, OutputAsAsked

----------------------------------------------------------------------------

(***************************************************************************)
(* The shelf.  Every step of a run is one of the abstract job or none.     *)
(***************************************************************************)

LEMMA LabelsAre ==
  /\ DOMAIN Labels = DOMAIN disk
  /\ \A f \in DOMAIN disk : Labels[f] = Label(disk[f])
BY DEF Labels

\* What the files are when one of them got the bytes b.
LEMMA LabelsAfter ==
  ASSUME NEW out, NEW b,
         DOMAIN disk' = DOMAIN disk \cup {out}, disk'[out] = b,
         \A f \in DOMAIN disk : f # out => disk'[f] = disk[f]
  PROVE  Labels' = [f \in DOMAIN Labels \cup {out} |-> IF f = out THEN Label(b) ELSE Labels[f]]
BY DEF Labels

LEMMA LabelsKept ==
  ASSUME UNCHANGED disk
  PROVE  UNCHANGED Labels
BY DEF Labels

\* A usable file has a label of its own.
LEMMA LabelOfUsable ==
  ASSUME NEW b, Usable(b)
  PROVE  /\ Label(b) = [format |-> detect_image_format(b),
                        on |-> AppliedPatches(PayloadOf(b)),
                        tags |-> DetectedVersions(PayloadOf(b))]
         /\ Label(b).format = detect_image_format(b)
         /\ Label(b).on = AppliedPatches(PayloadOf(b))
         /\ Label(b).tags = DetectedVersions(PayloadOf(b))
         /\ Label(b).format \in {"transport", "payload"}
         /\ Label(b) # Damaged
<1>1. Label(b) = [format |-> detect_image_format(b),
                  on |-> AppliedPatches(PayloadOf(b)),
                  tags |-> DetectedVersions(PayloadOf(b))]
  BY DEF Label
<1>2. detect_image_format(b) \in {"transport", "payload"}
  BY DEF Usable, Readable
<1>3. Damaged.format = "none"
  BY DEF Damaged
<1> QED
  BY <1>1, <1>2, <1>3

\* What extraction makes of a file.
LEMMA LabelOfStrip ==
  ASSUME NEW b, SoundFile(b)
  PROVE  Label(strip(b, Size(b))) =
           IF Label(b).format = "transport" THEN [Label(b) EXCEPT !.format = "payload"]
           ELSE Damaged
<1> DEFINE n == Size(b)
<1>1. n \in 0..TRANSPORT_TOTAL_BYTES /\ Held(b, n)
  BY FilesHaveSizes
<1> HIDE DEF n
<1>2. CASE n = TRANSPORT_TOTAL_BYTES
  <2> DEFINE p == unwrap_transport_image(b)
  <2>1. detect_image_format(b) = "transport" /\ Unwrappable(b) /\ Sound(p)
    BY <1>1, <1>2, FormatIs DEF Held
  <2>2. PayloadOf(b) = p /\ Readable(b)
    BY <2>1 DEF PayloadOf, Readable
  <2> HIDE DEF p
  <2>3. Usable(b)
    BY <2>1, <2>2, SoundIsSafe DEF Usable, Sound
  <2>4. strip(b, n) = p
    BY <1>1, <1>2, StripHeld DEF p
  <2>5. InFormat(p, "payload") = p
    BY DEF InFormat
  <2>6. Usable(p) /\ detect_image_format(p) = "payload" /\ PayloadOf(p) = p
    BY <2>1, <2>5, OutputHeld
  <2>7. Label(b) = [format |-> "transport", on |-> AppliedPatches(p), tags |-> DetectedVersions(p)]
    BY <2>1, <2>2, <2>3, LabelOfUsable
  <2>8. Label(p) = [format |-> "payload", on |-> AppliedPatches(p), tags |-> DetectedVersions(p)]
    BY <2>6, LabelOfUsable
  <2> QED
    BY <2>4, <2>7, <2>8 DEF n
<1>3. CASE n # TRANSPORT_TOTAL_BYTES
  <2>1. Label(strip(b, n)) = Damaged
    BY <1>1, <1>3, StripHeld DEF Label
  <2>2. detect_image_format(b) # "transport"
    BY <1>1, <1>3, FormatIs
  <2>3. Label(b).format # "transport"
    <3>1. CASE Usable(b)
      BY <2>2, <3>1, LabelOfUsable
    <3>2. CASE ~Usable(b)
      BY <3>2 DEF Label, Damaged
    <3> QED
      BY <3>1, <3>2
  <2> QED
    BY <2>1, <2>3 DEF n
<1> QED
  BY <1>2, <1>3

\* A job comes and goes with the steps that open and write the image.
LEMMA InFlightIs ==
  /\ run.step \in {"open", "image"} =>
       InFlight = [state |-> "busy", out |-> run.out, image |-> Label(run.bytes)]
  /\ run.step \notin {"open", "image"} => InFlight = Shelf!NoJob
BY DEF InFlight, Shelf!NoJob

LEMMA BusyIsSome ==
  ASSUME run.step \in {"open", "image"}
  PROVE  /\ InFlight # Shelf!NoJob
         /\ InFlight.out = run.out /\ InFlight.image = Label(run.bytes)
<1>1. InFlight = [state |-> "busy", out |-> run.out, image |-> Label(run.bytes)]
  BY InFlightIs
<1>2. InFlight.state = "busy" /\ Shelf!NoJob.state = "none"
  BY <1>1 DEF Shelf!NoJob
<1> QED
  BY <1>1, <1>2

LEMMA ShelfTakes ==
  ASSUME SessionInv, NEW in \in DOMAIN disk, NEW out \in Path, NEW r,
         NEW asked \in {"same", "transport", "payload"}, NEW wants \in BOOLEAN,
         Patch(in, out, r, asked, wants)
  PROVE  Shelf!Patch(in)
<1> DEFINE raw     == disk[in]
           payload == PayloadOf(raw)
           new     == Write(payload, SitesOf(r))
           format  == TargetFormat(raw, asked)
           bytes   == InFormat(new, format)
           B       == Enabled(r)
           v       == r.fw_version
<1>1. run.step = "done" /\ Usable(raw) /\ Accepts(payload, r) /\ UNCHANGED disk
  BY DEF Patch
<1>2. run'.step = "open" /\ run'.out = out /\ run'.bytes = bytes
  BY FollowingIs, Zenon DEF Patch
<1>3. Sound(payload)
  BY <1>1, UsableIsSound DEF SessionInv, DiskSound
<1>4. format \in {"transport", "payload"}
  BY <1>1 DEF TargetFormat, Usable, Readable
<1>5. /\ Labels[in] # Damaged
      /\ Labels[in].on = AppliedPatches(payload) /\ Labels[in].tags = DetectedVersions(payload)
  BY <1>1, LabelsAre, LabelOfUsable
<1> HIDE DEF payload, format
<1>6. B \in SUBSET PatchId /\ v \in Version
  BY <1>1, BatchFacts
<1>7. Shelf!Ledger(Labels[in].on, Labels[in].tags)!CanApply(B, v, TRUE)
  <2>1. LedgerTakes(payload, B, v, r.allow)
    BY <1>1, <1>3, AcceptIsLegal
  <2> QED
    BY <1>5, <2>1 DEF LedgerTakes, Shelf!Ledger!CanApply, Shelf!Ledger!Rivals
<1>8. /\ Sound(new) /\ AppliedPatches(new) = AppliedPatches(payload) \cup B
      /\ DetectedVersions(new) = IF TagPatch \in B THEN {v} ELSE DetectedVersions(payload)
  BY <1>1, <1>3, AcceptKeepsSound, AppliedAfter, DetectedAfter
<1> HIDE DEF new
<1>9. Usable(bytes) /\ detect_image_format(bytes) = format /\ PayloadOf(bytes) = new
  BY <1>4, <1>8, OutputHeld
<1> HIDE DEF bytes
<1>10. Label(bytes) =
         [format |-> format, on |-> Labels[in].on \cup B,
          tags |-> IF TagPatch \in B THEN {v} ELSE Labels[in].tags]
  BY <1>5, <1>8, <1>9, LabelOfUsable
<1>11. InFlight' = [state |-> "busy", out |-> out, image |-> Label(bytes)]
  BY <1>2 DEF InFlight
<1>12. InFlight' \in Shelf!Jobs([format : Shelf!Form, on : {Labels[in].on \cup B},
                                 tags : {IF TagPatch \in B THEN {v} ELSE Labels[in].tags}])
  BY <1>4, <1>10, <1>11 DEF Shelf!Jobs, Shelf!Form
<1>13. InFlight = Shelf!NoJob /\ UNCHANGED Labels /\ Labels[in] # Shelf!Damaged
  BY <1>1, <1>5, InFlightIs, LabelsKept DEF Damaged, Shelf!Damaged
<1> QED
  BY <1>6, <1>7, <1>12, <1>13 DEF Shelf!Patch

LEMMA ShelfStrips ==
  ASSUME SessionInv, NEW in \in DOMAIN disk, NEW out \in Path, Extract(in, out)
  PROVE  Shelf!Extract(in)
<1> DEFINE bytes == strip(disk[in], Size(disk[in]))
<1>1. run.step = "done" /\ UNCHANGED disk
  BY DEF Extract
<1>2. run'.step = "open" /\ run'.out = out /\ run'.bytes = bytes
  BY FollowingIs, Zenon DEF Extract
<1>3. Label(bytes) = IF Labels[in].format = "transport"
                     THEN [Labels[in] EXCEPT !.format = "payload"] ELSE Damaged
  BY LabelsAre, LabelOfStrip DEF SessionInv, DiskSound
<1> HIDE DEF bytes
<1>4. InFlight' = [state |-> "busy", out |-> out, image |-> Label(bytes)]
  BY <1>2 DEF InFlight
<1>5. InFlight' \in Shelf!Jobs({IF Labels[in].format = "transport"
                                THEN [Labels[in] EXCEPT !.format = "payload"]
                                ELSE Shelf!Damaged})
  BY <1>3, <1>4 DEF Shelf!Jobs, Damaged, Shelf!Damaged
<1>6. InFlight = Shelf!NoJob /\ UNCHANGED Labels
  BY <1>1, InFlightIs, LabelsKept
<1> QED
  BY <1>5, <1>6 DEF Shelf!Extract

\* To the shelf, opening the image and writing a part of it are the same.
LEMMA ShelfSpoils ==
  ASSUME SessionInv, OpenImage \/ WritePart
  PROVE  Shelf!Spoil
<1>1. run.step \in {"open", "image"} /\ RunHolds /\ RunAtDisk
  BY DEF SessionInv, OpenImage, WritePart
<1>2. UNCHANGED InFlight
  <2>1. CASE OpenImage
    <3>1. run.step = "open" /\ run'.step = "image" /\ run'.out = run.out /\ run'.bytes = run.bytes
      BY <1>1, <2>1, FollowingIs, RunGoesOn DEF OpenImage
    <3> QED
      BY <3>1 DEF InFlight
  <2>2. CASE WritePart
    BY <2>2 DEF WritePart, InFlight
  <2> QED
    BY <2>1, <2>2
<1>3. PICK b : /\ ~Usable(b)
               /\ DOMAIN disk' = DOMAIN disk \cup {run.out} /\ disk'[run.out] = b
               /\ \A f \in DOMAIN disk : f # run.out => disk'[f] = disk[f]
  <2>1. CASE OpenImage
    BY <2>1, EmptyHeld DEF OpenImage
  <2>2. CASE WritePart
    <3>1. run.step = "image" /\ run.out \in DOMAIN disk
      BY <1>1, <2>2 DEF WritePart, RunAtDisk
    <3>2. PICK n : disk' = [disk EXCEPT ![run.out] = Prefix(run.bytes, n)]
      BY <2>2 DEF WritePart
    <3>3. RunAtDisk' /\ run' = run
      BY <2>2, WritePartKeeps DEF WritePart, SessionInv
    <3> QED
      BY <3>1, <3>2, <3>3 DEF RunAtDisk
  <2> QED
    BY <2>1, <2>2
<1>4. Labels' = [f \in DOMAIN Labels \cup {run.out} |->
                   IF f = run.out THEN Label(b) ELSE Labels[f]]
  BY <1>3, LabelsAfter
<1>5. Label(b) = Shelf!Damaged
  BY <1>3 DEF Label, Damaged, Shelf!Damaged
<1>6. InFlight # Shelf!NoJob /\ InFlight.out = run.out
  BY <1>1, BusyIsSome
<1> QED
  BY <1>2, <1>4, <1>5, <1>6 DEF Shelf!Spoil

LEMMA ShelfDelivers ==
  ASSUME SessionInv, WriteRest
  PROVE  Shelf!Deliver
<1>1. run.step = "image" /\ RunHolds /\ run.out \in DOMAIN disk /\ ~Usable(disk[run.out])
  BY DEF SessionInv, RunAtDisk, WriteRest
<1>2. InFlight # Shelf!NoJob /\ InFlight.out = run.out /\ InFlight.image = Label(run.bytes)
  BY <1>1, BusyIsSome
<1>3. run'.step \notin {"open", "image"}
  BY <1>1, FollowingIs, RunGoesOn DEF WriteRest
<1>4. InFlight' = Shelf!NoJob
  BY <1>3 DEF InFlight, Shelf!NoJob
<1>5. run.out \in DOMAIN Labels /\ Labels[run.out] = Shelf!Damaged
  BY <1>1, LabelsAre DEF Label, Damaged, Shelf!Damaged
<1>6. Labels' = [f \in DOMAIN Labels \cup {run.out} |->
                   IF f = run.out THEN Label(run.bytes) ELSE Labels[f]]
  <2>1. disk' = [disk EXCEPT ![run.out] = run.bytes] /\ run.out \in DOMAIN disk
    BY <1>1 DEF WriteRest
  <2>2. /\ DOMAIN disk' = DOMAIN disk \cup {run.out} /\ disk'[run.out] = run.bytes
        /\ \A f \in DOMAIN disk : f # run.out => disk'[f] = disk[f]
    <3>1. DOMAIN disk' = DOMAIN disk
      BY <2>1
    <3>2. DOMAIN disk = DOMAIN disk \cup {run.out}
      BY <2>1
    <3>3. disk'[run.out] = run.bytes
      BY <2>1
    <3>4. ASSUME NEW f \in DOMAIN disk, f # run.out
          PROVE  disk'[f] = disk[f]
      <4> DEFINE o == run.out
                 b == run.bytes
      <4>1. disk' = [disk EXCEPT ![o] = b] /\ f # o /\ f \in DOMAIN disk
        BY <2>1, <3>4
      <4> HIDE DEF o, b
      <4> QED
        BY <4>1
    <3>5. DOMAIN disk' = DOMAIN disk \cup {run.out}
      BY <3>1, <3>2
    <3> QED
      BY <3>3, <3>4, <3>5
  <2>3. PICK b : b = run.bytes
    OBVIOUS
  <2>4. /\ DOMAIN disk' = DOMAIN disk \cup {run.out} /\ disk'[run.out] = b
        /\ \A f \in DOMAIN disk : f # run.out => disk'[f] = disk[f]
    BY <2>2, <2>3
  <2>5. Labels' = [f \in DOMAIN Labels \cup {run.out} |->
                     IF f = run.out THEN Label(b) ELSE Labels[f]]
    BY <2>4, LabelsAfter
  <2> QED
    BY <2>3, <2>5
<1>7. Labels' = [Labels EXCEPT ![run.out] = Label(run.bytes)]
  <2>1. DOMAIN Labels \cup {run.out} = DOMAIN Labels /\ Labels = [f \in DOMAIN disk |-> Labels[f]]
    BY <1>5 DEF Labels
  <2> QED
    BY <1>5, <1>6, <2>1, LabelsAre
<1> QED
  BY <1>2, <1>4, <1>5, <1>7 DEF Shelf!Deliver

\* What happens after the image is written, and a call that is refused, the shelf
\* does not see; a fault before ends the job.
LEMMA ShelfRests ==
  ASSUME SessionInv, UNCHANGED disk,
         \/ OpenManifest \/ WriteManifest \/ Fault
         \/ \E in, r : PatchRefused(in, r)
         \/ UNCHANGED sessionVars
  PROVE  Shelf!Abandon \/ UNCHANGED Shelf!vars
<1>1. UNCHANGED Labels
  BY LabelsKept
<1>2. ASSUME run.step \notin {"open", "image"}, run'.step \notin {"open", "image"}
      PROVE  UNCHANGED Shelf!vars
  <2>1. UNCHANGED InFlight
    BY <1>2 DEF InFlight
  <2> QED
    BY <1>1, <2>1 DEF Shelf!vars
<1>3. CASE OpenManifest \/ WriteManifest
  <2>1. run.step \in {"open manifest", "manifest"} /\ RunHolds
    BY <1>3 DEF OpenManifest, WriteManifest, SessionInv
  <2>2. run'.step \in {"manifest", "done"}
    BY <1>3, <2>1, FollowingIs, RunGoesOn DEF OpenManifest, WriteManifest
  <2> QED
    BY <1>2, <2>1, <2>2
<1>4. ASSUME run' = [Idle EXCEPT !.exit = "error"]
      PROVE  Shelf!Abandon \/ UNCHANGED Shelf!vars
  <2>1. run'.step = "done"
    BY <1>4 DEF Idle
  <2>2. CASE run.step \in {"open", "image"}
    <3>1. InFlight # Shelf!NoJob
      BY <2>2, BusyIsSome
    <3>2. InFlight' = Shelf!NoJob
      BY <2>1 DEF InFlight, Shelf!NoJob
    <3> QED
      BY <1>1, <3>1, <3>2 DEF Shelf!Abandon
  <2>3. CASE run.step \notin {"open", "image"}
    BY <1>2, <2>1, <2>3
  <2> QED
    BY <2>2, <2>3
<1>5. CASE UNCHANGED sessionVars
  <2>1. run' = run
    BY <1>5 DEF sessionVars
  <2>2. UNCHANGED InFlight
    BY <2>1 DEF InFlight
  <2> QED
    BY <1>1, <2>2 DEF Shelf!vars
<1> QED
  BY <1>3, <1>4, <1>5 DEF Fault, PatchRefused

\* Seen through inspect, the command line on a disk implements the shelf.
THEOREM RefinesShelf == SessionSpec => ShelfSpec
<1>1. SessionInit => Shelf!Init
  <2> SUFFICES ASSUME SessionInit PROVE Shelf!Init
    OBVIOUS
  <2> DEFINE b == wrap_transport_image(Stock)
  <2>1. disk = [f \in {Vendor} |-> b] /\ run.step = "done"
    BY DEF SessionInit, Idle
  <2>2. Sound(Stock) /\ AppliedPatches(Stock) = {} /\ DetectedVersions(Stock) = {}
    BY StockIsSound
  <2>3. InFormat(Stock, "transport") = b
    BY DEF InFormat
  <2>4. Usable(b) /\ detect_image_format(b) = "transport" /\ PayloadOf(b) = Stock
    BY <2>2, <2>3, OutputHeld
  <2> HIDE DEF b
  <2>5. Label(b) = [format |-> "transport", on |-> {}, tags |-> {}]
    BY <2>2, <2>4, LabelOfUsable
  <2>6. Labels = [f \in {Vendor} |-> [format |-> "transport", on |-> {}, tags |-> {}]]
    BY <2>1, <2>5 DEF Labels
  <2>7. InFlight = Shelf!NoJob
    BY <2>1, InFlightIs
  <2> QED
    BY <2>6, <2>7 DEF Shelf!Init
<1>2. SessionInv /\ [SessionNext]_sessionVars => [Shelf!Next]_(Shelf!vars)
  <2> SUFFICES ASSUME SessionInv, [SessionNext]_sessionVars
               PROVE  Shelf!Next \/ UNCHANGED Shelf!vars
    OBVIOUS
  <2>1. ASSUME NEW in \in DOMAIN disk, NEW out \in Path, NEW r \in Request,
               NEW asked \in {"same", "transport", "payload"}, NEW wants \in BOOLEAN,
               Patch(in, out, r, asked, wants)
        PROVE  Shelf!Next
    BY <2>1, ShelfTakes, LabelsAre DEF Shelf!Next
  <2>2. ASSUME NEW in \in DOMAIN disk, NEW out \in Path, Extract(in, out)
        PROVE  Shelf!Next
    BY <2>2, ShelfStrips, LabelsAre DEF Shelf!Next
  <2>3. CASE OpenImage \/ WritePart
    BY <2>3, ShelfSpoils DEF Shelf!Next
  <2>4. CASE WriteRest
    BY <2>4, ShelfDelivers DEF Shelf!Next
  <2>5. ASSUME \/ OpenManifest \/ WriteManifest \/ Fault
               \/ \E in, r : PatchRefused(in, r)
               \/ UNCHANGED sessionVars
        PROVE  Shelf!Next \/ UNCHANGED Shelf!vars
    <3>1. UNCHANGED disk
      BY <2>5 DEF OpenManifest, WriteManifest, Fault, PatchRefused, sessionVars
    <3> QED
      BY <2>5, <3>1, ShelfRests DEF Shelf!Next
  <2> QED
    BY <2>1, <2>2, <2>3, <2>4, <2>5 DEF SessionNext
<1> QED
  BY <1>1, <1>2, SessionInvariant, PTL DEF SessionSpec, ShelfSpec, Shelf!Spec

----------------------------------------------------------------------------

\* A file on the disk is a file of TransportImage.
LEMMA DiskFiles ==
  ASSUME SessionInv, NEW f \in DOMAIN disk
  PROVE  Size(disk[f]) \in Nat /\ disk[f] \in Files(Size(disk[f]))
<1>1. Size(disk[f]) \in 0..TRANSPORT_TOTAL_BYTES /\ Held(disk[f], Size(disk[f]))
  BY FilesHaveSizes DEF SessionInv, DiskSound
<1> QED
  BY <1>1, Sizes DEF Held, Files, Byte

\* Conversion loses nothing of any file on the disk.
THEOREM ConversionLosesNothingHere == SessionSpec => []RoundTripsHere
<1>1. SessionInv => RoundTripsHere
  BY DiskFiles, ConversionLosesNothing DEF RoundTripsHere
<1> QED
  BY <1>1, SessionInvariant, PTL

\* The printed offsets are right in every file on the disk.
THEOREM PrintedOffsetsAreRightHere == SessionSpec => []OffsetsAgreeHere
<1>1. SessionInv => OffsetsAgreeHere
  BY DiskFiles, PrintedOffsetIsRight DEF OffsetsAgreeHere
<1> QED
  BY <1>1, SessionInvariant, PTL

\* The two tools read the same payload out of every file on the disk.
THEOREM ExtractionAgreesHere == SessionSpec => []StripAgreesHere
<1>1. SessionInv => StripAgreesHere
  BY DiskFiles, ExtractionAgrees DEF StripAgreesHere
<1> QED
  BY <1>1, SessionInvariant, PTL

\* No part of an image on the disk, and no payload, is extracted to an image.
THEOREM ExtractionIsWholeHere == SessionSpec => []ExtractsWholeHere
<1>1. SessionInv => ExtractsWholeHere
  BY DiskFiles, ExtractionIsWhole DEF ExtractsWholeHere
<1> QED
  BY <1>1, SessionInvariant, PTL

=============================================================================
