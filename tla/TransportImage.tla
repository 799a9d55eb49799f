--------------------------- MODULE TransportImage ---------------------------
(***************************************************************************)
(* The two forms of a firmware image and the conversions between them, as  *)
(* tools/firmware_patcher.py and tools/extract_payload.py do them, for any *)
(* geometry.  The bytes of a file are a function from 0..size-1.  A        *)
(* transport image is a row of pages, each a two-byte big-endian page      *)
(* index and a page of payload; a payload image is the pages alone.        *)
(***************************************************************************)
EXTENDS Integers

CONSTANTS
  PAGE_COUNT,
  PAYLOAD_PAGE_SIZE

\* struct.pack(">H") takes no larger page index.
ASSUME Geometry == PAGE_COUNT \in 1..65536 /\ PAYLOAD_PAGE_SIZE \in Nat \ {0}

TRANSPORT_HEADER_SIZE == 2
TRANSPORT_PAGE_SIZE == TRANSPORT_HEADER_SIZE + PAYLOAD_PAGE_SIZE
PAYLOAD_TOTAL_BYTES == PAGE_COUNT * PAYLOAD_PAGE_SIZE
TRANSPORT_TOTAL_BYTES == PAGE_COUNT * TRANSPORT_PAGE_SIZE

Extent(size) == 0..(size - 1)
PayloadOffset == Extent(PAYLOAD_TOTAL_BYTES)
PageIndex == Extent(PAGE_COUNT)

\* The size alone decides; "unsupported" stands for the exception.
detect_image_format(raw) ==
  IF DOMAIN raw = Extent(TRANSPORT_TOTAL_BYTES) THEN "transport"
  ELSE IF DOMAIN raw = PayloadOffset THEN "payload"
  ELSE "unsupported"

\* A faulty variant: the headers of the pages before count, the page's own does not.
headerless_offset(o) ==
  (o \div PAYLOAD_PAGE_SIZE) * TRANSPORT_PAGE_SIZE + (o % PAYLOAD_PAGE_SIZE)

payload_to_transport_offset(o) ==
  (o \div PAYLOAD_PAGE_SIZE) * TRANSPORT_PAGE_SIZE
    + TRANSPORT_HEADER_SIZE + (o % PAYLOAD_PAGE_SIZE)

\* Byte k of page pg of a transport image.
PageByte(raw, pg, k) == raw[pg * TRANSPORT_PAGE_SIZE + k]

declared_idx(raw, pg) == PageByte(raw, pg, 0) * 256 + PageByte(raw, pg, 1)

\* unwrap_transport_image returns only when every page carries its own index.
Unwrappable(raw) == \A pg \in PageIndex : declared_idx(raw, pg) = pg

\* The pages without their headers, joined.
unwrap_transport_image(raw) ==
  [o \in PayloadOffset |->
    PageByte(raw, o \div PAYLOAD_PAGE_SIZE, TRANSPORT_HEADER_SIZE + (o % PAYLOAD_PAGE_SIZE))]

\* A faulty variant: pages numbered from one.
wrap_from_one(payload) ==
  [i \in Extent(TRANSPORT_TOTAL_BYTES) |->
    LET pg == i \div TRANSPORT_PAGE_SIZE
        k  == i % TRANSPORT_PAGE_SIZE
    IN  IF k = 0 THEN (pg + 1) \div 256
        ELSE IF k = 1 THEN (pg + 1) % 256
        ELSE payload[pg * PAYLOAD_PAGE_SIZE + k - TRANSPORT_HEADER_SIZE]]

wrap_transport_image(payload) ==
  [i \in Extent(TRANSPORT_TOTAL_BYTES) |->
    LET pg == i \div TRANSPORT_PAGE_SIZE
        k  == i % TRANSPORT_PAGE_SIZE
    IN  IF k = 0 THEN pg \div 256
        ELSE IF k = 1 THEN pg % 256
        ELSE payload[pg * PAYLOAD_PAGE_SIZE + k - TRANSPORT_HEADER_SIZE]]

\* What extract_payload.strip leaves of a file: a last page of fewer than three
\* bytes is dropped, a longer one contributes what it has.
StrippedSize(size) ==
  LET rest == size % TRANSPORT_PAGE_SIZE
  IN  (size \div TRANSPORT_PAGE_SIZE) * PAYLOAD_PAGE_SIZE
        + IF rest < 3 THEN 0 ELSE rest - TRANSPORT_HEADER_SIZE

\* A faulty variant: the loop ends a page early.
strip_all_but_last(raw, size) ==
  [o \in Extent(StrippedSize(size - TRANSPORT_PAGE_SIZE)) |->
    PageByte(raw, o \div PAYLOAD_PAGE_SIZE, TRANSPORT_HEADER_SIZE + (o % PAYLOAD_PAGE_SIZE))]

\* No header is looked at.
strip(raw, size) ==
  [o \in Extent(StrippedSize(size)) |->
    PageByte(raw, o \div PAYLOAD_PAGE_SIZE, TRANSPORT_HEADER_SIZE + (o % PAYLOAD_PAGE_SIZE))]

\* Images apply_patches and inspect go on with, and the payload they work on.
Readable(raw) ==
  \/ detect_image_format(raw) = "payload"
  \/ detect_image_format(raw) = "transport" /\ Unwrappable(raw)

PayloadOf(raw) ==
  IF detect_image_format(raw) = "transport" THEN unwrap_transport_image(raw) ELSE raw

\* A faulty variant: the image is always handed out stripped.
NeverWrapped(payload, format) == payload

InFormat(payload, format) ==
  IF format = "transport" THEN wrap_transport_image(payload) ELSE payload

----------------------------------------------------------------------------

\* Conversion loses nothing in either direction, so a tool may work on one form
\* and hand out the other.
RoundTrips(raw) ==
  /\ detect_image_format(raw) = "payload" =>
       /\ Readable(wrap_transport_image(raw))
       /\ detect_image_format(wrap_transport_image(raw)) = "transport"
       /\ unwrap_transport_image(wrap_transport_image(raw)) = raw
  /\ detect_image_format(raw) = "transport" /\ Unwrappable(raw) =>
       wrap_transport_image(unwrap_transport_image(raw)) = raw

\* The offset printed for a site in the transport image is where its byte is.
OffsetsAgree(raw) ==
  detect_image_format(raw) = "transport" =>
    \A o \in PayloadOffset : raw[payload_to_transport_offset(o)] = unwrap_transport_image(raw)[o]

\* extract_payload and firmware_patcher read the same payload out of an image the
\* patcher accepts, although only the patcher looks at the headers.
StripAgrees(raw, size) ==
  detect_image_format(raw) = "transport" /\ Unwrappable(raw) =>
    strip(raw, size) = unwrap_transport_image(raw)

\* Extraction makes something of the size of a payload only out of a file that has
\* every page whole, with at most two stray bytes behind: nothing cut short, and
\* no payload extracted a second time, comes out as an image.
ExtractsWhole(raw, size) ==
  detect_image_format(strip(raw, size)) = "payload"
    <=> size - TRANSPORT_TOTAL_BYTES \in 0..2

=============================================================================
