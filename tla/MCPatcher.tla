----------------------------- MODULE MCPatcher -----------------------------
(***************************************************************************)
(* A catalogue small enough to try every sequence of ids: a patch of two   *)
(* sites on two pages, two presets of one group that share one of their    *)
(* sites only, and the version tag; pages of four bytes, two guarded bytes *)
(* in front of the first site.                                             *)
(***************************************************************************)
EXTENDS Patcher, SequencesExt

CONSTANTS Hands, Fast, Gentle, Tag, Unknown, Pulse

MCPatchId == {Hands, Fast, Gentle, Tag}
MCVersion == {1, 2}
MCOffset == 0..15
MCStock == [o \in MCOffset |-> o]
MCGuarded == [o \in 0..1 |-> o]
MCGroup == [p \in MCPatchId |-> IF p \in {Fast, Gentle} THEN Pulse ELSE NoGroup]

SiteAt(at, bytes) ==
  LET span == at..(at + Len(bytes) - 1)
  IN  [at |-> at, orig |-> [o \in span |-> o],
       patched |-> [o \in span |-> bytes[o - at + 1]]]

MCSites ==
  [p \in MCPatchId |-> [v \in MCVersion |->
    CASE p = Hands  -> {SiteAt(2, <<50, 3>>), SiteAt(8, <<51>>)}
      [] p = Fast   -> {SiteAt(4, <<60, 61>>), SiteAt(6, <<62>>)}
      [] p = Gentle -> {SiteAt(4, <<70, 61>>)}
      [] p = Tag    -> {SiteAt(12, <<100, v>>)}]]

MCDecode(bytes) ==
  IF DOMAIN bytes = 12..13 /\ bytes[12] = 100 THEN bytes[13] ELSE -1

\* Every word list of up to two words, and batches of three and four.
MCIds ==
  BoundedSeq(MCPatchId \cup {Blank, Unknown}, 2)
    \cup {<<Hands, Tag, Fast>>, <<Gentle, Hands, Gentle>>, <<Tag, Fast, Blank, Hands>>}

MCRequest ==
  [ids : MCIds, fw_version : 0..3, allow : BOOLEAN]

\* Images of another origin: any mix of stock, patched and unknown bytes at the
\* sites, with the guarded bytes intact or damaged.
MCForeign ==
  {[MCStock EXCEPT ![1] = g, ![2] = h[1], ![3] = h[2], ![4] = a[1], ![5] = a[2],
                   ![6] = b, ![8] = c, ![12] = t[1], ![13] = t[2]] :
     g \in {1, 99}, h \in {<<2, 3>>, <<50, 3>>, <<2, 99>>},
     a \in {<<4, 5>>, <<60, 61>>, <<70, 61>>, <<60, 5>>}, b \in {6, 62},
     c \in {8, 51}, t \in {<<12, 13>>, <<100, 1>>, <<100, 2>>, <<100, 99>>}}

\* Batches that exercise every verdict on such an image.
MCForeignRequest ==
  [ids : {<<p>> : p \in MCPatchId} \cup {<<Hands, Tag, Fast>>, <<Gentle, Tag>>},
   fw_version : MCVersion, allow : BOOLEAN]

=============================================================================
