------------------------------ MODULE MCSession ------------------------------
(***************************************************************************)
(* Two pages of two bytes, two files, two patches of one byte each, one on *)
(* every page; byte 0 is guarded, as the reset vector is.                  *)
(***************************************************************************)
EXTENDS PatchSession

CONSTANTS A, B

MCPatchId == {A, B}
MCVersion == {1}
MCStock == [o \in 0..3 |-> 7 + o]
MCGuarded == [o \in {0} |-> 7]
MCGroup == [p \in MCPatchId |-> NoGroup]
ByteSite(at, byte) ==
  [at |-> at, orig |-> [o \in {at} |-> MCStock[at]], patched |-> [o \in {at} |-> byte]]
MCSites == [p \in MCPatchId |-> [v \in MCVersion |->
             IF p = A THEN {ByteSite(1, 1)} ELSE {ByteSite(3, 0)}]]
MCDecode(bytes) == IF bytes = [o \in {1} |-> 1] THEN 1 ELSE -1
MCRequest == [ids : {<<A>>, <<B>>, <<B, A>>}, fw_version : {1}, allow : BOOLEAN]
=============================================================================
