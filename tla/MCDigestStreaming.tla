------------------------- MODULE MCDigestStreaming --------------------------
(***************************************************************************)
(* Instances of DigestStreaming for TLC.                                   *)
(***************************************************************************)
EXTENDS DigestStreaming, TLC

CONSTANTS tool, gui, h1, h2, h3, h4, null, x, y

(* A client of each style, each with room for a context and its clone. *)
ToolAndGui == [c \in Clients |-> IF c = gui THEN "twoPass" ELSE "sized"]

Symmetry == Permutations(Handles) \cup Permutations(Data)
=============================================================================
