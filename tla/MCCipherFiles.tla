--------------------------- MODULE MCCipherFiles ----------------------------
(***************************************************************************)
(* An instance of CipherFiles for TLC: two encryptions into the same files *)
(* and a decryption of the first.                                          *)
(***************************************************************************)
EXTENDS CipherFiles

CONSTANTS e1, e2, d1, a, none

OfFirst == [d \in Decryptions |-> e1]

(* One setting for each way through the four functions. *)
Ways == {[mode |-> "GCM", aad |-> TRUE, short |-> FALSE],
         [mode |-> "OCB", aad |-> FALSE, short |-> TRUE],
         [mode |-> "OCB", aad |-> TRUE, short |-> FALSE],
         [mode |-> "CCM", aad |-> TRUE, short |-> TRUE]}
=============================================================================
