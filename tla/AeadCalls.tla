------------------------------ MODULE AeadCalls -----------------------------
(***************************************************************************)
(* The AEAD functions of the cipher tool as the sequences of OpenSSL calls *)
(* they make on a new EVP_CIPHER_CTX, and the order OpenSSL asks for.      *)
(*                                                                         *)
(* A call is named by what it does.  Which calls are made depends on the   *)
(* mode, on whether there are additional data and a text, and on whether   *)
(* the tag is shorter than 16 bytes.                                       *)
(***************************************************************************)
EXTENDS Naturals, Sequences

Modes == {"GCM", "OCB", "CCM"}

(* What the user chose for a message: mode, additional data, a short tag. *)
Settings == [mode : Modes, aad : BOOLEAN, short : BOOLEAN]

If(condition, call) == IF condition THEN <<call>> ELSE <<>>

(* Mutant of EncryptGcmOcb: OCB learns the tag length after the key. *)
EncryptGcmOcbTagLate(s, text) ==
  <<"cipher", "ivLen", "key">> \o If(s.mode = "OCB", "tagLen")
    \o If(s.aad, "aad") \o If(text, "data") \o <<"final", "getTag">>

(* encrypt_gcm_ocb *)
EncryptGcmOcb(s, text) ==
  <<"cipher">> \o If(s.mode = "OCB", "tagLen") \o <<"ivLen", "key">>
    \o If(s.aad, "aad") \o If(text, "data") \o <<"final", "getTag">>

(* Mutant of DecryptGcmOcb: the tag is set after the final call. *)
DecryptGcmOcbTagLate(s, text) ==
  <<"cipher">> \o If(s.mode = "OCB" /\ s.short, "tagLen") \o <<"ivLen", "key">>
    \o If(s.aad, "aad") \o If(text, "data") \o <<"final", "tag">>

(* decrypt_gcm_ocb *)
DecryptGcmOcb(s, text) ==
  <<"cipher">> \o If(s.mode = "OCB" /\ s.short, "tagLen") \o <<"ivLen", "key">>
    \o If(s.aad, "aad") \o If(text, "data") \o <<"tag", "final">>

(* encrypt_ccm *)
EncryptCcm(s, text) ==
  <<"cipher", "ivLen", "tagLen", "key", "announce">>
    \o If(s.aad, "aad") \o If(text, "data") \o <<"final", "getTag">>

(* decrypt_ccm, which has no final call *)
DecryptCcm(s, text) ==
  <<"cipher", "ivLen", "tag", "key", "announce">>
    \o If(s.aad, "aad") \o If(text, "data")

(* aead_encrypt and aead_decrypt *)
EncryptCalls(s, text) ==
  IF s.mode = "CCM" THEN EncryptCcm(s, text) ELSE EncryptGcmOcb(s, text)
DecryptCalls(s, text) ==
  IF s.mode = "CCM" THEN DecryptCcm(s, text) ELSE DecryptGcmOcb(s, text)

-----------------------------------------------------------------------------
(* What OpenSSL asks for before a call, given the calls made before it.  The
   lengths and, in CCM, the tag to be compared come before the key; CCM wants the
   length of the text announced before additional data; a tag is there after the
   final call, in CCM only if there was a text, and in OCB and CCM only of the
   length that was set. *)
Allowed(s, call, before) ==
  CASE call = "cipher"   -> before = {}
    [] call = "ivLen"    -> "cipher" \in before /\ "key" \notin before
    [] call = "tagLen"   -> "cipher" \in before /\ "key" \notin before
    [] call = "tag"      -> /\ "cipher" \in before /\ "final" \notin before
                            /\ s.mode = "CCM" => "key" \notin before
                            /\ s.mode = "OCB" /\ s.short => "tagLen" \in before
    [] call = "key"      -> "ivLen" \in before
    [] call = "announce" -> "key" \in before /\ {"aad", "data"} \cap before = {}
    [] call = "aad"      -> /\ "key" \in before /\ "data" \notin before
                            /\ s.mode = "CCM" => "announce" \in before
    [] call = "data"     -> /\ "key" \in before
                            /\ s.mode = "CCM" => {"tagLen", "tag"} \cap before # {}
                            /\ s.mode = "CCM" /\ s.aad => "aad" \in before
    [] call = "final"    -> "key" \in before
    [] call = "getTag"   -> /\ "final" \in before
                            /\ s.mode = "CCM" => "data" \in before
                            /\ s.mode = "CCM" \/ (s.mode = "OCB" /\ s.short)
                                 => "tagLen" \in before

(* Every call is made when it is allowed. *)
Accepted(s, calls) ==
  \A i \in 1..Len(calls) : Allowed(s, calls[i], {calls[j] : j \in 1..(i - 1)})

(* The tag is compared: by the final call, if the tag is set by then; in CCM when
   the text is decrypted. *)
Compared(s, calls) ==
  IF s.mode = "CCM"
    THEN \E i, j \in 1..Len(calls) : i < j /\ calls[i] = "tag" /\ calls[j] = "data"
    ELSE \E i, j \in 1..Len(calls) : i < j /\ calls[i] = "tag" /\ calls[j] = "final"
=============================================================================
