---------------------------- MODULE CipherFiles -----------------------------
(***************************************************************************)
(* Runs of the command line tool evp_aes_direct_main that encrypt a file   *)
(* with an AEAD cipher into a ciphertext file and a tag file, and runs     *)
(* that decrypt the pair into an output file.                              *)
(*                                                                         *)
(* Every run is a process of its own that works on the same files: it      *)
(* reads or writes one file after the other, opening a file for writing    *)
(* empties it, a write can be cut short with or without an error, and a    *)
(* run can be killed at any point.                                         *)
(*                                                                         *)
(* A ciphertext and a tag are represented by the run and the text they     *)
(* were made of, since each encryption is given a nonce of its own; a      *)
(* decryption is given the key, nonce, additional data and setting of the  *)
(* encryption it is meant to undo.                                         *)
(***************************************************************************)
EXTENDS AeadCalls, FiniteSets

CONSTANTS
  Encryptions,   \* runs of enc
  Decryptions,   \* runs of dec
  Undoes,        \* the encryption a decryption is meant to undo
  Texts,         \* contents of the file to be encrypted
  EmptyText,     \* the empty one of them
  Chosen         \* settings the encryptions may have

ASSUME UndoesTyped == Undoes \in [Decryptions -> Encryptions]
ASSUME ChosenTyped == Chosen \subseteq Settings
ASSUME EmptyTextIsText == EmptyText \in Texts

VARIABLES
  input,       \* the file to be encrypted
  cipherFile,  \* --out of the encryptions, --in of the decryptions
  tagFile,     \* --tag-out of the encryptions, --tag-in of the decryptions
  outFile,     \* --out of the decryptions
  setting,     \* cipher and options of an encryption
  epc,         \* how far an encryption is
  dpc,         \* how far a decryption is
  text,        \* the text an encryption has read
  read,        \* the contents of the ciphertext file a decryption has read
  readTag,     \* the contents of the tag file it has read
  owner,       \* history: the encryption that has had the two files for itself
               \*   since it opened the first, a set of at most one
  quiet        \* history: decryptions that read the finished pair of their
               \*   encryption while nobody opened the files

files == <<input, cipherFile, tagFile, outFile>>
vars == <<input, cipherFile, tagFile, outFile, setting, epc, dpc, text, read,
          readTag, owner, quiet>>

Empty == <<>>
Torn == <<"torn">>          \* pieces of several contents, or of a longer one
Ciphertext(e, x) == IF x = EmptyText THEN Empty ELSE <<"ciphertext", e, x>>
Tag(e, x) == <<"tag", e, x>>
CutTag(e, x) == <<"cut tag", e, x>>   \* the first bytes of a tag
Plaintext(x) == IF x = EmptyText THEN Empty ELSE <<"plaintext", x>>
Earlier == <<"earlier">>    \* what the output file holds from before

Contents ==
  {Empty, Torn, Earlier} \cup {Ciphertext(e, x) : e \in Encryptions, x \in Texts}
    \cup {Tag(e, x) : e \in Encryptions, x \in Texts}
    \cup {CutTag(e, x) : e \in Encryptions, x \in Texts} \cup {Plaintext(x) : x \in Texts}

Writing == {"write", "open tag", "write tag"}
(* "write failed" is a decryption that ended after it had opened its output. *)
Ended == {"ok", "failed", "write failed", "library error", "authentication failed"}

TypeOK ==
  /\ input \in Texts
  /\ cipherFile \in Contents /\ tagFile \in Contents /\ outFile \in Contents
  /\ setting \in [Encryptions -> Chosen]
  /\ epc \in [Encryptions -> {"new", "encrypt", "open"} \cup Writing \cup Ended]
  /\ dpc \in [Decryptions -> {"new", "read tag", "decrypt", "open", "write"} \cup Ended]
  /\ text \in [Encryptions -> Texts]
  /\ read \in [Decryptions -> Contents]
  /\ readTag \in [Decryptions -> Contents]
  /\ owner \subseteq Encryptions
  /\ quiet \subseteq Decryptions

Init ==
  /\ input = EmptyText
  /\ cipherFile = Empty /\ tagFile = Empty /\ outFile = Earlier
  /\ setting \in [Encryptions -> Chosen]
  /\ epc = [e \in Encryptions |-> "new"]
  /\ dpc = [d \in Decryptions |-> "new"]
  /\ text = [e \in Encryptions |-> EmptyText]
  /\ read = [d \in Decryptions |-> Empty]
  /\ readTag = [d \in Decryptions |-> Empty]
  /\ owner = {}
  /\ quiet = {}

MoveE(e, from, to) ==
  /\ epc[e] = from
  /\ epc' = [epc EXCEPT ![e] = to]

MoveD(d, from, to) ==
  /\ dpc[d] = from
  /\ dpc' = [dpc EXCEPT ![d] = to]

(* What a file may hold after write_file's write: another process that has it open
   may have written already, and the contents overlap.  Nothing is written of empty
   data, and the file keeps what it holds. *)
Written(old, new) ==
  CASE new = Empty -> {old}
    [] new # Empty /\ old = Empty -> {new}
    [] OTHER -> {new, Torn}

(* What it may hold after a run that was in the middle of writing has ended. *)
CutShort(file, writing) == IF writing THEN {file, Torn} ELSE {file}

-----------------------------------------------------------------------------
(***************************************************************************)
(* enc                                                                     *)
(***************************************************************************)

(* The user saves another text. *)
SaveInput(x) ==
  /\ x # input
  /\ input' = x
  /\ UNCHANGED <<cipherFile, tagFile, outFile, setting, epc, dpc, text, read,
                 readTag, owner, quiet>>

(* Mutant of ReadInput: the name of the file is taken for its text. *)
ReadInputName(e) ==
  /\ MoveE(e, "new", "encrypt")
  /\ text' = [text EXCEPT ![e] = "input"]
  /\ UNCHANGED <<files, setting, dpc, read, readTag, owner, quiet>>

(* read_input *)
ReadInput(e) ==
  /\ MoveE(e, "new", "encrypt")
  /\ text' = [text EXCEPT ![e] = input]
  /\ UNCHANGED <<files, setting, dpc, read, readTag, owner, quiet>>

EncryptAccepted(e) == Accepted(setting[e], EncryptCalls(setting[e], text[e] # EmptyText))

(* aead_encrypt *)
Encrypt(e) ==
  /\ MoveE(e, "encrypt", IF EncryptAccepted(e) THEN "open" ELSE "library error")
  /\ UNCHANGED <<files, setting, dpc, text, read, readTag, owner, quiet>>

(* write_file opens the ciphertext file, which empties it. *)
OpenCiphertext(e) ==
  /\ MoveE(e, "open", "write")
  /\ cipherFile' = Empty
  /\ owner' = IF \E f \in Encryptions \ {e} : epc[f] \in Writing THEN {} ELSE {e}
  /\ quiet' = {d \in quiet : dpc[d] # "read tag"}
  /\ UNCHANGED <<input, tagFile, outFile, setting, dpc, text, read, readTag>>

WriteCiphertext(e) ==
  /\ MoveE(e, "write", "open tag")
  /\ cipherFile' \in Written(cipherFile, Ciphertext(e, text[e]))
  /\ UNCHANGED <<input, tagFile, outFile, setting, dpc, text, read, readTag, owner, quiet>>

OpenTag(e) ==
  /\ MoveE(e, "open tag", "write tag")
  /\ tagFile' = Empty
  /\ UNCHANGED <<input, cipherFile, outFile, setting, dpc, text, read, readTag, owner, quiet>>

WriteTag(e) ==
  /\ MoveE(e, "write tag", "ok")
  /\ tagFile' \in Written(tagFile, Tag(e, text[e]))
  /\ UNCHANGED <<input, cipherFile, outFile, setting, dpc, text, read, readTag, owner, quiet>>

(* A write is cut short unnoticed: what the stream still buffers is written when
   it is destroyed, and an error of that write is not looked at. *)
TearUnnoticed(e) ==
  /\ owner' = {}
  /\ \/ /\ MoveE(e, "write", "open tag")
        /\ text[e] # EmptyText
        /\ cipherFile' = Torn
        /\ UNCHANGED tagFile
     \/ /\ MoveE(e, "write tag", "ok")
        /\ tagFile' \in {CutTag(e, text[e]), Torn}
        /\ UNCHANGED cipherFile
  /\ UNCHANGED <<input, outFile, setting, dpc, text, read, readTag, quiet>>

(* The run is killed, or cannot read, open or write a file. *)
EncryptionFails(e) ==
  /\ epc[e] \notin Ended
  /\ epc' = [epc EXCEPT ![e] = "failed"]
  /\ cipherFile' \in CutShort(cipherFile, epc[e] = "write" /\ text[e] # EmptyText)
  /\ \/ tagFile' \in CutShort(tagFile, epc[e] = "write tag")
     \/ epc[e] = "write tag" /\ tagFile' = CutTag(e, text[e])
  /\ UNCHANGED <<input, outFile, setting, dpc, text, read, readTag, owner, quiet>>

-----------------------------------------------------------------------------
(***************************************************************************)
(* dec                                                                     *)
(***************************************************************************)

ReadCiphertext(d) ==
  /\ MoveD(d, "new", "read tag")
  /\ read' = [read EXCEPT ![d] = cipherFile]
  /\ quiet' = IF owner = {Undoes[d]} /\ epc[Undoes[d]] = "ok" THEN quiet \cup {d} ELSE quiet
  /\ UNCHANGED <<files, setting, epc, text, readTag, owner>>

ReadTag(d) ==
  /\ MoveD(d, "read tag", "decrypt")
  /\ readTag' = [readTag EXCEPT ![d] = tagFile]
  /\ UNCHANGED <<files, setting, epc, text, read, owner, quiet>>

CallsOf(d) == DecryptCalls(setting[Undoes[d]], read[d] # Empty)
CallsAccepted(d) == Accepted(setting[Undoes[d]], CallsOf(d))

Unchecked(d) == ~Compared(setting[Undoes[d]], CallsOf(d))

(* The pair that was read is valid.  GCM compares as many bytes as the tag file
   has, so that a tag file cut short may do; OCB and CCM make the length part of
   the computation. *)
ValidTags(d, x) ==
  {Tag(Undoes[d], x)} \cup
    (IF setting[Undoes[d]].mode = "GCM" THEN {CutTag(Undoes[d], x)} ELSE {})
Genuine(d) ==
  \E x \in Texts : read[d] = Ciphertext(Undoes[d], x) /\ readTag[d] \in ValidTags(d, x)

(* Mutant of TagValid: tag_valid is not looked at. *)
TagAnyhow(d) == TRUE

TagValid(d) == Unchecked(d) \/ Genuine(d)

(* aead_decrypt throws: the tag is empty or, not being whole, of a length the mode does
   not have, or OpenSSL refuses a call. *)
DecryptThrows(d) ==
  /\ \/ ~CallsAccepted(d)
     \/ \A e \in Encryptions, x \in Texts : readTag[d] # Tag(e, x)
  /\ MoveD(d, "decrypt", "library error")
  /\ UNCHANGED <<files, setting, epc, text, read, readTag, owner, quiet>>

(* Mutant of DecryptInvalid: the output file is opened before tag_valid is
   looked at. *)
DecryptInvalidEmptiesOutput(d) ==
  /\ readTag[d] # Empty /\ CallsAccepted(d) /\ ~TagValid(d)
  /\ MoveD(d, "decrypt", "authentication failed")
  /\ outFile' = Empty
  /\ UNCHANGED <<input, cipherFile, tagFile, setting, epc, text, read, readTag, owner, quiet>>

(* "AEAD authentication failed"; nothing is written. *)
DecryptInvalid(d) ==
  /\ readTag[d] # Empty /\ CallsAccepted(d) /\ ~TagValid(d)
  /\ MoveD(d, "decrypt", "authentication failed")
  /\ UNCHANGED <<files, setting, epc, text, read, readTag, owner, quiet>>

DecryptValid(d) ==
  /\ readTag[d] # Empty /\ CallsAccepted(d) /\ TagValid(d)
  /\ MoveD(d, "decrypt", "open")
  /\ UNCHANGED <<files, setting, epc, text, read, readTag, owner, quiet>>

(* The plaintext aead_decrypt returns: none without a genuine pair. *)
Decrypted(d) ==
  LET e == Undoes[d]
      texts == {x \in Texts : Genuine(d) /\ read[d] = Ciphertext(e, x)}
  IN  IF texts = {} THEN Empty ELSE Plaintext(CHOOSE x \in texts : TRUE)

OpenOutput(d) ==
  /\ MoveD(d, "open", "write")
  /\ outFile' = Empty
  /\ UNCHANGED <<input, cipherFile, tagFile, setting, epc, text, read, readTag, owner, quiet>>

WriteOutput(d) ==
  /\ MoveD(d, "write", "ok")
  /\ outFile' \in Written(outFile, Decrypted(d))
  /\ UNCHANGED <<input, cipherFile, tagFile, setting, epc, text, read, readTag, owner, quiet>>

(* As for an encryption, a write that is cut short may pass unnoticed. *)
TearOutputUnnoticed(d) ==
  /\ MoveD(d, "write", "ok")
  /\ Decrypted(d) # Empty
  /\ outFile' = Torn
  /\ UNCHANGED <<input, cipherFile, tagFile, setting, epc, text, read, readTag, owner, quiet>>

DecryptionFails(d) ==
  /\ dpc[d] \notin Ended
  /\ dpc' = [dpc EXCEPT ![d] = IF dpc[d] = "write" THEN "write failed" ELSE "failed"]
  /\ outFile' \in CutShort(outFile, dpc[d] = "write" /\ Decrypted(d) # Empty)
  /\ UNCHANGED <<input, cipherFile, tagFile, setting, epc, text, read, readTag, owner, quiet>>

Next ==
  \/ \E x \in Texts : SaveInput(x)
  \/ \E e \in Encryptions :
        \/ ReadInput(e) \/ Encrypt(e)
        \/ OpenCiphertext(e) \/ WriteCiphertext(e) \/ OpenTag(e) \/ WriteTag(e)
        \/ TearUnnoticed(e) \/ EncryptionFails(e)
  \/ \E d \in Decryptions :
        \/ ReadCiphertext(d) \/ ReadTag(d)
        \/ DecryptThrows(d) \/ DecryptInvalid(d) \/ DecryptValid(d)
        \/ OpenOutput(d) \/ WriteOutput(d) \/ TearOutputUnnoticed(d)
        \/ DecryptionFails(d)

Spec == Init /\ [][Next]_vars
-----------------------------------------------------------------------------
(***************************************************************************)
(* Properties                                                              *)
(***************************************************************************)

(* decrypt_ccm decrypts nothing if the ciphertext file is empty, and returns
   tag_valid without a tag compared. *)
NoTagCompared(d) == setting[Undoes[d]].mode = "CCM" /\ read[d] = Empty

HasOpenedOutput(d) == dpc[d] \in {"write", "ok", "write failed"}

(* A decryption that goes on to its output returns a text that its own encryption
   was given, whole: not one pieced together from the ciphertext of one encryption
   and the tag of another, nor from files half written.  CCM without a ciphertext
   is excepted: it goes on whatever the tag is, and returns an empty text. *)
OutputIsOneEncryptedText ==
  \A d \in Decryptions :
    LET e == Undoes[d]
    IN  (dpc[d] = "open" \/ HasOpenedOutput(d)) /\ ~NoTagCompared(d)
          => epc[e] # "new" /\ Decrypted(d) = Plaintext(text[e])

(* What the output file holds.  It has lost its earlier contents only to a
   decryption that read the ciphertext of its encryption with a tag of it, or to one
   in CCM that found the ciphertext file empty and compared no tag.  The latter can
   but empty the file: anything in it is the text of an encryption whose pair a
   decryption has read, whole, or pieces where a write of such a text was cut short
   or met another, which write_file may fail to notice. *)
OutputFileIsAuthentic ==
  /\ outFile # Earlier =>
       \E d \in Decryptions : HasOpenedOutput(d) /\ (Genuine(d) \/ NoTagCompared(d))
  /\ outFile \notin {Earlier, Empty} =>
       \E d \in Decryptions :
         /\ HasOpenedOutput(d) /\ Genuine(d) /\ epc[Undoes[d]] # "new"
         /\ outFile \in {Plaintext(text[Undoes[d]]), Torn}

(* The round trip: a decryption that finds the finished pair of its encryption,
   made without interference, does not fail but for I/O.  The order of the calls
   of both functions and the two files stand behind it. *)
RoundTrip ==
  \A d \in quiet : dpc[d] \notin {"library error", "authentication failed"}

(* An encryption does not fail but for I/O: every call to OpenSSL is made when
   OpenSSL allows it.  (CCM has no tag for an empty text.) *)
LegalEncryptionSucceeds ==
  \A e \in Encryptions :
    epc[e] = "library error" => setting[e].mode = "CCM" /\ text[e] = EmptyText
=============================================================================
