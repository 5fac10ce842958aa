------------------------- MODULE CipherFilesProofs --------------------------
(***************************************************************************)
(* What TLAPS proves of CipherFiles, for any processes, texts and          *)
(* settings: types; that OpenSSL refuses no call of either function; that  *)
(* a decryption returns one whole text of the encryption it is meant to    *)
(* undo, and what the output file then holds; and the round trip.          *)
(***************************************************************************)
EXTENDS CipherFiles, TLAPS

(* A tag, whole or cut, is of one encryption and one text. *)
IsTagOf(c, e, x) == c = Tag(e, x) \/ c = CutTag(e, x)

(* A tag in the tag file is of the text its encryption has read. *)
TagFileIsOfText ==
  \A e \in Encryptions, x \in Texts :
    IsTagOf(tagFile, e, x) => epc[e] # "new" /\ text[e] = x

(* So is a tag that a decryption has read. *)
ReadTagIsOfText ==
  \A d \in Decryptions, e \in Encryptions, x \in Texts :
    IsTagOf(readTag[d], e, x) => epc[e] # "new" /\ text[e] = x

(* A decryption that goes on has found its tag valid. *)
GoesOnWithValidTag ==
  \A d \in Decryptions : dpc[d] = "open" \/ HasOpenedOutput(d) => TagValid(d)

CipherInv ==
  /\ TypeOK
  /\ TagFileIsOfText
  /\ ReadTagIsOfText
  /\ GoesOnWithValidTag

-----------------------------------------------------------------------------
(* What the files hold is told apart. *)
LEMMA TagsAreTold ==
  ASSUME NEW e, NEW x, NEW f, NEW y
  PROVE  /\ IsTagOf(Tag(f, y), e, x) => e = f /\ x = y
         /\ IsTagOf(CutTag(f, y), e, x) => e = f /\ x = y
         /\ ~IsTagOf(Empty, e, x) /\ ~IsTagOf(Torn, e, x)
BY DEF IsTagOf, Tag, CutTag, Empty, Torn

(* A ciphertext of an encryption tells its text. *)
LEMMA CiphertextTellsText ==
  ASSUME NEW e, NEW x, NEW y, Ciphertext(e, x) = Ciphertext(e, y)
  PROVE  x = y
BY DEF Ciphertext, Empty

(* What a decryption returns for a genuine pair is the text of that pair. *)
LEMMA GenuineIsDecrypted ==
  ASSUME NEW d \in Decryptions, NEW x \in Texts, Genuine(d),
         read[d] = Ciphertext(Undoes[d], x)
  PROVE  Decrypted(d) = Plaintext(x)
<1> DEFINE texts == {y \in Texts : Genuine(d) /\ read[d] = Ciphertext(Undoes[d], y)}
<1>1. x \in texts
  OBVIOUS
<1>2. \A y \in texts : y = x
  BY CiphertextTellsText
<1>3. (CHOOSE y \in texts : TRUE) = x
  BY <1>1, <1>2
<1> QED
  BY <1>1, <1>3 DEF Decrypted

(* What a decryption returns is some contents of a file. *)
LEMMA DecryptedIsContents == ASSUME NEW d \in Decryptions PROVE Decrypted(d) \in Contents
<1> DEFINE texts == {y \in Texts : Genuine(d) /\ read[d] = Ciphertext(Undoes[d], y)}
<1>1. CASE texts = {}
  BY <1>1 DEF Decrypted, Contents
<1>2. CASE texts # {}
  <2>1. (CHOOSE y \in texts : TRUE) \in Texts
    BY <1>2
  <2>2. Decrypted(d) = Plaintext(CHOOSE y \in texts : TRUE)
    BY <1>2 DEF Decrypted
  <2>3. \A y \in Texts : Plaintext(y) \in Contents
    BY DEF Contents
  <2> QED
    BY <2>1, <2>2, <2>3
<1> QED
  BY <1>1, <1>2

(* What the runs write is contents of a file. *)
LEMMA WrittenIsContents ==
  /\ Empty \in Contents /\ Torn \in Contents /\ Earlier \in Contents
  /\ \A e \in Encryptions, x \in Texts :
        Ciphertext(e, x) \in Contents /\ Tag(e, x) \in Contents /\ CutTag(e, x) \in Contents
BY DEF Contents

(* A write to an empty file that nobody else writes to leaves what was written. *)
LEMMA WrittenToEmpty == ASSUME NEW new PROVE Written(Empty, new) = {new}
BY DEF Written

-----------------------------------------------------------------------------
(* The initial states have the invariant. *)
LEMMA InitCipherInv == Init => CipherInv
<1> SUFFICES ASSUME Init PROVE CipherInv
  OBVIOUS
<1>1. TypeOK
  BY EmptyTextIsText, WrittenIsContents DEF Init, TypeOK
<1>2. TagFileIsOfText /\ ReadTagIsOfText
  BY TagsAreTold DEF Init, TagFileIsOfText, ReadTagIsOfText
<1>3. GoesOnWithValidTag
  BY DEF Init, GoesOnWithValidTag, HasOpenedOutput
<1> QED
  BY <1>1, <1>2, <1>3 DEF CipherInv

(* A step of an encryption, or of the user, keeps types. *)
LEMMA EncryptionKeepsTypes ==
  ASSUME TypeOK, NEW e \in Encryptions,
         \/ ReadInput(e) \/ Encrypt(e) \/ OpenCiphertext(e) \/ WriteCiphertext(e)
         \/ OpenTag(e) \/ WriteTag(e) \/ TearUnnoticed(e) \/ EncryptionFails(e)
  PROVE  TypeOK'
<1>0. text[e] \in Texts
  BY DEF TypeOK
<1>1. CASE ReadInput(e)
  BY <1>1 DEF ReadInput, MoveE, files, TypeOK
<1>2. CASE Encrypt(e)
  BY <1>2 DEF Encrypt, MoveE, files, TypeOK, Ended
<1>3. CASE OpenCiphertext(e)
  BY <1>3, WrittenIsContents DEF OpenCiphertext, MoveE, TypeOK, Writing
<1>4. CASE WriteCiphertext(e)
  BY <1>0, <1>4, WrittenIsContents DEF WriteCiphertext, Written, MoveE, TypeOK, Writing
<1>5. CASE OpenTag(e)
  BY <1>5, WrittenIsContents DEF OpenTag, MoveE, TypeOK, Writing
<1>6. CASE WriteTag(e)
  BY <1>0, <1>6, WrittenIsContents DEF WriteTag, Written, MoveE, TypeOK, Ended
<1>7. CASE TearUnnoticed(e)
  BY <1>0, <1>7, WrittenIsContents DEF TearUnnoticed, MoveE, TypeOK, Writing, Ended
<1>8. CASE EncryptionFails(e)
  <2>1. cipherFile' \in Contents /\ tagFile' \in Contents
    BY <1>0, <1>8, WrittenIsContents DEF EncryptionFails, CutShort, TypeOK
  <2>2. epc' \in [Encryptions -> {"new", "encrypt", "open"} \cup Writing \cup Ended]
    BY <1>8 DEF EncryptionFails, TypeOK, Ended
  <2> QED
    BY <1>8, <2>1, <2>2 DEF EncryptionFails, TypeOK
<1> QED
  BY <1>1, <1>2, <1>3, <1>4, <1>5, <1>6, <1>7, <1>8

(* So does a step of a decryption. *)
LEMMA DecryptionKeepsTypes ==
  ASSUME TypeOK, NEW d \in Decryptions,
         \/ ReadCiphertext(d) \/ ReadTag(d) \/ DecryptThrows(d) \/ DecryptInvalid(d)
         \/ DecryptValid(d) \/ OpenOutput(d) \/ WriteOutput(d) \/ TearOutputUnnoticed(d)
         \/ DecryptionFails(d)
  PROVE  TypeOK'
<1>1. CASE ReadCiphertext(d)
  BY <1>1 DEF ReadCiphertext, MoveD, files, TypeOK
<1>2. CASE ReadTag(d)
  BY <1>2 DEF ReadTag, MoveD, files, TypeOK
<1>3. CASE DecryptThrows(d) \/ DecryptInvalid(d) \/ DecryptValid(d)
  BY <1>3 DEF DecryptThrows, DecryptInvalid, DecryptValid, MoveD, files, TypeOK, Ended
<1>4. CASE OpenOutput(d)
  BY <1>4, WrittenIsContents DEF OpenOutput, MoveD, TypeOK
<1>5. CASE WriteOutput(d)
  BY <1>5, WrittenIsContents, DecryptedIsContents DEF WriteOutput, Written, MoveD, TypeOK, Ended
<1>6. CASE DecryptionFails(d)
  <2>1. outFile' \in Contents
    BY <1>6, WrittenIsContents DEF DecryptionFails, CutShort, TypeOK
  <2>2. dpc' \in [Decryptions -> {"new", "read tag", "decrypt", "open", "write"} \cup Ended]
    BY <1>6 DEF DecryptionFails, TypeOK, Ended
  <2> QED
    BY <1>6, <2>1, <2>2 DEF DecryptionFails, TypeOK
<1>7. CASE TearOutputUnnoticed(d)
  BY <1>7, WrittenIsContents DEF TearOutputUnnoticed, MoveD, TypeOK, Ended
<1> QED
  BY <1>1, <1>2, <1>3, <1>4, <1>5, <1>6, <1>7

(* No step of the system leaves the types. *)
LEMMA NextKeepsTypes == TypeOK /\ [Next]_vars => TypeOK'
<1> SUFFICES ASSUME TypeOK, [Next]_vars PROVE TypeOK'
  OBVIOUS
<1>1. CASE \E x \in Texts : SaveInput(x)
  BY <1>1 DEF SaveInput, TypeOK
<1>2. CASE UNCHANGED vars
  BY <1>2 DEF vars, TypeOK
<1> QED
  BY <1>1, <1>2, EncryptionKeepsTypes, DecryptionKeepsTypes DEF Next

-----------------------------------------------------------------------------
(* What an encryption has read stays: a run reads its input once. *)
LEMMA TextStays ==
  ASSUME TypeOK, [Next]_vars, NEW e \in Encryptions, epc[e] # "new"
  PROVE  epc'[e] # "new" /\ text'[e] = text[e]
<1>1. CASE \E f \in Encryptions : ReadInput(f)
  BY <1>1 DEF ReadInput, MoveE, TypeOK
<1>2. CASE \E f \in Encryptions :
              \/ Encrypt(f) \/ OpenCiphertext(f) \/ WriteCiphertext(f)
              \/ OpenTag(f) \/ WriteTag(f) \/ TearUnnoticed(f) \/ EncryptionFails(f)
  BY <1>2 DEF Encrypt, OpenCiphertext, WriteCiphertext, OpenTag, WriteTag, TearUnnoticed,
              EncryptionFails, MoveE, TypeOK
<1>3. CASE UNCHANGED <<epc, text>>
  BY <1>3
<1> QED
  BY <1>1, <1>2, <1>3 DEF Next, vars, SaveInput, ReadCiphertext, ReadTag, DecryptThrows,
                          DecryptInvalid, DecryptValid, OpenOutput, WriteOutput,
                          TearOutputUnnoticed, DecryptionFails

(* The tag file changes to nothing, to torn bytes or to a tag of what was read. *)
LEMMA TagFileChanges ==
  ASSUME TypeOK, [Next]_vars
  PROVE  \/ tagFile' \in {tagFile, Empty, Torn}
         \/ \E f \in Encryptions : /\ epc[f] = "write tag"
                                   /\ tagFile' \in {Tag(f, text[f]), CutTag(f, text[f])}
<1>1. CASE \E f \in Encryptions : OpenTag(f)
  BY <1>1 DEF OpenTag
<1>2. CASE \E f \in Encryptions : WriteTag(f) \/ TearUnnoticed(f) \/ EncryptionFails(f)
  BY <1>2 DEF WriteTag, TearUnnoticed, EncryptionFails, Written, CutShort, MoveE
<1>3. CASE UNCHANGED tagFile
  BY <1>3
<1> QED
  BY <1>1, <1>2, <1>3 DEF Next, vars, files, SaveInput, ReadInput, Encrypt, OpenCiphertext,
                          WriteCiphertext, ReadCiphertext, ReadTag, DecryptThrows,
                          DecryptInvalid, DecryptValid, OpenOutput, WriteOutput,
                          TearOutputUnnoticed, DecryptionFails

(* Tags stay those of what their encryptions have read. *)
LEMMA NextKeepsTagFile == CipherInv /\ [Next]_vars => TagFileIsOfText'
<1> SUFFICES ASSUME CipherInv, [Next]_vars,
                    NEW e \in Encryptions, NEW x \in Texts, IsTagOf(tagFile', e, x)
             PROVE  epc'[e] # "new" /\ text'[e] = x
  BY DEF TagFileIsOfText, IsTagOf, Tag, CutTag
<1>1. epc[e] # "new" /\ text[e] = x
  <2>1. CASE tagFile' \in {tagFile, Empty, Torn}
    BY <2>1, TagsAreTold DEF CipherInv, TagFileIsOfText
  <2>2. CASE \E f \in Encryptions : /\ epc[f] = "write tag"
                                    /\ tagFile' \in {Tag(f, text[f]), CutTag(f, text[f])}
    <3>1. PICK f \in Encryptions : /\ epc[f] = "write tag"
                                   /\ tagFile' \in {Tag(f, text[f]), CutTag(f, text[f])}
      BY <2>2
    <3>2. e = f /\ x = text[f]
      BY <3>1, TagsAreTold
    <3> QED
      BY <3>1, <3>2
  <2> QED
    BY <2>1, <2>2, TagFileChanges DEF CipherInv
<1> QED
  BY <1>1, TextStays DEF CipherInv

LEMMA NextKeepsReadTags == CipherInv /\ [Next]_vars => ReadTagIsOfText'
<1> SUFFICES ASSUME CipherInv, [Next]_vars, NEW d \in Decryptions,
                    NEW e \in Encryptions, NEW x \in Texts, IsTagOf(readTag'[d], e, x)
             PROVE  epc'[e] # "new" /\ text'[e] = x
  BY DEF ReadTagIsOfText, IsTagOf, Tag, CutTag
<1>1. readTag'[d] \in {readTag[d], tagFile}
  BY DEF CipherInv, TypeOK, Next, vars, SaveInput, ReadInput, Encrypt, OpenCiphertext,
         WriteCiphertext, OpenTag, WriteTag, TearUnnoticed, EncryptionFails, ReadCiphertext,
         ReadTag, DecryptThrows, DecryptInvalid, DecryptValid, OpenOutput, WriteOutput,
         TearOutputUnnoticed, DecryptionFails
<1>2. epc[e] # "new" /\ text[e] = x
  BY <1>1 DEF CipherInv, TagFileIsOfText, ReadTagIsOfText
<1> QED
  BY <1>2, TextStays DEF CipherInv

(* What a decryption has read stays once it looks at the tag, and it goes on only
   if the tag is valid. *)
LEMMA ReadStays ==
  ASSUME TypeOK, [Next]_vars, NEW d \in Decryptions,
         dpc'[d] = "open" \/ HasOpenedOutput(d)'
  PROVE  /\ setting' = setting /\ read'[d] = read[d] /\ readTag'[d] = readTag[d]
         /\ dpc[d] = "open" \/ HasOpenedOutput(d) \/ TagValid(d)
<1> USE DEF HasOpenedOutput
<1>1. CASE \E c \in Decryptions : ReadCiphertext(c) \/ ReadTag(c)
  BY <1>1 DEF ReadCiphertext, ReadTag, MoveD, TypeOK
<1>2. CASE \E c \in Decryptions :
              \/ DecryptThrows(c) \/ DecryptInvalid(c) \/ DecryptValid(c)
              \/ OpenOutput(c) \/ WriteOutput(c) \/ TearOutputUnnoticed(c)
              \/ DecryptionFails(c)
  BY <1>2 DEF DecryptThrows, DecryptInvalid, DecryptValid, OpenOutput, WriteOutput,
              TearOutputUnnoticed, DecryptionFails, MoveD, TypeOK
<1>3. CASE UNCHANGED <<setting, dpc, read, readTag>>
  BY <1>3
<1> QED
  BY <1>1, <1>2, <1>3 DEF Next, vars, SaveInput, ReadInput, Encrypt, OpenCiphertext,
                          WriteCiphertext, OpenTag, WriteTag, TearUnnoticed, EncryptionFails

LEMMA NextKeepsValidTags == CipherInv /\ [Next]_vars => GoesOnWithValidTag'
<1> SUFFICES ASSUME CipherInv, [Next]_vars,
                    NEW d \in Decryptions, dpc'[d] = "open" \/ HasOpenedOutput(d)'
             PROVE  TagValid(d)'
  BY DEF GoesOnWithValidTag
<1>1. /\ setting' = setting /\ read'[d] = read[d] /\ readTag'[d] = readTag[d]
      /\ TagValid(d)
  BY ReadStays DEF CipherInv, GoesOnWithValidTag
<1> QED
  BY <1>1 DEF TagValid, Unchecked, CallsOf, Genuine, ValidTags

(* The invariant is inductive. *)
LEMMA NextCipherInv == CipherInv /\ [Next]_vars => CipherInv'
BY NextKeepsTypes, NextKeepsTagFile, NextKeepsReadTags, NextKeepsValidTags DEF CipherInv

LEMMA CipherInvHolds == Spec => []CipherInv
BY InitCipherInv, NextCipherInv, PTL DEF Spec

-----------------------------------------------------------------------------
(* Every variable of the runs and every file stays in its type. *)
THEOREM TypeCorrect == Spec => []TypeOK
<1>1. CipherInv => TypeOK
  BY DEF CipherInv
<1> QED
  BY <1>1, CipherInvHolds, PTL

-----------------------------------------------------------------------------
(* The calls to OpenSSL                                                      *)

(* The calls a sequence makes. *)
Made(calls) == {calls[j] : j \in 1..Len(calls)}

(* Every call of a sequence is made when it is allowed, the calls of before having
   been made already. *)
AcceptedAfter(s, calls, before) ==
  \A i \in 1..Len(calls) : Allowed(s, calls[i], before \cup {calls[j] : j \in 1..(i - 1)})

(* c is a, then b. *)
IsConcat(c, a, b) ==
  /\ Len(a) \in Nat /\ Len(b) \in Nat /\ Len(c) = Len(a) + Len(b)
  /\ \A i \in 1..Len(a) : c[i] = a[i]
  /\ \A i \in 1..Len(b) : c[Len(a) + i] = b[i]

(* A concatenation is the one sequence and then the other. *)
LEMMA ConcatIsConcat ==
  ASSUME NEW S, NEW a \in Seq(S), NEW b \in Seq(S)
  PROVE  a \o b \in Seq(S) /\ IsConcat(a \o b, a, b)
BY DEF IsConcat

(* One sequence and then another make the calls of both. *)
LEMMA MadeConcat ==
  ASSUME NEW a, NEW b, NEW c, IsConcat(c, a, b)
  PROVE  Made(c) = Made(a) \cup Made(b)
<1>1. \A i \in 1..Len(c) : i \in 1..Len(a) \/ \E j \in 1..Len(b) : i = Len(a) + j
  <2> TAKE i \in 1..Len(c)
  <2>1. i \in 1..Len(a) \/ (i - Len(a) \in 1..Len(b) /\ i = Len(a) + (i - Len(a)))
    BY DEF IsConcat
  <2> QED
    BY <2>1
<1>2. \A i \in 1..Len(a) : i \in 1..Len(c)
  BY DEF IsConcat
<1>3. \A j \in 1..Len(b) : Len(a) + j \in 1..Len(c)
  BY DEF IsConcat
<1>4. ASSUME NEW x \in Made(c) PROVE x \in Made(a) \cup Made(b)
  <2>1. PICK i \in 1..Len(c) : x = c[i]
    BY DEF Made
  <2>2. CASE i \in 1..Len(a)
    BY <2>1, <2>2 DEF Made, IsConcat
  <2>3. CASE \E j \in 1..Len(b) : i = Len(a) + j
    BY <2>1, <2>3 DEF Made, IsConcat
  <2> QED
    BY <1>1, <2>2, <2>3
<1>5. ASSUME NEW x \in Made(a) \cup Made(b) PROVE x \in Made(c)
  BY <1>2, <1>3 DEF Made, IsConcat
<1> QED
  BY <1>4, <1>5

(* They are accepted if the first is, and the second after the first. *)
LEMMA AcceptedConcat ==
  ASSUME NEW a, NEW b, NEW c, IsConcat(c, a, b), NEW s, NEW before,
         AcceptedAfter(s, a, before), AcceptedAfter(s, b, before \cup Made(a))
  PROVE  AcceptedAfter(s, c, before)
<1> SUFFICES ASSUME NEW i \in 1..Len(c)
             PROVE  Allowed(s, c[i], before \cup {c[j] : j \in 1..(i - 1)})
  BY DEF AcceptedAfter
<1>1. CASE i \in 1..Len(a)
  <2>1. \A j \in 1..(i - 1) : c[j] = a[j]
    BY <1>1 DEF IsConcat
  <2>2. {c[j] : j \in 1..(i - 1)} = {a[j] : j \in 1..(i - 1)}
    BY <2>1
  <2>3. c[i] = a[i]
    BY <1>1 DEF IsConcat
  <2>4. Allowed(s, a[i], before \cup {a[j] : j \in 1..(i - 1)})
    BY <1>1 DEF AcceptedAfter
  <2> QED
    BY <2>2, <2>3, <2>4
<1>2. CASE i \notin 1..Len(a)
  <2>1. PICK k \in 1..Len(b) : i = Len(a) + k
    <3>1. i - Len(a) \in 1..Len(b) /\ i = Len(a) + (i - Len(a))
      BY <1>2 DEF IsConcat
    <3> QED
      BY <3>1
  <2>2. \A j \in 1..(i - 1) : j \in 1..Len(a) \/ \E m \in 1..(k - 1) : j = Len(a) + m
    <3> TAKE j \in 1..(i - 1)
    <3>1. j \in 1..Len(a) \/ (j - Len(a) \in 1..(k - 1) /\ j = Len(a) + (j - Len(a)))
      BY <2>1 DEF IsConcat
    <3> QED
      BY <3>1
  <2>3. \A j \in 1..Len(a) : j \in 1..(i - 1)
    BY <2>1 DEF IsConcat
  <2>4. \A m \in 1..(k - 1) : Len(a) + m \in 1..(i - 1) /\ m \in 1..Len(b)
    BY <2>1 DEF IsConcat
  <2>5. {c[j] : j \in 1..(i - 1)} = Made(a) \cup {b[m] : m \in 1..(k - 1)}
    <3>1. ASSUME NEW x \in {c[j] : j \in 1..(i - 1)}
          PROVE  x \in Made(a) \cup {b[m] : m \in 1..(k - 1)}
      <4>1. PICK j \in 1..(i - 1) : x = c[j]
        OBVIOUS
      <4>2. CASE j \in 1..Len(a)
        BY <4>1, <4>2 DEF Made, IsConcat
      <4>3. CASE \E m \in 1..(k - 1) : j = Len(a) + m
        BY <2>4, <4>1, <4>3 DEF IsConcat
      <4> QED
        BY <2>2, <4>2, <4>3
    <3>2. ASSUME NEW x \in Made(a) \cup {b[m] : m \in 1..(k - 1)}
          PROVE  x \in {c[j] : j \in 1..(i - 1)}
      BY <2>3, <2>4 DEF Made, IsConcat
    <3> QED
      BY <3>1, <3>2
  <2>6. Allowed(s, b[k], (before \cup Made(a)) \cup {b[m] : m \in 1..(k - 1)})
    BY DEF AcceptedAfter
  <2>7. (before \cup Made(a)) \cup {b[m] : m \in 1..(k - 1)}
          = before \cup {c[j] : j \in 1..(i - 1)}
    BY <2>5
  <2>8. c[i] = b[k]
    BY <2>1 DEF IsConcat
  <2> QED
    BY <2>6, <2>7, <2>8
<1> QED
  BY <1>1, <1>2

(* No call, and one. *)
LEMMA OneCall ==
  ASSUME NEW s, NEW c, NEW before
  PROVE  /\ Made(<<c>>) = {c} /\ Made(<<>>) = {}
         /\ AcceptedAfter(s, <<>>, before)
         /\ AcceptedAfter(s, <<c>>, before) <=> Allowed(s, c, before)
<1>1. Made(<<c>>) = {c} /\ Made(<<>>) = {}
  BY DEF Made
<1>2. AcceptedAfter(s, <<>>, before)
  BY DEF AcceptedAfter
<1>3. Len(<<c>>) = 1 /\ <<c>>[1] = c /\ 1..(1 - 1) = {}
  OBVIOUS
<1>4. before \cup {<<c>>[j] : j \in 1..(1-1)} = before
  BY <1>3
<1>5. 1..Len(<<c>>) = {1}
  BY <1>3
<1> QED
  BY <1>1, <1>2, <1>3, <1>4, <1>5 DEF AcceptedAfter

(* The same of concatenations that start a sequence. *)
LEMMA ThenCalls ==
  ASSUME NEW S, NEW a \in Seq(S), NEW b \in Seq(S), NEW s,
         AcceptedAfter(s, a, {}), AcceptedAfter(s, b, Made(a))
  PROVE  /\ a \o b \in Seq(S) /\ Made(a \o b) = Made(a) \cup Made(b)
         /\ AcceptedAfter(s, a \o b, {})
<1>1. IsConcat(a \o b, a, b) /\ a \o b \in Seq(S)
  BY ConcatIsConcat
<1>2. {} \cup Made(a) = Made(a)
  OBVIOUS
<1> QED
  BY <1>1, <1>2, MadeConcat, AcceptedConcat

(* A call that is made or not. *)
LEMMA CallIf ==
  ASSUME NEW S, NEW s, NEW condition \in BOOLEAN, NEW call \in S, NEW before,
         condition => Allowed(s, call, before)
  PROVE  /\ If(condition, call) \in Seq(S)
         /\ Made(If(condition, call)) = IF condition THEN {call} ELSE {}
         /\ AcceptedAfter(s, If(condition, call), before)
<1>1. <<call>> \in Seq(S) /\ <<>> \in Seq(S)
  OBVIOUS
<1> QED
  BY <1>1, OneCall DEF If

(* Two calls in a row. *)
LEMMA TwoCalls ==
  ASSUME NEW S, NEW s, NEW c \in S, NEW d \in S, NEW before,
         Allowed(s, c, before), Allowed(s, d, before \cup {c})
  PROVE  /\ <<c, d>> \in Seq(S) /\ Made(<<c, d>>) = {c, d}
         /\ AcceptedAfter(s, <<c, d>>, before)
<1>1. 1..Len(<<c>>) = {1} /\ 1..Len(<<d>>) = {1} /\ 1 + 1 = 2
  OBVIOUS
<1>2. /\ Len(<<c, d>>) = 2 /\ Len(<<c>>) = 1 /\ Len(<<d>>) = 1
      /\ <<c, d>>[1] = c /\ <<c, d>>[2] = d /\ <<c>>[1] = c /\ <<d>>[1] = d
  OBVIOUS
<1>3. IsConcat(<<c, d>>, <<c>>, <<d>>)
  BY <1>1, <1>2 DEF IsConcat
<1>4. Made(<<c, d>>) = {c, d}
  BY <1>3, OneCall, MadeConcat
<1>5. AcceptedAfter(s, <<c, d>>, before)
  <2>1. AcceptedAfter(s, <<c>>, before) /\ AcceptedAfter(s, <<d>>, before \cup Made(<<c>>))
    BY OneCall
  <2> HIDE DEF IsConcat
  <2> QED
    BY <1>3, <2>1, AcceptedConcat
<1> QED
  BY <1>4, <1>5

(* The five calls CCM begins with. *)
LEMMA FiveCalls ==
  ASSUME NEW S, NEW s, NEW c \in S, NEW d \in S, NEW e \in S, NEW f \in S, NEW g \in S,
         Allowed(s, c, {}), Allowed(s, d, {c}), Allowed(s, e, {c, d}),
         Allowed(s, f, {c, d, e}), Allowed(s, g, {c, d, e, f})
  PROVE  /\ <<c, d, e, f, g>> \in Seq(S) /\ Made(<<c, d, e, f, g>>) = {c, d, e, f, g}
         /\ AcceptedAfter(s, <<c, d, e, f, g>>, {})
<1>1. IsConcat(<<c, d, e, f, g>>, <<c, d, e>>, <<f, g>>)
  BY DEF IsConcat
<1>2. IsConcat(<<c, d, e>>, <<c>>, <<d, e>>)
  BY DEF IsConcat
<1>3. Made(<<c>>) = {c} /\ AcceptedAfter(s, <<c>>, {})
  BY OneCall
<1>4. Made(<<d, e>>) = {d, e} /\ AcceptedAfter(s, <<d, e>>, {c})
  <2>1. {c} \cup {d} = {c, d}
    OBVIOUS
  <2> QED
    BY <2>1, TwoCalls
<1>5. Made(<<c, d, e>>) = {c, d, e} /\ AcceptedAfter(s, <<c, d, e>>, {})
  <2>1. {} \cup {c} = {c} /\ {c} \cup {d, e} = {c, d, e}
    OBVIOUS
  <2> QED
    BY <1>2, <1>3, <1>4, <2>1, MadeConcat, AcceptedConcat
<1>6. Made(<<f, g>>) = {f, g} /\ AcceptedAfter(s, <<f, g>>, {c, d, e})
  <2>1. {c, d, e} \cup {f} = {c, d, e, f}
    OBVIOUS
  <2> QED
    BY <2>1, TwoCalls
<1>7. {} \cup {c, d, e} = {c, d, e} /\ {c, d, e} \cup {f, g} = {c, d, e, f, g}
  OBVIOUS
<1>8. Made(<<c, d, e, f, g>>) = {c, d, e, f, g}
  BY <1>1, <1>5, <1>6, <1>7, MadeConcat
<1>9. AcceptedAfter(s, <<c, d, e, f, g>>, {})
  BY <1>1, <1>5, <1>6, <1>7, AcceptedConcat
<1> QED
  BY <1>8, <1>9

(* Accepted is to be accepted after no call. *)
LEMMA AcceptedFromNothing ==
  ASSUME NEW s, NEW calls
  PROVE  Accepted(s, calls) <=> AcceptedAfter(s, calls, {})
BY DEF Accepted, AcceptedAfter

(* The calls there are. *)
CallNames ==
  {"cipher", "ivLen", "tagLen", "tag", "key", "announce", "aad", "data", "final", "getTag"}

(* A legal start: the calls so far are accepted and are those of made. *)
Legal(s, calls, made) ==
  calls \in Seq(CallNames) /\ Made(calls) = made /\ AcceptedAfter(s, calls, {})

(* A legal start goes on with a call that is allowed, if it is made. *)
LEMMA ThenIf ==
  ASSUME NEW s, NEW calls, NEW made, Legal(s, calls, made), NEW condition \in BOOLEAN,
         NEW call \in CallNames, condition => Allowed(s, call, made)
  PROVE  Legal(s, calls \o If(condition, call), made \cup IF condition THEN {call} ELSE {})
<1> DEFINE next == If(condition, call)
<1>1. /\ next \in Seq(CallNames) /\ Made(next) = IF condition THEN {call} ELSE {}
      /\ AcceptedAfter(s, next, made)
  BY CallIf
<1> HIDE DEF next
<1>2. Legal(s, calls \o next, made \cup IF condition THEN {call} ELSE {})
  BY <1>1, ThenCalls DEF Legal
<1> QED
  BY <1>2 DEF next

(* It goes on with two calls that are allowed. *)
LEMMA ThenTwo ==
  ASSUME NEW s, NEW calls, NEW made, Legal(s, calls, made),
         NEW c \in CallNames, NEW d \in CallNames,
         Allowed(s, c, made), Allowed(s, d, made \cup {c})
  PROVE  Legal(s, calls \o <<c, d>>, made \cup {c, d})
<1> DEFINE next == <<c, d>>
<1>1. next \in Seq(CallNames) /\ Made(next) = {c, d} /\ AcceptedAfter(s, next, made)
  BY TwoCalls
<1> HIDE DEF next
<1>2. Legal(s, calls \o next, made \cup {c, d})
  BY <1>1, ThenCalls DEF Legal
<1> QED
  BY <1>2 DEF next

(* What starts legally and ends there is accepted. *)
LEMMA LegalIsAccepted ==
  ASSUME NEW s, NEW calls, NEW made, Legal(s, calls, made)
  PROVE  Accepted(s, calls)
BY AcceptedFromNothing DEF Legal

(* To choose the cipher is a legal start. *)
LEMMA CipherFirst == ASSUME NEW s PROVE Legal(s, <<"cipher">>, {"cipher"})
<1>1. Allowed(s, "cipher", {})
  BY DEF Allowed
<1>2. \A c \in CallNames : <<c>> \in Seq(CallNames)
  OBVIOUS
<1> QED
  BY <1>1, <1>2, OneCall DEF Legal, CallNames

(* encrypt_gcm_ocb makes every call when OpenSSL allows it. *)
LEMMA EncryptGcmOcbAccepted ==
  ASSUME NEW s \in Settings, s.mode # "CCM", NEW data \in BOOLEAN
  PROVE  Accepted(s, EncryptGcmOcb(s, data))
<1> DEFINE k1 == {"cipher"} \cup IF s.mode = "OCB" THEN {"tagLen"} ELSE {}
           k2 == k1 \cup {"ivLen", "key"}
           k3 == k2 \cup IF s.aad THEN {"aad"} ELSE {}
           k4 == k3 \cup IF data THEN {"data"} ELSE {}
           c1 == <<"cipher">> \o If(s.mode = "OCB", "tagLen")
           c2 == c1 \o <<"ivLen", "key">>
           c3 == c2 \o If(s.aad, "aad")
           c4 == c3 \o If(data, "data")
<1>0. s.mode \in {"GCM", "OCB"} /\ s.aad \in BOOLEAN
  BY DEF Settings, Modes
<1>1. Legal(s, c1, k1)
  <2>1. Allowed(s, "tagLen", {"cipher"}) /\ "tagLen" \in CallNames
    BY DEF Allowed, CallNames
  <2> QED
    BY <2>1, CipherFirst, ThenIf
<1>2. Legal(s, c2, k2)
  <2>1. /\ Allowed(s, "ivLen", k1) /\ Allowed(s, "key", k1 \cup {"ivLen"})
        /\ "ivLen" \in CallNames /\ "key" \in CallNames
    BY DEF Allowed, CallNames
  <2> HIDE DEF c1, k1
  <2> QED
    BY <1>1, <2>1, ThenTwo
<1>3. Legal(s, c3, k3)
  <2>1. Allowed(s, "aad", k2) /\ "aad" \in CallNames
    BY <1>0 DEF Allowed, CallNames
  <2> HIDE DEF c2, k2
  <2> QED
    BY <1>0, <1>2, <2>1, ThenIf
<1>4. Legal(s, c4, k4)
  <2>1. Allowed(s, "data", k3) /\ "data" \in CallNames
    BY <1>0 DEF Allowed, CallNames
  <2> HIDE DEF c3, k3
  <2> QED
    BY <1>3, <2>1, ThenIf
<1>5. Legal(s, c4 \o <<"final", "getTag">>, k4 \cup {"final", "getTag"})
  <2>1. /\ Allowed(s, "final", k4) /\ Allowed(s, "getTag", k4 \cup {"final"})
        /\ "final" \in CallNames /\ "getTag" \in CallNames
    BY <1>0 DEF Allowed, CallNames
  <2> HIDE DEF c4, k4
  <2> QED
    BY <1>4, <2>1, ThenTwo
<1> QED
  BY <1>5, LegalIsAccepted DEF EncryptGcmOcb

(* So does decrypt_gcm_ocb. *)
LEMMA DecryptGcmOcbAccepted ==
  ASSUME NEW s \in Settings, s.mode # "CCM", NEW data \in BOOLEAN
  PROVE  Accepted(s, DecryptGcmOcb(s, data))
<1> DEFINE short == s.mode = "OCB" /\ s.short
           k1 == {"cipher"} \cup IF short THEN {"tagLen"} ELSE {}
           k2 == k1 \cup {"ivLen", "key"}
           k3 == k2 \cup IF s.aad THEN {"aad"} ELSE {}
           k4 == k3 \cup IF data THEN {"data"} ELSE {}
           c1 == <<"cipher">> \o If(short, "tagLen")
           c2 == c1 \o <<"ivLen", "key">>
           c3 == c2 \o If(s.aad, "aad")
           c4 == c3 \o If(data, "data")
<1>0. s.mode \in {"GCM", "OCB"} /\ s.aad \in BOOLEAN /\ s.short \in BOOLEAN
  BY DEF Settings, Modes
<1>1. Legal(s, c1, k1)
  <2>1. Allowed(s, "tagLen", {"cipher"}) /\ "tagLen" \in CallNames
    BY DEF Allowed, CallNames
  <2>2. short \in BOOLEAN
    BY <1>0
  <2> HIDE DEF short
  <2> QED
    BY <2>1, <2>2, CipherFirst, ThenIf
<1>2. Legal(s, c2, k2)
  <2>1. /\ Allowed(s, "ivLen", k1) /\ Allowed(s, "key", k1 \cup {"ivLen"})
        /\ "ivLen" \in CallNames /\ "key" \in CallNames
    BY DEF Allowed, CallNames
  <2> HIDE DEF c1, k1
  <2> QED
    BY <1>1, <2>1, ThenTwo
<1>3. Legal(s, c3, k3)
  <2>1. Allowed(s, "aad", k2) /\ "aad" \in CallNames
    BY <1>0 DEF Allowed, CallNames
  <2> HIDE DEF c2, k2
  <2> QED
    BY <1>0, <1>2, <2>1, ThenIf
<1>4. Legal(s, c4, k4)
  <2>1. Allowed(s, "data", k3) /\ "data" \in CallNames
    BY <1>0 DEF Allowed, CallNames
  <2> HIDE DEF c3, k3
  <2> QED
    BY <1>3, <2>1, ThenIf
<1>5. Legal(s, c4 \o <<"tag", "final">>, k4 \cup {"tag", "final"})
  <2>1. /\ Allowed(s, "tag", k4) /\ Allowed(s, "final", k4 \cup {"tag"})
        /\ "final" \in CallNames /\ "tag" \in CallNames
    BY <1>0 DEF Allowed, CallNames
  <2> HIDE DEF c4, k4
  <2> QED
    BY <1>4, <2>1, ThenTwo
<1> QED
  BY <1>5, LegalIsAccepted DEF DecryptGcmOcb

(* What encrypt_ccm and decrypt_ccm have in common: they set the length or the tag
   before the key and announce the length of the text before the rest. *)
LEMMA CcmStart ==
  ASSUME NEW s \in Settings, s.mode = "CCM", NEW data \in BOOLEAN, NEW tag \in {"tagLen", "tag"}
  PROVE  Legal(s, <<"cipher", "ivLen", tag, "key", "announce">>
                    \o If(s.aad, "aad") \o If(data, "data"),
               {"cipher", "ivLen", tag, "key", "announce"}
                 \cup (IF s.aad THEN {"aad"} ELSE {}) \cup (IF data THEN {"data"} ELSE {}))
<1> DEFINE k1 == {"cipher", "ivLen", tag, "key", "announce"}
           k2 == k1 \cup IF s.aad THEN {"aad"} ELSE {}
           c1 == <<"cipher", "ivLen", tag, "key", "announce">>
           c2 == c1 \o If(s.aad, "aad")
<1>0. s.aad \in BOOLEAN /\ tag \in CallNames
  BY DEF Settings, CallNames
<1>1. Legal(s, c1, k1)
  <2>1. /\ Allowed(s, "cipher", {}) /\ Allowed(s, "ivLen", {"cipher"})
        /\ Allowed(s, tag, {"cipher", "ivLen"})
        /\ Allowed(s, "key", {"cipher", "ivLen", tag})
        /\ Allowed(s, "announce", {"cipher", "ivLen", tag, "key"})
    BY DEF Allowed
  <2>2. {"cipher", "ivLen", "key", "announce"} \subseteq CallNames
    BY DEF CallNames
  <2> QED
    BY <1>0, <2>1, <2>2, FiveCalls DEF Legal
<1>2. Legal(s, c2, k2)
  <2>1. Allowed(s, "aad", k1) /\ "aad" \in CallNames
    BY DEF Allowed, CallNames
  <2> HIDE DEF c1, k1
  <2> QED
    BY <1>0, <1>1, <2>1, ThenIf
<1>3. Legal(s, c2 \o If(data, "data"), k2 \cup IF data THEN {"data"} ELSE {})
  <2>1. Allowed(s, "data", k2) /\ "data" \in CallNames
    BY <1>0 DEF Allowed, CallNames
  <2> HIDE DEF c2, k2
  <2> QED
    BY <1>2, <2>1, ThenIf
<1> QED
  BY <1>3

(* encrypt_ccm makes its calls in order if there is a text. *)
LEMMA EncryptCcmAccepted ==
  ASSUME NEW s \in Settings, s.mode = "CCM"
  PROVE  Accepted(s, EncryptCcm(s, TRUE))
<1> DEFINE k == {"cipher", "ivLen", "tagLen", "key", "announce"}
                  \cup (IF s.aad THEN {"aad"} ELSE {}) \cup (IF TRUE THEN {"data"} ELSE {})
           c == <<"cipher", "ivLen", "tagLen", "key", "announce">>
                  \o If(s.aad, "aad") \o If(TRUE, "data")
<1>1. Legal(s, c, k)
  BY CcmStart
<1>2. /\ Allowed(s, "final", k) /\ Allowed(s, "getTag", k \cup {"final"})
      /\ "final" \in CallNames /\ "getTag" \in CallNames
  BY DEF Allowed, CallNames
<1>3. Legal(s, c \o <<"final", "getTag">>, k \cup {"final", "getTag"})
  <2> HIDE DEF c, k
  <2> QED
    BY <1>1, <1>2, ThenTwo
<1> QED
  BY <1>3, LegalIsAccepted DEF EncryptCcm

(* aead_encrypt is accepted, but for CCM without a text. *)
LEMMA EncryptCallsAccepted ==
  ASSUME NEW s \in Settings, NEW data \in BOOLEAN, s.mode # "CCM" \/ data
  PROVE  Accepted(s, EncryptCalls(s, data))
<1>1. CASE s.mode = "CCM"
  BY <1>1, EncryptCcmAccepted DEF EncryptCalls
<1>2. CASE s.mode # "CCM"
  BY <1>2, EncryptGcmOcbAccepted DEF EncryptCalls
<1> QED
  BY <1>1, <1>2

(* aead_decrypt always is. *)
LEMMA DecryptCallsAccepted ==
  ASSUME NEW s \in Settings, NEW data \in BOOLEAN
  PROVE  Accepted(s, DecryptCalls(s, data))
<1>1. CASE s.mode = "CCM"
  BY <1>1, CcmStart, LegalIsAccepted DEF DecryptCalls, DecryptCcm
<1>2. CASE s.mode # "CCM"
  BY <1>2, DecryptGcmOcbAccepted DEF DecryptCalls
<1> QED
  BY <1>1, <1>2

-----------------------------------------------------------------------------
(* What an encryption was given stays what it is. *)
LEMMA SettingStays == [Next]_vars => setting' = setting
BY DEF Next, vars, SaveInput, ReadInput, Encrypt, OpenCiphertext, WriteCiphertext, OpenTag,
       WriteTag, TearUnnoticed, EncryptionFails, ReadCiphertext, ReadTag, DecryptThrows,
       DecryptInvalid, DecryptValid, OpenOutput, WriteOutput, TearOutputUnnoticed,
       DecryptionFails

(* An encryption fails in the library only if its calls are refused. *)
LEMMA RefusalIsRefused ==
  ASSUME TypeOK, [Next]_vars, NEW e \in Encryptions, epc'[e] = "library error"
  PROVE  epc[e] = "library error" \/ (epc[e] = "encrypt" /\ ~EncryptAccepted(e))
<1>1. CASE \E f \in Encryptions : Encrypt(f)
  BY <1>1 DEF Encrypt, MoveE, TypeOK
<1>2. CASE \E f \in Encryptions :
              \/ ReadInput(f) \/ OpenCiphertext(f) \/ WriteCiphertext(f)
              \/ OpenTag(f) \/ WriteTag(f) \/ TearUnnoticed(f) \/ EncryptionFails(f)
  BY <1>2 DEF ReadInput, OpenCiphertext, WriteCiphertext, OpenTag, WriteTag, TearUnnoticed,
              EncryptionFails, MoveE, TypeOK
<1>3. CASE UNCHANGED epc
  BY <1>3
<1> QED
  BY <1>1, <1>2, <1>3 DEF Next, vars, SaveInput, ReadCiphertext, ReadTag, DecryptThrows,
                          DecryptInvalid, DecryptValid, OpenOutput, WriteOutput,
                          TearOutputUnnoticed, DecryptionFails

(* For every mode, with and without additional data, text and a short tag, and
   whatever the other runs do, an encryption does not fail in the library, but for
   CCM without a text. *)
THEOREM LegalCallsAreAccepted == Spec => []LegalEncryptionSucceeds
<1>1. Init => LegalEncryptionSucceeds
  BY DEF Init, LegalEncryptionSucceeds
<1>2. CipherInv /\ LegalEncryptionSucceeds /\ [Next]_vars => LegalEncryptionSucceeds'
  <2> SUFFICES ASSUME CipherInv, LegalEncryptionSucceeds, [Next]_vars,
                      NEW e \in Encryptions, epc'[e] = "library error"
               PROVE  setting'[e].mode = "CCM" /\ text'[e] = EmptyText
    BY DEF LegalEncryptionSucceeds
  <2>1. TypeOK /\ setting[e] \in Settings
    BY ChosenTyped DEF CipherInv, TypeOK
  <2>2. setting[e].mode = "CCM" /\ text[e] = EmptyText
    <3>1. CASE epc[e] = "library error"
      BY <3>1 DEF LegalEncryptionSucceeds
    <3>2. CASE epc[e] = "encrypt" /\ ~EncryptAccepted(e)
      BY <2>1, <3>2, EncryptCallsAccepted DEF EncryptAccepted
    <3> QED
      BY <2>1, <3>1, <3>2, RefusalIsRefused
  <2>3. epc[e] # "new"
    BY <2>1, RefusalIsRefused
  <2> QED
    BY <2>1, <2>2, <2>3, TextStays, SettingStays
<1> QED
  BY <1>1, <1>2, CipherInvHolds, PTL DEF Spec

-----------------------------------------------------------------------------
(* The output                                                                *)

(* Calls that are made or not, and pairs of calls, are sequences. *)
LEMMA AreSequences ==
  ASSUME NEW S, NEW c \in S, NEW d \in S
  PROVE  <<c>> \in Seq(S) /\ <<c, d>> \in Seq(S) /\ \A b : If(b, c) \in Seq(S)
<1>1. <<c>> \in Seq(S) /\ <<c, d>> \in Seq(S) /\ <<>> \in Seq(S)
  OBVIOUS
<1> QED
  BY <1>1 DEF If

(* decrypt_gcm_ocb compares the tag: it sets it before the final call. *)
LEMMA GcmOcbCompares ==
  ASSUME NEW s \in Settings, NEW data \in BOOLEAN, s.mode # "CCM"
  PROVE  Compared(s, DecryptGcmOcb(s, data))
<1> DEFINE S == CallNames
           k == <<"cipher">>
           l == If(s.mode = "OCB" /\ s.short, "tagLen")
           m == <<"ivLen", "key">>
           n == If(s.aad, "aad")
           o == If(data, "data")
           t == <<"tag", "final">>
           c == k \o l \o m \o n \o o
<1>1. DecryptGcmOcb(s, data) = c \o t
  BY DEF DecryptGcmOcb
<1>2. /\ "cipher" \in S /\ "tagLen" \in S /\ "ivLen" \in S /\ "key" \in S /\ "aad" \in S
      /\ "data" \in S /\ "tag" \in S /\ "final" \in S
  BY DEF CallNames
<1>3. Len(t) = 2 /\ t[1] = "tag" /\ t[2] = "final"
  OBVIOUS
<1>4. /\ k \in Seq(S) /\ l \in Seq(S) /\ m \in Seq(S) /\ n \in Seq(S) /\ o \in Seq(S)
      /\ t \in Seq(S)
  <2> HIDE DEF S
  <2> QED
    BY <1>2, AreSequences
<1>5. c \in Seq(S)
  <2> HIDE DEF S, k, l, m, n, o
  <2> QED
    BY <1>4
<1> HIDE DEF S, t, c
<1>6. IsConcat(c \o t, c, t)
  BY <1>4, <1>5, ConcatIsConcat
<1>7. /\ Len(c) + 1 \in 1..Len(c \o t) /\ Len(c) + 2 \in 1..Len(c \o t)
      /\ (c \o t)[Len(c) + 1] = "tag" /\ (c \o t)[Len(c) + 2] = "final"
      /\ Len(c) + 1 < Len(c) + 2
  BY <1>3, <1>6 DEF IsConcat
<1> QED
  BY <1>1, <1>7 DEF Compared

(* decrypt_ccm does if there is a ciphertext: it sets the tag before the key. *)
LEMMA CcmCompares ==
  ASSUME NEW s \in Settings, s.mode = "CCM"
  PROVE  Compared(s, DecryptCcm(s, TRUE))
<1> DEFINE S == CallNames
           k == <<"cipher", "ivLen", "tag", "key", "announce">>
           n == If(s.aad, "aad")
           o == If(TRUE, "data")
           c == k \o n
<1>1. DecryptCcm(s, TRUE) = c \o o
  BY DEF DecryptCcm
<1>2. /\ "cipher" \in S /\ "ivLen" \in S /\ "tag" \in S /\ "key" \in S /\ "announce" \in S
      /\ "aad" \in S /\ "data" \in S
  BY DEF CallNames
<1>3. Len(k) = 5 /\ k[3] = "tag" /\ Len(o) = 1 /\ o[1] = "data"
  BY DEF If
<1>4. k \in Seq(S) /\ n \in Seq(S) /\ o \in Seq(S)
  <2> HIDE DEF S
  <2>1. k \in Seq(S)
    BY <1>2
  <2> HIDE DEF k
  <2> QED
    BY <1>2, <2>1, AreSequences
<1> HIDE DEF S, k, n, o
<1>5. c \in Seq(S) /\ IsConcat(c, k, n)
  BY <1>4, ConcatIsConcat
<1>6. Len(c) >= 5 /\ Len(c) \in Nat /\ c[3] = "tag"
  <2> HIDE DEF c
  <2> QED
    BY <1>3, <1>5 DEF IsConcat
<1> HIDE DEF c
<1>7. IsConcat(c \o o, c, o)
  BY <1>4, <1>5, ConcatIsConcat
<1>8. /\ 3 \in 1..Len(c \o o) /\ Len(c) + 1 \in 1..Len(c \o o)
      /\ (c \o o)[3] = "tag" /\ (c \o o)[Len(c) + 1] = "data" /\ 3 < Len(c) + 1
  BY <1>3, <1>6, <1>7 DEF IsConcat
<1> QED
  BY <1>1, <1>8 DEF Compared

(* CCM without a ciphertext is the only decryption that compares no tag. *)
LEMMA OnlyEmptyCcmIsUnchecked ==
  ASSUME TypeOK, NEW d \in Decryptions, Unchecked(d)
  PROVE  NoTagCompared(d)
<1>1. setting[Undoes[d]] \in Settings
  BY UndoesTyped, ChosenTyped DEF TypeOK
<1>2. CASE setting[Undoes[d]].mode # "CCM"
  BY <1>1, <1>2, GcmOcbCompares DEF Unchecked, CallsOf, DecryptCalls
<1>3. CASE setting[Undoes[d]].mode = "CCM"
  <2>1. read[d] = Empty
    BY <1>1, <1>3, CcmCompares DEF Unchecked, CallsOf, DecryptCalls
  <2> QED
    BY <1>3, <2>1 DEF NoTagCompared
<1> QED
  BY <1>2, <1>3

(* The text of a genuine pair is the one its encryption has read, and is what the
   decryption returns. *)
LEMMA GenuineIsOfText ==
  ASSUME CipherInv, NEW d \in Decryptions, Genuine(d)
  PROVE  epc[Undoes[d]] # "new" /\ Decrypted(d) = Plaintext(text[Undoes[d]])
<1>1. Undoes[d] \in Encryptions
  BY UndoesTyped
<1>2. PICK x \in Texts : /\ read[d] = Ciphertext(Undoes[d], x)
                         /\ readTag[d] \in ValidTags(d, x)
  BY DEF Genuine
<1>3. IsTagOf(readTag[d], Undoes[d], x)
  BY <1>2 DEF ValidTags, IsTagOf
<1>4. epc[Undoes[d]] # "new" /\ text[Undoes[d]] = x
  BY <1>1, <1>3 DEF CipherInv, ReadTagIsOfText
<1> QED
  BY <1>2, <1>4, GenuineIsDecrypted

(* Whatever the runs do to each other's files, what a decryption returns is the
   whole text of the encryption it is meant to undo, but for CCM without a
   ciphertext. *)
THEOREM OneTextOrNothing == Spec => []OutputIsOneEncryptedText
<1>1. CipherInv => OutputIsOneEncryptedText
  <2> SUFFICES ASSUME CipherInv, NEW d \in Decryptions,
                      dpc[d] = "open" \/ HasOpenedOutput(d), ~NoTagCompared(d)
               PROVE  epc[Undoes[d]] # "new" /\ Decrypted(d) = Plaintext(text[Undoes[d]])
    BY DEF OutputIsOneEncryptedText
  <2>1. TagValid(d)
    BY DEF CipherInv, GoesOnWithValidTag
  <2>2. Genuine(d)
    BY <2>1, OnlyEmptyCcmIsUnchecked DEF CipherInv, TagValid
  <2> QED
    BY <2>2, GenuineIsOfText
<1> QED
  BY <1>1, CipherInvHolds, PTL

(* What a decryption has read stays once its output is open. *)
LEMMA OpenedStaysAsItIs ==
  ASSUME CipherInv, [Next]_vars, NEW d \in Decryptions, HasOpenedOutput(d)
  PROVE  /\ HasOpenedOutput(d)' /\ Genuine(d)' = Genuine(d)
         /\ NoTagCompared(d)' = NoTagCompared(d)
<1>1. HasOpenedOutput(d)'
  <2> USE DEF HasOpenedOutput
  <2>1. CASE \E c \in Decryptions :
                \/ ReadCiphertext(c) \/ ReadTag(c) \/ DecryptThrows(c) \/ DecryptInvalid(c)
                \/ DecryptValid(c) \/ OpenOutput(c) \/ WriteOutput(c)
                \/ TearOutputUnnoticed(c) \/ DecryptionFails(c)
    BY <2>1 DEF ReadCiphertext, ReadTag, DecryptThrows, DecryptInvalid, DecryptValid,
                OpenOutput, WriteOutput, TearOutputUnnoticed, DecryptionFails, MoveD,
                Ended, CipherInv, TypeOK
  <2>2. CASE UNCHANGED dpc
    BY <2>2
  <2> QED
    BY <2>1, <2>2 DEF Next, vars, SaveInput, ReadInput, Encrypt, OpenCiphertext,
                      WriteCiphertext, OpenTag, WriteTag, TearUnnoticed, EncryptionFails
<1>2. setting' = setting /\ read'[d] = read[d] /\ readTag'[d] = readTag[d]
  BY <1>1, ReadStays DEF CipherInv
<1> QED
  BY <1>1, <1>2 DEF Genuine, ValidTags, NoTagCompared

(* The output file changes only by a decryption that opens or writes it. *)
LEMMA OutputChanges ==
  ASSUME CipherInv, [Next]_vars, outFile' # outFile
  PROVE  \E d \in Decryptions :
           \/ OpenOutput(d)
           \/ HasOpenedOutput(d) /\ Decrypted(d) # Empty /\ outFile' \in {Decrypted(d), Torn}
<1>1. PICK d \in Decryptions :
        OpenOutput(d) \/ WriteOutput(d) \/ TearOutputUnnoticed(d) \/ DecryptionFails(d)
  BY DEF Next, vars, files, SaveInput, ReadInput, Encrypt, OpenCiphertext, WriteCiphertext,
         OpenTag, WriteTag, TearUnnoticed, EncryptionFails, ReadCiphertext, ReadTag,
         DecryptThrows, DecryptInvalid, DecryptValid
<1>2. CASE WriteOutput(d)
  BY <1>2 DEF WriteOutput, Written, MoveD, HasOpenedOutput
<1>3. CASE TearOutputUnnoticed(d) \/ DecryptionFails(d)
  BY <1>3 DEF TearOutputUnnoticed, DecryptionFails, CutShort, MoveD, HasOpenedOutput
<1> QED
  BY <1>1, <1>2, <1>3

(* Every step keeps the output file authentic. *)
LEMMA NextKeepsOutput ==
  ASSUME CipherInv, OutputFileIsAuthentic, [Next]_vars
  PROVE  OutputFileIsAuthentic'
<1>0. ASSUME NEW d \in Decryptions, HasOpenedOutput(d), Genuine(d)
      PROVE  /\ HasOpenedOutput(d)' /\ Genuine(d)' /\ epc[Undoes[d]] # "new"
             /\ epc'[Undoes[d]] # "new" /\ text'[Undoes[d]] = text[Undoes[d]]
             /\ Decrypted(d) = Plaintext(text[Undoes[d]])
  <2>1. Undoes[d] \in Encryptions /\ TypeOK
    BY UndoesTyped DEF CipherInv
  <2>2. epc[Undoes[d]] # "new" /\ Decrypted(d) = Plaintext(text[Undoes[d]])
    BY <1>0, GenuineIsOfText
  <2>3. epc'[Undoes[d]] # "new" /\ text'[Undoes[d]] = text[Undoes[d]]
    BY <2>1, <2>2, TextStays
  <2>4. HasOpenedOutput(d)' /\ Genuine(d)'
    BY <1>0, OpenedStaysAsItIs
  <2> QED
    BY <2>2, <2>3, <2>4
<1>1. CASE outFile' = outFile
  <2>1. outFile' # Earlier =>
          \E d \in Decryptions : HasOpenedOutput(d)' /\ (Genuine(d)' \/ NoTagCompared(d)')
    BY <1>1, OpenedStaysAsItIs DEF OutputFileIsAuthentic
  <2>2. outFile' \notin {Earlier, Empty} =>
          \E d \in Decryptions :
            /\ HasOpenedOutput(d)' /\ Genuine(d)' /\ epc'[Undoes[d]] # "new"
            /\ outFile' \in {Plaintext(text'[Undoes[d]]), Torn}
    BY <1>0, <1>1 DEF OutputFileIsAuthentic
  <2> QED
    BY <2>1, <2>2 DEF OutputFileIsAuthentic, Earlier, Empty, Torn, Plaintext
<1>2. CASE \E d \in Decryptions : OpenOutput(d)
  <2>1. PICK d \in Decryptions : OpenOutput(d)
    BY <1>2
  <2>2. outFile' = Empty /\ HasOpenedOutput(d)'
    BY <2>1 DEF OpenOutput, MoveD, CipherInv, TypeOK, HasOpenedOutput
  <2>3. TagValid(d)
    BY <2>1 DEF OpenOutput, MoveD, CipherInv, GoesOnWithValidTag
  <2>4. Genuine(d) \/ NoTagCompared(d)
    BY <2>3, OnlyEmptyCcmIsUnchecked DEF CipherInv, TagValid
  <2>5. Genuine(d)' \/ NoTagCompared(d)'
    BY <2>1, <2>4 DEF OpenOutput, Genuine, ValidTags, NoTagCompared
  <2> QED
    BY <2>2, <2>5 DEF OutputFileIsAuthentic, Empty
<1>3. CASE \E d \in Decryptions :
             HasOpenedOutput(d) /\ Decrypted(d) # Empty /\ outFile' \in {Decrypted(d), Torn}
  <2>1. PICK d \in Decryptions :
          HasOpenedOutput(d) /\ Decrypted(d) # Empty /\ outFile' \in {Decrypted(d), Torn}
    BY <1>3
  <2>2. Genuine(d)
    BY <2>1 DEF Decrypted
  <2>3. /\ HasOpenedOutput(d)' /\ Genuine(d)' /\ epc'[Undoes[d]] # "new"
        /\ outFile' \in {Plaintext(text'[Undoes[d]]), Torn}
    BY <1>0, <2>1, <2>2
  <2> QED
    BY <2>3 DEF OutputFileIsAuthentic, Torn, Plaintext
<1> QED
  BY <1>1, <1>2, <1>3, OutputChanges

(* For any number of runs, whatever they do to each other's files and wherever
   writes are cut short: the output file loses its earlier contents only to a
   decryption that read a pair of its encryption, or to one in CCM without a
   ciphertext, and the latter leaves nothing in it. *)
THEOREM OutputStaysAuthentic == Spec => []OutputFileIsAuthentic
<1>1. Init => OutputFileIsAuthentic
  BY DEF Init, OutputFileIsAuthentic
<1>2. CipherInv /\ OutputFileIsAuthentic /\ [Next]_vars => OutputFileIsAuthentic'
  BY NextKeepsOutput
<1> QED
  BY <1>1, <1>2, CipherInvHolds, PTL DEF Spec

-----------------------------------------------------------------------------
(* The round trip                                                            *)

(* While an encryption has the two files for itself nobody else writes to them. *)
OwnerIsAlone ==
  \A e \in Encryptions :
    owner = {e} => \A f \in Encryptions \ {e} : epc[f] \notin Writing

(* They hold what it has written so far. *)
FilesAreOwners ==
  \A e \in Encryptions :
    owner = {e} =>
      /\ epc[e] = "write" => cipherFile = Empty
      /\ epc[e] \in {"open tag", "write tag", "ok"} => cipherFile = Ciphertext(e, text[e])
      /\ epc[e] = "write tag" => tagFile = Empty
      /\ epc[e] = "ok" => tagFile = Tag(e, text[e])

(* A decryption that found the finished pair undisturbed has read that pair. *)
QuietReadsPair ==
  \A d \in quiet :
    LET e == Undoes[d]
    IN  /\ epc[e] = "ok" /\ dpc[d] # "new" /\ read[d] = Ciphertext(e, text[e])
        /\ dpc[d] = "read tag" => owner = {e}
        /\ dpc[d] = "decrypt" => readTag[d] = Tag(e, text[e])

RoundTripInv ==
  /\ TypeOK
  /\ OwnerIsAlone
  /\ FilesAreOwners
  /\ QuietReadsPair
  /\ RoundTrip

(* Such a pair is not refused. *)
LEMMA PairIsValid ==
  ASSUME RoundTripInv, NEW d \in quiet, dpc[d] = "decrypt"
  PROVE  /\ CallsAccepted(d) /\ TagValid(d)
         /\ \E e \in Encryptions, x \in Texts : readTag[d] = Tag(e, x)
<1>1. d \in Decryptions /\ Undoes[d] \in Encryptions
  BY UndoesTyped DEF RoundTripInv, TypeOK
<1>2. setting[Undoes[d]] \in Settings /\ text[Undoes[d]] \in Texts
  BY <1>1, ChosenTyped DEF RoundTripInv, TypeOK
<1>3. /\ read[d] = Ciphertext(Undoes[d], text[Undoes[d]])
      /\ readTag[d] = Tag(Undoes[d], text[Undoes[d]])
  BY DEF RoundTripInv, QuietReadsPair
<1>4. CallsAccepted(d)
  BY <1>2, DecryptCallsAccepted DEF CallsAccepted, CallsOf
<1>5. TagValid(d)
  BY <1>2, <1>3 DEF TagValid, Genuine, ValidTags
<1> QED
  BY <1>1, <1>2, <1>3, <1>4, <1>5

(* A step of an encryption keeps the pair whole. *)
LEMMA EncryptionKeepsPair ==
  ASSUME RoundTripInv, NEW f \in Encryptions,
         \/ ReadInput(f) \/ Encrypt(f) \/ OpenCiphertext(f) \/ WriteCiphertext(f)
         \/ OpenTag(f) \/ WriteTag(f) \/ TearUnnoticed(f) \/ EncryptionFails(f)
  PROVE  OwnerIsAlone' /\ FilesAreOwners' /\ QuietReadsPair' /\ RoundTrip'
<1> USE DEF RoundTripInv, TypeOK, Writing, Ended,
            OwnerIsAlone, FilesAreOwners, QuietReadsPair, RoundTrip
<1>0. \A d \in quiet : d \in Decryptions /\ Undoes[d] \in Encryptions
  BY UndoesTyped
<1>a. \A d \in quiet : epc[Undoes[d]] = "ok"
  OBVIOUS
<1>1. CASE ReadInput(f)
  BY <1>0, <1>1 DEF ReadInput, MoveE, files
<1>2. CASE Encrypt(f)
  BY <1>0, <1>2 DEF Encrypt, MoveE, files
<1>3. CASE OpenCiphertext(f)
  BY <1>0, <1>3 DEF OpenCiphertext, MoveE, files
<1>4. CASE WriteCiphertext(f)
  <2>1. /\ epc[f] \notin Ended
        /\ \A e \in Encryptions \ {f} : epc'[e] = epc[e]
        /\ UNCHANGED <<dpc, text, read, readTag, quiet, owner>>
    BY <1>4 DEF WriteCiphertext, MoveE
  <2>2. QuietReadsPair' /\ RoundTrip'
    BY <1>0, <1>a, <2>1
  <2>3. OwnerIsAlone'
    BY <1>4, <2>1 DEF WriteCiphertext, MoveE
  <2>4. FilesAreOwners'
    <3>1. epc[f] = "write" /\ epc'[f] = "open tag"
      BY <1>4 DEF WriteCiphertext, MoveE
    <3>2. \A e \in Encryptions : owner = {e} => e = f
      BY <3>1
    <3>3. owner = {f} => cipherFile' = Ciphertext(f, text[f])
      <4> SUFFICES ASSUME owner = {f} PROVE cipherFile' = Ciphertext(f, text[f])
        OBVIOUS
      <4>1. cipherFile = Empty
        BY <3>1
      <4>2. cipherFile' \in Written(cipherFile, Ciphertext(f, text[f]))
        BY <1>4 DEF WriteCiphertext
      <4>3. Written(cipherFile, Ciphertext(f, text[f])) = {Ciphertext(f, text[f])}
        BY <4>1, WrittenToEmpty
      <4> QED
        BY <4>2, <4>3
    <3>4. tagFile' = tagFile
      BY <1>4 DEF WriteCiphertext
    <3> QED
      BY <2>1, <3>1, <3>2, <3>3, <3>4
  <2> QED
    BY <2>2, <2>3, <2>4
<1>5. CASE OpenTag(f)
  <2>1. /\ epc[f] \notin Ended
        /\ \A e \in Encryptions \ {f} : epc'[e] = epc[e]
        /\ UNCHANGED <<dpc, text, read, readTag, quiet, owner>>
    BY <1>5 DEF OpenTag, MoveE
  <2>2. QuietReadsPair' /\ RoundTrip'
    BY <1>0, <1>a, <2>1
  <2>3. OwnerIsAlone'
    BY <1>5, <2>1 DEF OpenTag, MoveE
  <2>4. FilesAreOwners'
    <3>1. epc[f] = "open tag" /\ epc'[f] = "write tag"
      BY <1>5 DEF OpenTag, MoveE
    <3>2. \A e \in Encryptions : owner = {e} => e = f
      BY <3>1
    <3> QED
      BY <1>5, <2>1, <3>1, <3>2 DEF OpenTag
  <2> QED
    BY <2>2, <2>3, <2>4
<1>6. CASE WriteTag(f)
  <2>1. /\ epc[f] \notin Ended
        /\ \A e \in Encryptions \ {f} : epc'[e] = epc[e]
        /\ UNCHANGED <<dpc, text, read, readTag, quiet, owner>>
    BY <1>6 DEF WriteTag, MoveE
  <2>2. QuietReadsPair' /\ RoundTrip'
    BY <1>0, <1>a, <2>1
  <2>3. OwnerIsAlone'
    BY <1>6, <2>1 DEF WriteTag, MoveE
  <2>4. FilesAreOwners'
    <3>1. epc[f] = "write tag" /\ epc'[f] = "ok"
      BY <1>6 DEF WriteTag, MoveE
    <3>2. \A e \in Encryptions : owner = {e} => e = f
      BY <3>1
    <3>3. owner = {f} => tagFile' = Tag(f, text[f])
      <4> SUFFICES ASSUME owner = {f} PROVE tagFile' = Tag(f, text[f])
        OBVIOUS
      <4>1. tagFile = Empty
        BY <3>1
      <4>2. tagFile' \in Written(tagFile, Tag(f, text[f]))
        BY <1>6 DEF WriteTag
      <4>3. Written(tagFile, Tag(f, text[f])) = {Tag(f, text[f])}
        BY <4>1, WrittenToEmpty
      <4> QED
        BY <4>2, <4>3
    <3>4. cipherFile' = cipherFile
      BY <1>6 DEF WriteTag
    <3> QED
      BY <2>1, <3>1, <3>2, <3>3, <3>4
  <2> QED
    BY <2>2, <2>3, <2>4
<1>7. CASE TearUnnoticed(f)
  <2>1. OwnerIsAlone' /\ FilesAreOwners'
    BY <1>7 DEF TearUnnoticed
  <2>2. /\ epc[f] \in {"write", "write tag"}
        /\ \A e \in Encryptions \ {f} : epc'[e] = epc[e]
        /\ UNCHANGED <<dpc, text, read, readTag, quiet>>
    BY <1>7 DEF TearUnnoticed, MoveE
  <2>3. \A d \in quiet : Undoes[d] # f /\ dpc[d] # "read tag"
    BY <1>0, <2>2
  <2>4. QuietReadsPair' /\ RoundTrip'
    BY <1>0, <2>2, <2>3
  <2> QED
    BY <2>1, <2>4
<1>8. CASE EncryptionFails(f)
  <2>1. /\ epc[f] \notin Ended
        /\ \A e \in Encryptions \ {f} : epc'[e] = epc[e]
        /\ UNCHANGED <<dpc, text, read, readTag, quiet, owner>>
    BY <1>8 DEF EncryptionFails
  <2>2. QuietReadsPair' /\ RoundTrip'
    BY <1>0, <1>a, <2>1
  <2>3. OwnerIsAlone'
    BY <1>8, <2>1 DEF EncryptionFails
  <2>4. FilesAreOwners'
    <3>1. epc'[f] = "failed"
      BY <1>8 DEF EncryptionFails
    <3>2. CASE epc[f] \in {"write", "write tag"}
      <4>1. \A e \in Encryptions : owner = {e} => e = f
        BY <3>2
      <4> QED
        BY <2>1, <3>1, <4>1
    <3>3. CASE epc[f] \notin {"write", "write tag"}
      <4>1. UNCHANGED <<cipherFile, tagFile>>
        BY <1>8, <3>3 DEF EncryptionFails, CutShort
      <4> SUFFICES ASSUME NEW e \in Encryptions, owner = {e}
                   PROVE  /\ epc'[e] = "write" => cipherFile = Empty
                          /\ epc'[e] \in {"open tag", "write tag", "ok"}
                               => cipherFile = Ciphertext(e, text[e])
                          /\ epc'[e] = "write tag" => tagFile = Empty
                          /\ epc'[e] = "ok" => tagFile = Tag(e, text[e])
        BY <2>1, <4>1 DEF FilesAreOwners
      <4>2. CASE e = f
        BY <3>1, <4>2
      <4>3. CASE e # f
        BY <2>1, <4>3 DEF FilesAreOwners
      <4> QED
        BY <4>2, <4>3
    <3> QED
      BY <3>2, <3>3
  <2> QED
    BY <2>2, <2>3, <2>4
<1> QED
  BY <1>1, <1>2, <1>3, <1>4, <1>5, <1>6, <1>7, <1>8

(* So does a step of a decryption, which changes neither file. *)
LEMMA DecryptionKeepsPair ==
  ASSUME RoundTripInv, NEW c \in Decryptions,
         \/ ReadCiphertext(c) \/ ReadTag(c) \/ DecryptThrows(c) \/ DecryptInvalid(c)
         \/ DecryptValid(c) \/ OpenOutput(c) \/ WriteOutput(c) \/ TearOutputUnnoticed(c)
         \/ DecryptionFails(c)
  PROVE  OwnerIsAlone' /\ FilesAreOwners' /\ QuietReadsPair' /\ RoundTrip'
<1>0. \A d \in quiet : d \in Decryptions /\ Undoes[d] \in Encryptions
  BY UndoesTyped DEF RoundTripInv, TypeOK
<1>1. OwnerIsAlone' /\ FilesAreOwners'
  BY DEF RoundTripInv, OwnerIsAlone, FilesAreOwners, files, ReadCiphertext, ReadTag,
         DecryptThrows, DecryptInvalid, DecryptValid, OpenOutput, WriteOutput,
         TearOutputUnnoticed, DecryptionFails
<1>2. CASE ReadCiphertext(c)
  BY <1>0, <1>1, <1>2 DEF ReadCiphertext, MoveD, files, RoundTripInv, TypeOK, FilesAreOwners,
                          QuietReadsPair, RoundTrip
<1>3. CASE ReadTag(c)
  BY <1>0, <1>1, <1>3 DEF ReadTag, MoveD, files, RoundTripInv, TypeOK, FilesAreOwners,
                          QuietReadsPair, RoundTrip
<1>4. CASE DecryptThrows(c) \/ DecryptInvalid(c)
  <2>1. c \notin quiet
    BY <1>4, PairIsValid DEF DecryptThrows, DecryptInvalid, MoveD
  <2> QED
    BY <1>0, <1>1, <1>4, <2>1 DEF DecryptThrows, DecryptInvalid, MoveD, files, RoundTripInv,
                                  TypeOK, QuietReadsPair, RoundTrip
<1>5. CASE \/ DecryptValid(c) \/ OpenOutput(c) \/ WriteOutput(c) \/ TearOutputUnnoticed(c)
           \/ DecryptionFails(c)
  BY <1>0, <1>1, <1>5 DEF DecryptValid, OpenOutput, WriteOutput, TearOutputUnnoticed,
                          DecryptionFails, MoveD, files, RoundTripInv, TypeOK, QuietReadsPair,
                          RoundTrip
<1> QED
  BY <1>2, <1>3, <1>4, <1>5

(* The invariant is inductive. *)
LEMMA NextRoundTripInv == RoundTripInv /\ [Next]_vars => RoundTripInv'
<1> SUFFICES ASSUME RoundTripInv, [Next]_vars PROVE RoundTripInv'
  OBVIOUS
<1>1. TypeOK'
  BY NextKeepsTypes DEF RoundTripInv
<1>2. OwnerIsAlone' /\ FilesAreOwners' /\ QuietReadsPair' /\ RoundTrip'
  <2>1. CASE \E x \in Texts : SaveInput(x)
    BY <2>1 DEF SaveInput, RoundTripInv, OwnerIsAlone, FilesAreOwners, QuietReadsPair, RoundTrip
  <2>2. CASE UNCHANGED vars
    BY <2>2 DEF vars, RoundTripInv, OwnerIsAlone, FilesAreOwners, QuietReadsPair, RoundTrip
  <2> QED
    BY <2>1, <2>2, EncryptionKeepsPair, DecryptionKeepsPair DEF Next
<1> QED
  BY <1>1, <1>2 DEF RoundTripInv

(* A decryption that finds the finished pair of its encryption, made while nobody
   else wrote to the files, does not fail but for I/O: for every mode and option,
   any number of runs, and whatever they do before and after. *)
THEOREM RoundTripHolds == Spec => []RoundTrip
<1>1. Init => RoundTripInv
  <2>1. Init => TypeOK
    BY InitCipherInv DEF CipherInv
  <2> QED
    BY <2>1 DEF Init, RoundTripInv, OwnerIsAlone, FilesAreOwners, QuietReadsPair, RoundTrip
<1>2. RoundTripInv => RoundTrip
  BY DEF RoundTripInv
<1> QED
  BY <1>1, <1>2, NextRoundTripInv, PTL DEF Spec
=============================================================================
