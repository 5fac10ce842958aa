----------------------- MODULE DigestStreamingProofs -----------------------
(***************************************************************************)
(* Proofs about DigestStreaming, for every set of threads, addresses and   *)
(* chunks, any mix of styles and any number of chunks.                     *)
(***************************************************************************)
EXTENDS DigestStreaming, TLAPS, SequenceTheorems

(* A client that is feeding or finishing has the contexts it works on, an idle
   one has none. *)
Holding ==
  \A c \in Clients :
    /\ pc[c] \in {"feeding", "main", "main again"} => main[c] # NoHandle
    /\ pc[c] \in {"clone", "clone again"} => clone[c] # NoHandle
    /\ pc[c] = "idle" =>
         main[c] = NoHandle /\ clone[c] = NoHandle /\ wantMain[c] = <<>>

(* A context was fed what was meant for it, and a free address nothing. *)
Filled ==
  /\ \A h \in Handles \ allocated : fed[h] = <<>> /\ h \notin finished
  /\ \A c \in Clients :
       /\ main[c] # NoHandle => fed[main[c]] = wantMain[c]
       /\ clone[c] # NoHandle => fed[clone[c]] = wantClone[c]
       /\ Len(wantMain[c]) <= MaxChunks
       /\ Len(wantClone[c]) <= MaxChunks + 1
       /\ pc[c] \in {"idle", "feeding"} => Len(wantClone[c]) <= MaxChunks

(* A client that finishes a context once has not finished it yet. *)
Unfinished ==
  \A c \in Clients : Style[c] = "sized" =>
    /\ pc[c] \notin {"main again", "clone again"}
    /\ pc[c] \in {"feeding", "main"} => main[c] \notin finished
    /\ pc[c] \in {"feeding", "main", "clone"} => clone[c] \notin finished
    /\ right[c]

(* The text of a failed call stays the last error of its thread until it is
   reported. *)
ErrorsKept ==
  \A c \in Clients :
    /\ pc[c] = "error" => lastError[c] = failure[c]
    /\ pc[c] # "error" => told[c] = failure[c]

StreamInv == TypeOK /\ EveryContextHasOneOwner /\ Holding /\ Filled /\ Unfinished /\ ErrorsKept

-----------------------------------------------------------------------------

(* Chunks are the sequences of data of at most MaxChunks + 1 elements. *)
LEMMA ChunksAreSequences ==
  ASSUME NEW s
  PROVE  s \in Chunks <=> s \in Seq(Data) /\ Len(s) <= MaxChunks + 1
<1>1. ASSUME s \in Chunks PROVE s \in Seq(Data) /\ Len(s) <= MaxChunks + 1
  <2>1. PICK n \in 0..(MaxChunks + 1) : s \in [1..n -> Data]
    BY <1>1 DEF Chunks
  <2> QED
    BY <2>1, MaxChunksNatural
<1>2. ASSUME s \in Seq(Data), Len(s) <= MaxChunks + 1 PROVE s \in Chunks
  <2>1. Len(s) \in 0..(MaxChunks + 1) /\ s \in [1..Len(s) -> Data]
    BY <1>2, MaxChunksNatural
  <2> QED
    BY <2>1 DEF Chunks
<1> QED
  BY <1>1, <1>2

LEMMA NoChunks == <<>> \in Chunks /\ Len(<<>>) = 0
<1>1. <<>> \in Seq(Data) /\ Len(<<>>) = 0
  BY EmptySeq
<1>2. ASSUME NEW s \in Seq(Data), Len(s) = 0 PROVE s \in Chunks
  <2>1. Len(s) <= MaxChunks + 1
    BY <1>2, MaxChunksNatural
  <2> QED
    BY <1>2, <2>1, ChunksAreSequences
<1> QED
  BY <1>1, <1>2, Zenon

LEMMA AppendChunk ==
  ASSUME NEW s \in Chunks, NEW d \in Data, Len(s) <= MaxChunks
  PROVE  Append(s, d) \in Chunks /\ Len(Append(s, d)) = Len(s) + 1
<1>1. s \in Seq(Data)
  BY ChunksAreSequences
<1>2. Append(s, d) \in Seq(Data) /\ Len(Append(s, d)) = Len(s) + 1 /\ Len(s) \in Nat
  BY <1>1, LenProperties
<1>3. Len(Append(s, d)) <= MaxChunks + 1
  BY <1>2, MaxChunksNatural
<1> QED
  BY <1>2, <1>3, ChunksAreSequences

(* The numbers of chunks meant are natural numbers. *)
LEMMA Lengths ==
  ASSUME TypeOK, NEW c \in Clients
  PROVE  Len(wantMain[c]) \in Nat /\ Len(wantClone[c]) \in Nat
<1>1. wantMain[c] \in Seq(Data) /\ wantClone[c] \in Seq(Data)
  BY ChunksAreSequences DEF TypeOK
<1> QED
  BY <1>1, LenProperties

LEMMA InitStreamInv == Init => StreamInv
<1> SUFFICES ASSUME Init PROVE StreamInv
  OBVIOUS
<1>1. TypeOK
  BY NoChunks DEF Init, TypeOK, Texts
<1>2. EveryContextHasOneOwner /\ Holding /\ ErrorsKept
  BY NullIsNoHandle DEF Init, EveryContextHasOneOwner, Holds, Holding, ErrorsKept
<1>3. Filled
  <2>1. \A c \in Clients : wantMain[c] = <<>> /\ wantClone[c] = <<>>
    BY DEF Init
  <2>2. \A c \in Clients : Len(wantMain[c]) = 0 /\ Len(wantClone[c]) = 0
    BY <2>1, NoChunks, Zenon
  <2>3. \A c \in Clients : /\ Len(wantMain[c]) <= MaxChunks
                           /\ Len(wantClone[c]) <= MaxChunks
                           /\ Len(wantClone[c]) <= MaxChunks + 1
    BY <2>2, MaxChunksNatural
  <2>4. \A h \in Handles \ allocated : fed[h] = <<>> /\ h \notin finished
    BY Zenon DEF Init
  <2>5. \A c \in Clients : main[c] = NoHandle /\ clone[c] = NoHandle
    BY DEF Init
  <2> QED
    BY <2>3, <2>4, <2>5, Zenon DEF Filled
<1>4. Unfinished
  BY DEF Init, Unfinished
<1> QED
  BY <1>1, <1>2, <1>3, <1>4 DEF StreamInv

(* What the client of a step holds and means. *)
LEMMA Typed ==
  ASSUME TypeOK, NEW c \in Clients
  PROVE  /\ main[c] \in Handles \cup {NoHandle}
         /\ clone[c] \in Handles \cup {NoHandle}
         /\ wantMain[c] \in Chunks /\ wantClone[c] \in Chunks
         /\ \A h \in Handles : fed[h] \in Chunks
  BY DEF TypeOK

(* Every step keeps the state well typed. *)
LEMMA NextTypeOK == StreamInv /\ [Next]_vars => TypeOK'
<1> SUFFICES ASSUME StreamInv, [Next]_vars PROVE TypeOK'
  OBVIOUS
<1>a. TypeOK /\ Holding /\ Filled
  BY DEF StreamInv
<1>1. ASSUME NEW c \in Clients, New(c) PROVE TypeOK'
  <2>1. PICK h \in Handles : allocated' = allocated \cup {h} /\ main' = [main EXCEPT ![c] = h]
    BY <1>1 DEF New
  <2> QED
    BY <1>a, <1>1, <2>1 DEF New, Move, SetError, TypeOK, Texts, meant
<1>2. ASSUME NEW c \in Clients, NewThrows(c) \/ FinalRefused(c) \/ CallThrows(c) PROVE TypeOK'
  BY <1>a, <1>2 DEF NewThrows, FinalRefused, CallThrows, Throw, Move, SetError, TypeOK, Texts,
                    meant
<1>3. ASSUME NEW c \in Clients, NEW d \in Data, Update(c, d) PROVE TypeOK'
  <2>1. main[c] \in Handles /\ fed[main[c]] = wantMain[c]
    BY <1>a, <1>3, Typed DEF Update, Holding, Filled
  <2>2. Len(wantMain[c]) < MaxChunks
    BY <1>3 DEF Update
  <2>3. Len(wantMain[c]) <= MaxChunks
    BY <1>a, <2>2, Lengths, MaxChunksNatural
  <2>4. Append(wantMain[c], d) \in Chunks
    BY <1>a, <2>3, Typed, AppendChunk
  <2> DEFINE more == Append(wantMain[c], d)
  <2>5. /\ fed' = [fed EXCEPT ![main[c]] = more]
        /\ wantMain' = [wantMain EXCEPT ![c] = more]
    BY <1>3, <2>1 DEF Update
  <2>6. more \in Chunks
    BY <2>4
  <2> HIDE DEF more
  <2>7. fed' \in [Handles -> Chunks] /\ wantMain' \in [Clients -> Chunks]
    BY <1>a, <2>1, <2>5, <2>6 DEF TypeOK
  <2> QED
    BY <1>a, <1>3, <2>7 DEF Update, SetError, TypeOK, Texts
<1>4. ASSUME NEW c \in Clients, Copy(c) PROVE TypeOK'
  <2>1. PICK h \in Handles :
          /\ allocated' = allocated \cup {h}
          /\ clone' = [clone EXCEPT ![c] = h]
          /\ fed' = [fed EXCEPT ![h] = fed[main[c]]]
          /\ finished' = IF main[c] \in finished THEN finished \cup {h} ELSE finished \ {h}
    BY <1>4 DEF Copy
  <2>2. fed[main[c]] \in Chunks
    BY <1>a, <1>4, Typed DEF Copy, Holding
  <2>3. fed' \in [Handles -> Chunks] /\ finished' \subseteq Handles
    BY <1>a, <2>1, <2>2 DEF TypeOK
  <2>4. /\ wantClone' = [wantClone EXCEPT ![c] = wantMain[c]]
        /\ lastError' = [lastError EXCEPT ![c] = ""]
        /\ UNCHANGED <<wantMain, pc, main, told, failure, right>>
    BY <1>4 DEF Copy, SetError
  <2> QED
    BY <1>a, <2>1, <2>3, <2>4 DEF TypeOK, Texts
<1>5. ASSUME NEW c \in Clients, NEW d \in Data, UpdateClone(c, d) PROVE TypeOK'
  <2>1. clone[c] \in Handles /\ fed[clone[c]] = wantClone[c]
    BY <1>a, <1>5, Typed DEF UpdateClone, Filled
  <2>2. Len(wantClone[c]) <= MaxChunks
    BY <1>a, <1>5 DEF UpdateClone, Move, Filled
  <2> DEFINE more == Append(wantClone[c], d)
  <2>3. /\ fed' = [fed EXCEPT ![clone[c]] = more]
        /\ wantClone' = [wantClone EXCEPT ![c] = more]
    BY <1>5, <2>1 DEF UpdateClone
  <2>4. more \in Chunks
    BY <1>a, <2>2, Typed, AppendChunk
  <2> HIDE DEF more
  <2>5. fed' \in [Handles -> Chunks] /\ wantClone' \in [Clients -> Chunks]
    BY <1>a, <2>1, <2>3, <2>4 DEF TypeOK
  <2> QED
    BY <1>a, <1>5, <2>5 DEF UpdateClone, Move, SetError, TypeOK, Texts
<1>6. ASSUME NEW c \in Clients, EndFeeding(c) \/ Report(c) PROVE TypeOK'
  <2>1. pc' \in [Clients -> {"idle", "feeding", "main", "clone", "main again",
                             "clone again", "error", "free"}]
    BY <1>a, <1>6 DEF EndFeeding, Report, Move, TypeOK
  <2>2. told' \in [Clients -> Texts]
    BY <1>a, <1>6 DEF EndFeeding, Report, TypeOK
  <2> QED
    BY <1>a, <1>6, <2>1, <2>2 DEF EndFeeding, Report, TypeOK, meant
<1>7. ASSUME NEW c \in Clients, FinalDelivers(c) \/ FinalTooSmall(c) PROVE TypeOK'
  <2>1. Target(c) \in Handles
    BY <1>a, <1>7, Typed DEF FinalDelivers, FinalTooSmall, Target, OnMain, Holding, Move
  <2>2. right' \in [Clients -> BOOLEAN]
    BY <1>a, <1>7 DEF FinalDelivers, FinalTooSmall, TypeOK
  <2>3. pc' \in [Clients -> {"idle", "feeding", "main", "clone", "main again",
                             "clone again", "error", "free"}]
    BY <1>a, <1>7 DEF FinalDelivers, FinalTooSmall, Move, After, TypeOK
  <2>4. finished' \subseteq Handles /\ lastError' \in [Clients -> Texts]
    BY <1>a, <1>7, <2>1 DEF FinalDelivers, FinalTooSmall, SetError, TypeOK, Texts
  <2> QED
    BY <1>a, <1>7, <2>2, <2>3, <2>4 DEF FinalDelivers, FinalTooSmall, TypeOK, meant
<1>8. ASSUME NEW c \in Clients, FreeMain(c) \/ FreeClone(c) PROVE TypeOK'
  <2>1. fed' \in [Handles -> Chunks]
    BY <1>a, <1>8, NoChunks, Zenon DEF FreeMain, FreeClone, Delete, TypeOK
  <2> QED
    BY <1>a, <1>8, <2>1 DEF FreeMain, FreeClone, Delete, TypeOK, meant
<1>9. ASSUME NEW c \in Clients, Done(c) PROVE TypeOK'
  <2>1. wantMain' \in [Clients -> Chunks] /\ wantClone' \in [Clients -> Chunks]
    BY <1>a, <1>9, NoChunks, Zenon DEF Done, Forget, TypeOK
  <2> QED
    BY <1>a, <1>9, <2>1 DEF Done, Forget, Move, TypeOK, Texts
<1>10. CASE UNCHANGED vars
  BY <1>a, <1>10 DEF vars, TypeOK
<1> QED
  BY <1>1, <1>2, <1>3, <1>4, <1>5, <1>6, <1>7, <1>8, <1>9, <1>10 DEF Next

(* A context that comes or goes keeps one owner for every other. *)
LEMMA OwnerOfNew ==
  ASSUME EveryContextHasOneOwner, TypeOK, NEW c \in Clients, NEW h \in Handles \ allocated,
         allocated' = allocated \cup {h},
         \/ main[c] = NoHandle /\ main' = [main EXCEPT ![c] = h] /\ clone' = clone
         \/ clone[c] = NoHandle /\ clone' = [clone EXCEPT ![c] = h] /\ main' = main
  PROVE  EveryContextHasOneOwner'
<1>1. \A d \in Clients : ~Holds(d, h)
  BY DEF EveryContextHasOneOwner
<1>2. \A g \in Handles, d \in Clients : Holds(d, g)' <=> Holds(d, g) \/ (d = c /\ g = h)
  BY NullIsNoHandle DEF Holds, TypeOK
<1>3. \A g \in Handles, d \in Clients : main'[d] = g /\ clone'[d] = g => main[d] = g /\ clone[d] = g
  BY <1>1 DEF Holds, TypeOK
<1> QED
  BY <1>1, <1>2, <1>3 DEF EveryContextHasOneOwner

LEMMA OwnerOfFreed ==
  ASSUME EveryContextHasOneOwner, TypeOK, NEW c \in Clients, NEW h \in Handles,
         allocated' = allocated \ {h},
         \/ main[c] = h /\ main' = [main EXCEPT ![c] = NoHandle] /\ clone' = clone
         \/ clone[c] = h /\ clone' = [clone EXCEPT ![c] = NoHandle] /\ main' = main
  PROVE  EveryContextHasOneOwner'
<1>1. ~(main[c] = h /\ clone[c] = h) /\ \A d \in Clients : Holds(d, h) => d = c
  BY DEF EveryContextHasOneOwner, Holds
<1>2. \A g \in Handles, d \in Clients : Holds(d, g)' <=> Holds(d, g) /\ g # h
  <2>1. CASE main[c] = h /\ main' = [main EXCEPT ![c] = NoHandle] /\ clone' = clone
    BY <1>1, <2>1, NullIsNoHandle DEF Holds, TypeOK
  <2>2. CASE clone[c] = h /\ clone' = [clone EXCEPT ![c] = NoHandle] /\ main' = main
    BY <1>1, <2>2, NullIsNoHandle DEF Holds, TypeOK
  <2> QED
    BY <2>1, <2>2
<1>3. \A g \in Handles, d \in Clients : main'[d] = g /\ clone'[d] = g => main[d] = g /\ clone[d] = g
  BY NullIsNoHandle DEF TypeOK
<1> QED
  BY <1>2, <1>3 DEF EveryContextHasOneOwner

(* Every step keeps one owner for every context. *)
LEMMA NextOneOwner == StreamInv /\ [Next]_vars => EveryContextHasOneOwner'
<1> SUFFICES ASSUME StreamInv, [Next]_vars PROVE EveryContextHasOneOwner'
  OBVIOUS
<1>a. EveryContextHasOneOwner /\ TypeOK /\ Holding
  BY DEF StreamInv
<1>1. CASE UNCHANGED <<allocated, main, clone>>
  BY <1>a, <1>1 DEF EveryContextHasOneOwner, Holds
<1>2. ASSUME NEW c \in Clients, New(c) PROVE EveryContextHasOneOwner'
  <2>1. PICK h \in Handles \ allocated :
          allocated' = allocated \cup {h} /\ main' = [main EXCEPT ![c] = h] /\ clone' = clone
    BY <1>2 DEF New
  <2>2. main[c] = NoHandle
    BY <1>a, <1>2 DEF New, Move, Holding
  <2> QED
    BY <1>a, <2>1, <2>2, OwnerOfNew
<1>3. ASSUME NEW c \in Clients, Copy(c) PROVE EveryContextHasOneOwner'
  <2>1. PICK h \in Handles \ allocated :
          allocated' = allocated \cup {h} /\ clone' = [clone EXCEPT ![c] = h] /\ main' = main
    BY <1>3 DEF Copy
  <2>2. clone[c] = NoHandle
    BY <1>3 DEF Copy
  <2> QED
    BY <1>a, <2>1, <2>2, OwnerOfNew
<1>4. ASSUME NEW c \in Clients, FreeMain(c) PROVE EveryContextHasOneOwner'
  <2>1. main[c] \in Handles
    BY <1>a, <1>4, Typed DEF FreeMain
  <2> QED
    BY <1>a, <1>4, <2>1, OwnerOfFreed DEF FreeMain, Delete
<1>5. ASSUME NEW c \in Clients, FreeClone(c) PROVE EveryContextHasOneOwner'
  <2>1. clone[c] \in Handles
    BY <1>a, <1>5, Typed DEF FreeClone
  <2> QED
    BY <1>a, <1>5, <2>1, OwnerOfFreed DEF FreeClone, Delete
<1>6. ASSUME NEW c \in Clients,
             \/ NewThrows(c) \/ EndFeeding(c) \/ FinalDelivers(c) \/ FinalTooSmall(c)
             \/ FinalRefused(c) \/ CallThrows(c) \/ Report(c) \/ Done(c)
             \/ \E d \in Data : Update(c, d) \/ UpdateClone(c, d)
      PROVE  UNCHANGED <<allocated, main, clone>>
  BY <1>6 DEF NewThrows, Throw, Update, UpdateClone, EndFeeding, FinalDelivers,
      FinalTooSmall, FinalRefused, CallThrows, Report, Done, Forget
<1> QED
  BY <1>1, <1>2, <1>3, <1>4, <1>5, <1>6 DEF Next, vars

(* Every step leaves a client what it works on. *)
LEMMA NextHolding == StreamInv /\ [Next]_vars => Holding'
<1> SUFFICES ASSUME StreamInv, [Next]_vars, NEW d \in Clients
             PROVE  /\ pc'[d] \in {"feeding", "main", "main again"} => main'[d] # NoHandle
                    /\ pc'[d] \in {"clone", "clone again"} => clone'[d] # NoHandle
                    /\ pc'[d] = "idle" =>
                         main'[d] = NoHandle /\ clone'[d] = NoHandle /\ wantMain'[d] = <<>>
  BY DEF Holding
<1> DEFINE Goal == /\ pc'[d] \in {"feeding", "main", "main again"} => main'[d] # NoHandle
                   /\ pc'[d] \in {"clone", "clone again"} => clone'[d] # NoHandle
                   /\ pc'[d] = "idle" =>
                        main'[d] = NoHandle /\ clone'[d] = NoHandle /\ wantMain'[d] = <<>>
<1>a. TypeOK /\ Holding
  BY DEF StreamInv
<1>1. ASSUME UNCHANGED <<pc, main, clone, wantMain>> PROVE Goal
  BY <1>a, <1>1 DEF Holding
<1>2. ASSUME NEW c \in Clients, New(c) PROVE Goal
  <2>1. PICK h \in Handles : main' = [main EXCEPT ![c] = h]
    BY <1>2 DEF New
  <2> QED
    BY <1>a, <1>2, <2>1, NullIsNoHandle DEF New, Move, Holding, TypeOK, meant
<1>3. ASSUME NEW c \in Clients, NewThrows(c) \/ FinalRefused(c) \/ CallThrows(c) PROVE Goal
  BY <1>a, <1>3 DEF NewThrows, FinalRefused, CallThrows, Throw, Move, Holding, TypeOK, meant
<1>4. ASSUME NEW c \in Clients, NEW x \in Data, Update(c, x) PROVE Goal
  <2>1. pc[c] = "feeding" /\ UNCHANGED <<pc, main, clone>> /\ (d # c => wantMain'[d] = wantMain[d])
    BY <1>a, <1>4 DEF Update, TypeOK
  <2> QED
    BY <1>a, <2>1 DEF Holding
<1>5. ASSUME NEW c \in Clients, Copy(c) PROVE Goal
  <2>1. PICK h \in Handles : clone' = [clone EXCEPT ![c] = h]
    BY <1>5 DEF Copy
  <2>2. pc[c] = "feeding" /\ UNCHANGED <<pc, main, wantMain>>
    BY <1>5 DEF Copy
  <2> QED
    BY <1>a, <2>1, <2>2, NullIsNoHandle DEF Holding, TypeOK
<1>6. ASSUME NEW c \in Clients,
             EndFeeding(c) \/ Report(c) \/ \E x \in Data : UpdateClone(c, x)
      PROVE  Goal
  <2>1. /\ UNCHANGED <<main, clone, wantMain>>
        /\ \/ Move(c, "feeding", "main")
           \/ Move(c, "error", "free")
    BY <1>6 DEF EndFeeding, Report, UpdateClone, meant
  <2> QED
    BY <1>a, <2>1 DEF Move, Holding, TypeOK
<1>7. ASSUME NEW c \in Clients, FinalDelivers(c) PROVE Goal
  BY <1>a, <1>7 DEF FinalDelivers, After, OnMain, Holding, TypeOK, meant
<1>8. ASSUME NEW c \in Clients, FinalTooSmall(c) PROVE Goal
  BY <1>a, <1>8 DEF FinalTooSmall, Move, Holding, TypeOK, meant
<1>9. ASSUME NEW c \in Clients, FreeMain(c) \/ FreeClone(c) PROVE Goal
  BY <1>a, <1>9 DEF FreeMain, FreeClone, Holding, TypeOK, meant
<1>10. ASSUME NEW c \in Clients, Done(c) PROVE Goal
  <2>1. d # c => wantMain'[d] = wantMain[d] /\ pc'[d] = pc[d]
    BY <1>a, <1>10 DEF Done, Forget, Move, TypeOK
  <2>2. wantMain'[c] = <<>> /\ pc'[c] = "idle"
    BY <1>a, <1>10, Zenon DEF Done, Forget, Move, TypeOK
  <2>3. main[c] = NoHandle /\ clone[c] = NoHandle /\ UNCHANGED <<main, clone>>
    BY <1>10 DEF Done
  <2> QED
    BY <1>a, <2>1, <2>2, <2>3 DEF Holding
<1> QED
  BY <1>1, <1>2, <1>3, <1>4, <1>5, <1>6, <1>7, <1>8, <1>9, <1>10 DEF Next, vars

(* Every step keeps the error of a failed call until it is reported. *)
LEMMA NextErrorsKept == StreamInv /\ [Next]_vars => ErrorsKept'
<1> SUFFICES ASSUME StreamInv, [Next]_vars PROVE ErrorsKept'
  OBVIOUS
<1>a. TypeOK /\ ErrorsKept
  BY DEF StreamInv
<1>1. ASSUME NEW c \in Clients, pc[c] # "error", pc'[c] # "error",
             \A d \in Clients : d # c => pc'[d] = pc[d] /\ lastError'[d] = lastError[d],
             UNCHANGED <<told, failure>>
      PROVE  ErrorsKept'
  BY <1>a, <1>1 DEF ErrorsKept
<1>2. ASSUME NEW c \in Clients, New(c) PROVE ErrorsKept'
  BY <1>a, <1>1, <1>2 DEF New, Move, SetError, TypeOK
<1>3. ASSUME NEW c \in Clients, NewThrows(c) \/ FinalRefused(c) \/ CallThrows(c)
      PROVE  ErrorsKept'
  <2>1. PICK text : Throw(c, text)
    BY <1>3 DEF NewThrows, FinalRefused, CallThrows
  <2>2. pc' = [pc EXCEPT ![c] = "error"] /\ pc[c] # "error"
    BY <1>3 DEF NewThrows, FinalRefused, CallThrows, Move
  <2> QED
    BY <1>a, <2>1, <2>2 DEF Throw, SetError, ErrorsKept, TypeOK
<1>4. ASSUME NEW c \in Clients,
             Copy(c) \/ \E x \in Data : Update(c, x) \/ UpdateClone(c, x)
      PROVE  ErrorsKept'
  <2>1. /\ pc[c] = "feeding" /\ (pc' = pc \/ pc' = [pc EXCEPT ![c] = "main"])
        /\ lastError' = [lastError EXCEPT ![c] = ""]
        /\ UNCHANGED <<told, failure>>
    BY <1>4 DEF Copy, Update, UpdateClone, Move, SetError
  <2> QED
    BY <1>a, <1>1, <2>1 DEF TypeOK
<1>5. ASSUME NEW c \in Clients, EndFeeding(c) PROVE ErrorsKept'
  BY <1>a, <1>1, <1>5 DEF EndFeeding, Move, TypeOK
<1>6. ASSUME NEW c \in Clients, FinalDelivers(c) \/ FinalTooSmall(c) PROVE ErrorsKept'
  <2>1. /\ pc[c] \in {"main", "clone", "main again", "clone again"}
        /\ lastError' = [lastError EXCEPT ![c] = lastError'[c]]
        /\ UNCHANGED <<told, failure>>
    BY <1>a, <1>6 DEF FinalDelivers, FinalTooSmall, Move, SetError, TypeOK
  <2>2. \E next \in {"clone", "free", "main again", "clone again"} : pc' = [pc EXCEPT ![c] = next]
    BY <1>6 DEF FinalDelivers, FinalTooSmall, After, Move
  <2> QED
    BY <1>a, <1>1, <2>1, <2>2 DEF TypeOK
<1>7. ASSUME NEW c \in Clients, Report(c) PROVE ErrorsKept'
  BY <1>a, <1>7 DEF Report, Move, ErrorsKept, TypeOK
<1>8. ASSUME NEW c \in Clients, FreeMain(c) \/ FreeClone(c) PROVE ErrorsKept'
  BY <1>a, <1>8 DEF FreeMain, FreeClone, ErrorsKept, TypeOK
<1>9. ASSUME NEW c \in Clients, Done(c) PROVE ErrorsKept'
  BY <1>a, <1>9 DEF Done, Forget, Move, ErrorsKept, TypeOK
<1>10. CASE UNCHANGED vars
  BY <1>a, <1>10 DEF vars, ErrorsKept
<1> QED
  BY <1>2, <1>3, <1>4, <1>5, <1>6, <1>7, <1>8, <1>9, <1>10 DEF Next

(* No client holds a context of another, nor one that does not exist. *)
LEMMA Apart ==
  ASSUME EveryContextHasOneOwner, TypeOK, NEW c \in Clients
  PROVE  /\ \A h \in Handles \ allocated : main[c] # h /\ clone[c] # h
         /\ \A d \in Clients \ {c} :
              /\ main[c] # NoHandle => main[c] # main[d] /\ main[c] # clone[d]
              /\ clone[c] # NoHandle => clone[c] # main[d] /\ clone[c] # clone[d]
         /\ main[c] # NoHandle => main[c] # clone[c]
  BY DEF EveryContextHasOneOwner, Holds, TypeOK

(* Every step keeps the free addresses empty. *)
LEMMA NextFreeEmpty ==
  ASSUME StreamInv, [Next]_vars, NEW h \in Handles \ allocated'
  PROVE  fed'[h] = <<>> /\ h \notin finished'
<1>a. TypeOK /\ Holding /\ Filled /\ EveryContextHasOneOwner
  BY DEF StreamInv
<1>1. CASE UNCHANGED <<allocated, fed, finished>>
  BY <1>a, <1>1, Zenon DEF Filled
<1>2. ASSUME NEW c \in Clients, New(c) PROVE fed'[h] = <<>> /\ h \notin finished'
  BY <1>a, <1>2, Zenon DEF New, Filled
<1>3. ASSUME NEW c \in Clients, Copy(c) PROVE fed'[h] = <<>> /\ h \notin finished'
  <2>1. PICK g \in Handles \ allocated :
          /\ allocated' = allocated \cup {g}
          /\ fed' = [fed EXCEPT ![g] = fed[main[c]]]
          /\ finished' = IF main[c] \in finished THEN finished \cup {g} ELSE finished \ {g}
    BY <1>3 DEF Copy
  <2>2. h # g /\ h \notin allocated
    BY <2>1
  <2>3. fed'[h] = fed[h] /\ (h \in finished' => h \in finished)
    BY <1>a, <2>1, <2>2 DEF TypeOK
  <2> QED
    BY <1>a, <2>2, <2>3, Zenon DEF Filled
<1>4. ASSUME NEW c \in Clients, NEW g \in Handles, g \in allocated, fed' = [fed EXCEPT ![g] = fed'[g]],
             allocated' = allocated, finished' \subseteq finished \cup {g}
      PROVE  fed'[h] = <<>> /\ h \notin finished'
  <2>1. h # g /\ h \notin allocated /\ fed'[h] = fed[h]
    BY <1>a, <1>4 DEF TypeOK
  <2> QED
    BY <1>a, <1>4, <2>1 DEF Filled
<1>5. ASSUME NEW c \in Clients, NEW x \in Data, Update(c, x)
      PROVE  fed'[h] = <<>> /\ h \notin finished'
  <2>1. main[c] \in Handles /\ main[c] \in allocated
    BY <1>a, <1>5, Typed DEF Update, Holding, EveryContextHasOneOwner, Holds
  <2>2. fed' = [fed EXCEPT ![main[c]] = fed'[main[c]]] /\ allocated' = allocated /\ finished' = finished
    BY <1>a, <1>5, <2>1 DEF Update, TypeOK
  <2> QED
    BY <1>4, <2>1, <2>2
<1>6. ASSUME NEW c \in Clients, NEW x \in Data, UpdateClone(c, x)
      PROVE  fed'[h] = <<>> /\ h \notin finished'
  <2>1. clone[c] \in Handles /\ clone[c] \in allocated
    BY <1>a, <1>6, Typed DEF UpdateClone, EveryContextHasOneOwner, Holds
  <2>2. fed' = [fed EXCEPT ![clone[c]] = fed'[clone[c]]] /\ allocated' = allocated /\ finished' = finished
    BY <1>a, <1>6, <2>1 DEF UpdateClone, TypeOK
  <2> QED
    BY <1>4, <2>1, <2>2
<1>7. ASSUME NEW c \in Clients, FinalDelivers(c) \/ FinalTooSmall(c)
      PROVE  fed'[h] = <<>> /\ h \notin finished'
  <2>1. Target(c) \in Handles /\ Target(c) \in allocated
    BY <1>a, <1>7, Typed
    DEF FinalDelivers, FinalTooSmall, Target, OnMain, Holding, Move, EveryContextHasOneOwner, Holds
  <2>2. UNCHANGED <<allocated, fed>> /\ finished' = finished \cup {Target(c)}
    BY <1>7 DEF FinalDelivers, FinalTooSmall
  <2> QED
    BY <1>a, <2>1, <2>2 DEF Filled
<1>8. ASSUME NEW c \in Clients, NEW g \in Handles, Delete(g)
      PROVE  fed'[h] = <<>> /\ h \notin finished'
  <2>1. CASE h = g
    <3>1. fed'[h] = <<>>
      BY <1>a, <1>8, <2>1, Zenon DEF Delete, TypeOK
    <3> QED
      BY <1>8, <2>1, <3>1 DEF Delete
  <2>2. CASE h # g
    <3>1. fed'[h] = fed[h] /\ h \notin allocated
      BY <1>a, <1>8, <2>2 DEF Delete, TypeOK
    <3> QED
      BY <1>a, <1>8, <3>1 DEF Delete, Filled
  <2> QED
    BY <2>1, <2>2
<1>9. ASSUME NEW c \in Clients, FreeMain(c) \/ FreeClone(c)
      PROVE  fed'[h] = <<>> /\ h \notin finished'
  BY <1>a, <1>8, <1>9, Typed DEF FreeMain, FreeClone
<1>10. ASSUME NEW c \in Clients,
              \/ NewThrows(c) \/ EndFeeding(c) \/ FinalRefused(c) \/ CallThrows(c)
              \/ Report(c) \/ Done(c)
       PROVE  UNCHANGED <<allocated, fed, finished>>
  BY <1>10 DEF NewThrows, Throw, EndFeeding, FinalRefused, CallThrows, Report, Done
<1> QED
  BY <1>1, <1>2, <1>3, <1>5, <1>6, <1>7, <1>9, <1>10 DEF Next, vars

(* Every step keeps what the contexts of a client were fed what it meant. *)
LEMMA NextMeant ==
  ASSUME StreamInv, [Next]_vars, NEW d \in Clients
  PROVE  /\ main'[d] # NoHandle => fed'[main'[d]] = wantMain'[d]
         /\ clone'[d] # NoHandle => fed'[clone'[d]] = wantClone'[d]
         /\ Len(wantMain'[d]) <= MaxChunks
         /\ Len(wantClone'[d]) <= MaxChunks + 1
         /\ pc'[d] \in {"idle", "feeding"} => Len(wantClone'[d]) <= MaxChunks
<1> DEFINE Fed == /\ main'[d] # NoHandle => fed'[main'[d]] = wantMain'[d]
                  /\ clone'[d] # NoHandle => fed'[clone'[d]] = wantClone'[d]
           Short == /\ Len(wantMain'[d]) <= MaxChunks
                    /\ Len(wantClone'[d]) <= MaxChunks + 1
                    /\ pc'[d] \in {"idle", "feeding"} => Len(wantClone'[d]) <= MaxChunks
<1>a. TypeOK /\ Holding /\ Filled /\ EveryContextHasOneOwner
  BY DEF StreamInv
<1>1. ASSUME UNCHANGED <<main, clone, fed, meant>>, pc'[d] \in {"idle", "feeding"} => pc'[d] = pc[d]
      PROVE  Fed /\ Short
  BY <1>a, <1>1 DEF Filled, meant
<1>2. ASSUME NEW c \in Clients, New(c) PROVE Fed /\ Short
  <2>1. PICK h \in Handles \ allocated :
          main' = [main EXCEPT ![c] = h] /\ UNCHANGED <<clone, fed, meant>>
    BY <1>2 DEF New
  <2>2. fed[h] = <<>> /\ wantMain[c] = <<>> /\ clone[c] = NoHandle
    BY <1>a, <1>2 DEF New, Move, Holding, Filled
  <2>3. Fed
    <3>1. fed[h] = wantMain[c]
      BY <2>2, Zenon
    <3> QED
      BY <1>a, <2>1, <2>2, <3>1 DEF Filled, meant, TypeOK
  <2>4. Len(wantClone[c]) <= MaxChunks
    BY <1>a, <1>2 DEF New, Move, Filled, Holding
  <2>5. Short
    BY <1>a, <1>2, <2>1, <2>4 DEF New, Move, Filled, meant, TypeOK
  <2> QED
    BY <2>3, <2>5
<1>3. ASSUME NEW c \in Clients,
             \/ NewThrows(c) \/ EndFeeding(c) \/ FinalDelivers(c) \/ FinalTooSmall(c)
             \/ FinalRefused(c) \/ CallThrows(c) \/ Report(c)
      PROVE  Fed /\ Short
  <2>1. UNCHANGED <<main, clone, fed, meant>>
    BY <1>3 DEF NewThrows, Throw, EndFeeding, FinalDelivers, FinalTooSmall, FinalRefused,
                CallThrows, Report
  <2>2. \E next \in {"error", "main", "clone", "free", "main again", "clone again"} :
          pc' = [pc EXCEPT ![c] = next]
    BY <1>3 DEF NewThrows, EndFeeding, FinalDelivers, FinalTooSmall, FinalRefused,
                CallThrows, Report, Move, After
  <2> QED
    BY <1>a, <1>1, <2>1, <2>2 DEF TypeOK
<1>4. ASSUME NEW c \in Clients, NEW x \in Data, Update(c, x) PROVE Fed /\ Short
  <2>1. /\ pc[c] = "feeding" /\ UNCHANGED <<pc, main, clone, wantClone>>
        /\ main[c] \in Handles /\ main[c] # NoHandle /\ fed[main[c]] = wantMain[c]
        /\ Len(wantMain[c]) < MaxChunks
    BY <1>a, <1>4, Typed DEF Update, Holding, Filled
  <2> DEFINE more == Append(wantMain[c], x)
  <2>2. fed' = [fed EXCEPT ![main[c]] = more] /\ wantMain' = [wantMain EXCEPT ![c] = more]
    BY <1>4, <2>1 DEF Update
  <2>3. Len(wantMain[c]) \in Nat
    BY <1>a, Lengths
  <2>4. Len(wantMain[c]) <= MaxChunks
    BY <2>1, <2>3, MaxChunksNatural
  <2>5. Len(more) = Len(wantMain[c]) + 1
    BY <1>a, <2>4, Typed, AppendChunk
  <2>6. Len(more) <= MaxChunks
    BY <2>1, <2>3, <2>5, MaxChunksNatural
  <2> HIDE DEF more
  <2>7. Fed
    <3>1. /\ \A k \in Handles : fed'[k] = IF k = main[c] THEN more ELSE fed[k]
          /\ wantMain'[d] = IF d = c THEN more ELSE wantMain[d]
          /\ UNCHANGED <<main, clone, wantClone>>
      BY <1>a, <2>1, <2>2 DEF TypeOK
    <3>2. /\ main[d] # NoHandle => main[d] \in Handles /\ fed[main[d]] = wantMain[d]
          /\ clone[d] # NoHandle => clone[d] \in Handles /\ fed[clone[d]] = wantClone[d]
      BY <1>a DEF Filled, TypeOK
    <3>3. /\ d # c => main[d] # main[c]
          /\ clone[d] # main[c]
      BY <1>a, <2>1, Apart
    <3> QED
      BY <3>1, <3>2, <3>3
  <2>8. Short
    BY <1>a, <2>1, <2>2, <2>6 DEF Filled, TypeOK
  <2> QED
    BY <2>7, <2>8
<1>5. ASSUME NEW c \in Clients, NEW x \in Data, UpdateClone(c, x) PROVE Fed /\ Short
  <2>1. /\ pc[c] = "feeding" /\ pc' = [pc EXCEPT ![c] = "main"]
        /\ UNCHANGED <<main, clone, wantMain>>
        /\ clone[c] \in Handles /\ clone[c] # NoHandle /\ fed[clone[c]] = wantClone[c]
        /\ Len(wantClone[c]) <= MaxChunks
    BY <1>a, <1>5, Typed DEF UpdateClone, Move, Filled
  <2> DEFINE more == Append(wantClone[c], x)
  <2>2. fed' = [fed EXCEPT ![clone[c]] = more] /\ wantClone' = [wantClone EXCEPT ![c] = more]
    BY <1>5, <2>1 DEF UpdateClone
  <2>3. Len(wantClone[c]) \in Nat
    BY <1>a, Lengths
  <2>4. Len(more) = Len(wantClone[c]) + 1
    BY <1>a, <2>1, Typed, AppendChunk
  <2>5. Len(more) <= MaxChunks + 1
    BY <2>1, <2>3, <2>4, MaxChunksNatural
  <2> HIDE DEF more
  <2>6. Fed
    <3>1. /\ \A k \in Handles : fed'[k] = IF k = clone[c] THEN more ELSE fed[k]
          /\ wantClone'[d] = IF d = c THEN more ELSE wantClone[d]
          /\ UNCHANGED <<main, clone, wantMain>>
      BY <1>a, <2>1, <2>2 DEF TypeOK
    <3>2. /\ main[d] # NoHandle => main[d] \in Handles /\ fed[main[d]] = wantMain[d]
          /\ clone[d] # NoHandle => clone[d] \in Handles /\ fed[clone[d]] = wantClone[d]
      BY <1>a DEF Filled, TypeOK
    <3>3. /\ d # c => clone[d] # clone[c]
          /\ main[d] # clone[c]
      BY <1>a, <2>1, Apart
    <3> QED
      BY <3>1, <3>2, <3>3
  <2>7. Short
    BY <1>a, <2>1, <2>2, <2>5 DEF Filled, TypeOK
  <2> QED
    BY <2>6, <2>7
<1>6. ASSUME NEW c \in Clients, Copy(c) PROVE Fed /\ Short
  <2>1. PICK h \in Handles \ allocated :
          /\ fed' = [fed EXCEPT ![h] = fed[main[c]]]
          /\ clone' = [clone EXCEPT ![c] = h]
    BY <1>6 DEF Copy
  <2>2. /\ pc[c] = "feeding" /\ UNCHANGED <<pc, main, wantMain>>
        /\ wantClone' = [wantClone EXCEPT ![c] = wantMain[c]]
    BY <1>6 DEF Copy
  <2>3. fed[main[c]] = wantMain[c] /\ Len(wantMain[c]) <= MaxChunks /\ Len(wantMain[c]) \in Nat
    BY <1>a, <2>2, Lengths DEF Holding, Filled
  <2>4. Len(wantMain[c]) <= MaxChunks + 1
    BY <2>3, MaxChunksNatural
  <2>5. main[d] # h /\ clone[d] # h
    BY <1>a, <2>1, Apart
  <2>6. Fed
    <3>1. /\ \A k \in Handles : fed'[k] = IF k = h THEN fed[main[c]] ELSE fed[k]
          /\ clone'[d] = IF d = c THEN h ELSE clone[d]
          /\ wantClone'[d] = IF d = c THEN wantMain[c] ELSE wantClone[d]
          /\ main'[d] = main[d] /\ wantMain'[d] = wantMain[d]
      BY <1>a, <2>1, <2>2 DEF TypeOK
    <3>2. main[d] # NoHandle => main[d] \in Handles /\ fed[main[d]] = wantMain[d]
      BY <1>a DEF Filled, TypeOK
    <3>3. clone[d] # NoHandle => clone[d] \in Handles /\ fed[clone[d]] = wantClone[d]
      BY <1>a DEF Filled, TypeOK
    <3> QED
      BY <2>3, <2>5, <3>1, <3>2, <3>3
  <2>7. Short
    BY <1>a, <2>2, <2>3, <2>4 DEF Filled, TypeOK
  <2> QED
    BY <2>6, <2>7
<1>7. ASSUME NEW c \in Clients, FreeMain(c) \/ FreeClone(c) PROVE Fed /\ Short
  <2>1. UNCHANGED <<pc, meant>>
    BY <1>7 DEF FreeMain, FreeClone
  <2>2. Short
    BY <1>a, <2>1 DEF Filled, meant
  <2>3. CASE FreeMain(c)
    <3>1. /\ main[c] # NoHandle /\ main' = [main EXCEPT ![c] = NoHandle] /\ clone' = clone
          /\ \A h \in Handles : h # main[c] => fed'[h] = fed[h]
      BY <1>a, <2>3, Typed DEF FreeMain, Delete, TypeOK
    <3>2. /\ main'[d] # NoHandle => main'[d] = main[d] /\ main[d] # main[c]
          /\ clone[d] # NoHandle => clone[d] # main[c]
      BY <1>a, <3>1, Apart DEF TypeOK
    <3> QED
      BY <1>a, <2>1, <2>2, <3>1, <3>2, Typed DEF Filled, meant
  <2>4. CASE FreeClone(c)
    <3>1. /\ clone[c] # NoHandle /\ clone' = [clone EXCEPT ![c] = NoHandle] /\ main' = main
          /\ \A h \in Handles : h # clone[c] => fed'[h] = fed[h]
      BY <1>a, <2>4, Typed DEF FreeClone, Delete, TypeOK
    <3>2. /\ clone'[d] # NoHandle => clone'[d] = clone[d] /\ clone[d] # clone[c]
          /\ main[d] # NoHandle => main[d] # clone[c]
      BY <1>a, <3>1, Apart DEF TypeOK
    <3> QED
      BY <1>a, <2>1, <2>2, <3>1, <3>2, Typed DEF Filled, meant
  <2> QED
    BY <1>7, <2>3, <2>4
<1>8. ASSUME NEW c \in Clients, Done(c) PROVE Fed /\ Short
  <2>1. /\ main[c] = NoHandle /\ clone[c] = NoHandle /\ UNCHANGED <<main, clone, fed>>
        /\ pc' = [pc EXCEPT ![c] = "idle"]
    BY <1>8 DEF Done, Move
  <2>2. d # c => wantMain'[d] = wantMain[d] /\ wantClone'[d] = wantClone[d]
    BY <1>a, <1>8 DEF Done, Forget, TypeOK
  <2>3. d = c => wantMain'[d] = <<>> /\ wantClone'[d] = <<>>
    BY <1>a, <1>8, Zenon DEF Done, Forget, TypeOK
  <2>4. d = c => Len(wantMain'[d]) = 0 /\ Len(wantClone'[d]) = 0
    BY <2>3, NoChunks, Zenon
  <2>5. d = c => Short
    BY <2>4, MaxChunksNatural
  <2>6. Fed
    BY <1>a, <2>1, <2>2 DEF Filled
  <2>7. d # c => Short
    BY <1>a, <2>1, <2>2 DEF Filled, TypeOK
  <2> QED
    BY <2>5, <2>6, <2>7
<1> QED
  BY <1>1, <1>2, <1>3, <1>4, <1>5, <1>6, <1>7, <1>8 DEF Next, vars, meant

LEMMA NextFilled == StreamInv /\ [Next]_vars => Filled'
  BY NextFreeEmpty, NextMeant DEF Filled

(* Every step keeps the contexts that are still to be finished unfinished. *)
LEMMA NextUnfinished == StreamInv /\ [Next]_vars => Unfinished'
<1> SUFFICES ASSUME StreamInv, [Next]_vars, NEW d \in Clients, Style[d] = "sized"
             PROVE  /\ pc'[d] \notin {"main again", "clone again"}
                    /\ pc'[d] \in {"feeding", "main"} => main'[d] \notin finished'
                    /\ pc'[d] \in {"feeding", "main", "clone"} => clone'[d] \notin finished'
                    /\ right'[d]
  BY DEF Unfinished
<1> DEFINE Goal == /\ pc'[d] \notin {"main again", "clone again"}
                   /\ pc'[d] \in {"feeding", "main"} => main'[d] \notin finished'
                   /\ pc'[d] \in {"feeding", "main", "clone"} => clone'[d] \notin finished'
                   /\ right'[d]
<1>a. TypeOK /\ Holding /\ Filled /\ Unfinished /\ EveryContextHasOneOwner
  BY DEF StreamInv
<1>b. NoHandle \notin finished
  BY <1>a, NullIsNoHandle DEF TypeOK
<1>2. ASSUME NEW c \in Clients, New(c) PROVE Goal
  <2>1. PICK h \in Handles \ allocated :
          main' = [main EXCEPT ![c] = h] /\ UNCHANGED <<clone, finished, right>>
    BY <1>2 DEF New
  <2>2. /\ pc[c] = "idle" /\ pc' = [pc EXCEPT ![c] = "feeding"]
        /\ h \notin finished /\ clone[c] = NoHandle
    BY <1>a, <1>2, <2>1 DEF New, Move, Holding, Filled
  <2> QED
    BY <1>a, <1>b, <2>1, <2>2 DEF Unfinished, TypeOK
<1>3. ASSUME NEW c \in Clients, Copy(c) PROVE Goal
  <2>1. PICK h \in Handles \ allocated :
          /\ clone' = [clone EXCEPT ![c] = h]
          /\ finished' = IF main[c] \in finished THEN finished \cup {h} ELSE finished \ {h}
    BY <1>3 DEF Copy
  <2>2. pc[c] = "feeding" /\ UNCHANGED <<pc, main, right>>
    BY <1>3 DEF Copy
  <2>3. main[d] # h /\ clone[d] # h
    BY <1>a, <2>1, Apart
  <2>4. CASE d = c
    BY <1>a, <2>1, <2>2, <2>3, <2>4 DEF Unfinished, TypeOK
  <2>5. CASE d # c
    BY <1>a, <2>1, <2>2, <2>3, <2>5 DEF Unfinished, TypeOK
  <2> QED
    BY <2>4, <2>5
<1>4. ASSUME NEW c \in Clients, FinalDelivers(c) PROVE Goal
  <2>1. /\ finished' = finished \cup {Target(c)}
        /\ pc' = [pc EXCEPT ![c] = After(c)]
        /\ right' = [right EXCEPT ![c] = Target(c) \notin finished /\ fed[Target(c)] = Meant(c)]
        /\ UNCHANGED <<main, clone>>
    BY <1>4 DEF FinalDelivers
  <2>2. CASE d # c
    <3>1. Target(c) # main[d] /\ Target(c) # clone[d]
      BY <1>a, <1>4, <2>2, Apart DEF FinalDelivers, Target, OnMain, Holding
    <3> QED
      BY <1>a, <2>1, <2>2, <3>1 DEF Unfinished, TypeOK
  <2>3. CASE d = c
    <3>1. pc[c] \in {"main", "clone"}
      BY <1>a, <1>4, <2>3 DEF FinalDelivers, Unfinished
    <3>2. Target(c) \notin finished /\ fed[Target(c)] = Meant(c)
      BY <1>a, <2>3, <3>1 DEF Target, Meant, OnMain, Holding, Filled, Unfinished
    <3>3. right'[d]
      BY <1>a, <2>1, <2>3, <3>2, Zenon DEF TypeOK
    <3>4. pc'[d] \in {"clone", "free"} /\ (pc'[d] = "clone" => pc[c] = "main" /\ clone[c] # NoHandle)
      BY <1>a, <2>1, <2>3, <3>1 DEF After, OnMain, TypeOK
    <3>5. pc'[d] = "clone" => Target(c) = main[c] /\ main[c] # clone[c] /\ clone[c] \notin finished
      BY <1>a, <2>3, <3>4, Apart DEF Target, OnMain, Holding, Unfinished
    <3> QED
      BY <2>1, <2>3, <3>3, <3>4, <3>5
  <2> QED
    BY <2>2, <2>3
<1>5. ASSUME NEW c \in Clients, FinalTooSmall(c) PROVE Goal
  <2>1. d # c
    BY <1>5, StylesTyped DEF FinalTooSmall
  <2>2. Target(c) # main[d] /\ Target(c) # clone[d]
    BY <1>a, <1>5, <2>1, Apart DEF FinalTooSmall, Move, Target, OnMain, Holding
  <2>3. /\ finished' = finished \cup {Target(c)} /\ pc'[d] = pc[d]
        /\ UNCHANGED <<main, clone, right>>
    BY <1>a, <1>5, <2>1 DEF FinalTooSmall, Move, TypeOK
  <2> QED
    BY <1>a, <2>2, <2>3 DEF Unfinished, TypeOK
<1>6. ASSUME NEW c \in Clients,
             \/ NewThrows(c) \/ FinalRefused(c) \/ CallThrows(c) \/ Report(c)
             \/ EndFeeding(c) \/ \E x \in Data : Update(c, x) \/ UpdateClone(c, x)
      PROVE  Goal
  <2>1. UNCHANGED <<main, clone, finished, right>>
    BY <1>6 DEF NewThrows, FinalRefused, CallThrows, Throw, Report, EndFeeding, Update, UpdateClone
  <2>2. \/ pc' = pc
        \/ \E next \in {"error", "free"} : pc' = [pc EXCEPT ![c] = next]
        \/ pc[c] = "feeding" /\ pc' = [pc EXCEPT ![c] = "main"]
    BY <1>6 DEF NewThrows, FinalRefused, CallThrows, Report, EndFeeding, Update, UpdateClone, Move
  <2> QED
    BY <1>a, <2>1, <2>2 DEF Unfinished, TypeOK
<1>7. ASSUME NEW c \in Clients, FreeMain(c) \/ FreeClone(c) PROVE Goal
  <2>1. /\ pc[c] = "free" /\ UNCHANGED <<pc, right>> /\ finished' \subseteq finished
        /\ d # c => main'[d] = main[d] /\ clone'[d] = clone[d]
    BY <1>a, <1>7 DEF FreeMain, FreeClone, Delete, TypeOK
  <2> QED
    BY <1>a, <2>1 DEF Unfinished
<1>8. ASSUME NEW c \in Clients, Done(c) PROVE Goal
  <2>1. /\ pc' = [pc EXCEPT ![c] = "idle"] /\ right' = [right EXCEPT ![c] = TRUE]
        /\ UNCHANGED <<main, clone, finished>>
    BY <1>8 DEF Done, Forget, Move
  <2> QED
    BY <1>a, <2>1 DEF Unfinished, TypeOK
<1>9. CASE UNCHANGED vars
  BY <1>a, <1>9 DEF vars, Unfinished
<1> QED
  BY <1>2, <1>3, <1>4, <1>5, <1>6, <1>7, <1>8, <1>9 DEF Next

-----------------------------------------------------------------------------

LEMMA StreamInvariant == Spec => []StreamInv
<1>1. StreamInv /\ [Next]_vars => StreamInv'
  BY NextTypeOK, NextOneOwner, NextHolding, NextFilled, NextUnfinished, NextErrorsKept
  DEF StreamInv
<1> QED
  BY <1>1, InitStreamInv, PTL DEF Spec

(* TypeOK holds for every size: contexts, error texts and clients keep their
   shape, and no context is fed more than was meant. *)
THEOREM TypeCorrect == Spec => []TypeOK
  BY StreamInvariant, PTL DEF StreamInv

(* EveryContextHasOneOwner holds for every size: no context of the C API is used
   after it was freed, freed twice or forgotten by clients of either style. *)
THEOREM NoneForgotten == Spec => []EveryContextHasOneOwner
  BY StreamInvariant, PTL DEF StreamInv

(* DigestIsOfOwnChunks holds for every size: who finishes each context once, with
   a buffer, gets the digest of what it fed, whatever other threads do. *)
THEOREM DigestsAreRight == Spec => []DigestIsOfOwnChunks
<1>1. StreamInv => DigestIsOfOwnChunks
  BY DEF StreamInv, Unfinished, DigestIsOfOwnChunks
<1> QED
  BY <1>1, StreamInvariant, PTL

(* ReportedErrorIsOwn holds for every size: g_last_error, being thread-local,
   still holds the text of the failed call when last_error reads it. *)
THEOREM ErrorsAreOwn == Spec => []ReportedErrorIsOwn
<1>1. StreamInv => ReportedErrorIsOwn
  BY DEF StreamInv, ErrorsKept, ReportedErrorIsOwn
<1> QED
  BY <1>1, StreamInvariant, PTL
=============================================================================
