-------------------------- MODULE DigestStreaming ---------------------------
(***************************************************************************)
(* The streaming part of the C API of evp_hash_algorithm_specific_backend  *)
(* (ctx_new, ctx_update, ctx_copy, ctx_final, ctx_final_xof, ctx_free and  *)
(* last_error) and its clients, each a thread that follows the protocol of *)
(* hash_gui.py: feed chunks into a context, clone it on the way, feed the  *)
(* clone one chunk more, finish both, free both; on an error read the      *)
(* text, free what there is and give up.                                   *)
(*                                                                         *)
(* A client is of one of two styles.  "sized" passes a buffer of the right *)
(* size to the one call that finishes a context, as the command line       *)
(* tool's stream_demo and the test do with the C++ class.  "twoPass" calls *)
(* without a buffer first, to learn the length, and then again, as         *)
(* hash_gui.py does.                                                       *)
(*                                                                         *)
(* A digest is represented by the chunks it is the digest of; a context by *)
(* the chunks it was fed and whether it was finished.  ctx_final and       *)
(* ctx_final_xof differ in the digest's length only.  What OpenSSL makes   *)
(* of a context finished before depends on its version: it refuses, or     *)
(* computes over what the first call has left behind.                      *)
(***************************************************************************)
EXTENDS Naturals, Sequences, FiniteSets

CONSTANTS
  Clients,    \* threads that call the API
  Style,      \* "sized" or "twoPass", by client
  Handles,    \* addresses of contexts
  NoHandle,   \* the null pointer
  Data,       \* chunks
  MaxChunks   \* bound: chunks fed into a context before it is finished

ASSUME StylesTyped == Style \in [Clients -> {"sized", "twoPass"}]
ASSUME NullIsNoHandle == NoHandle \notin Handles
ASSUME MaxChunksNatural == MaxChunks \in Nat

VARIABLES
  allocated,  \* contexts that exist
  fed,        \* chunks a context was fed, none if it does not exist
  finished,   \* contexts EVP_DigestFinal_ex was called on
  lastError,  \* g_last_error of a thread
  pc,         \* how far a client is
  main,       \* its context
  clone,      \* its copy of it
  told,       \* the error text a client has reported last
  wantMain,   \* history: chunks meant for the main context
  wantClone,  \* history: chunks meant for the clone
  failure,    \* history: the text of the call of the client that failed last
  right       \* history: the digest delivered to the client last was the one
              \*   of the chunks it meant

meant == <<wantMain, wantClone>>
vars == <<allocated, fed, finished, lastError, pc, main, clone, told, wantMain,
          wantClone, failure, right>>

Texts == {"", "unsupported", "too small", "EVP", "finished"}
Chunks == UNION {[1..n -> Data] : n \in 0..(MaxChunks + 1)}

TypeOK ==
  /\ allocated \subseteq Handles
  /\ fed \in [Handles -> Chunks]
  /\ finished \subseteq Handles
  /\ lastError \in [Clients -> Texts]
  /\ pc \in [Clients -> {"idle", "feeding", "main", "clone", "main again",
                         "clone again", "error", "free"}]
  /\ main \in [Clients -> Handles \cup {NoHandle}]
  /\ clone \in [Clients -> Handles \cup {NoHandle}]
  /\ told \in [Clients -> Texts]
  /\ wantMain \in [Clients -> Chunks]
  /\ wantClone \in [Clients -> Chunks]
  /\ failure \in [Clients -> Texts]
  /\ right \in [Clients -> BOOLEAN]

Init ==
  /\ allocated = {}
  /\ fed = [h \in Handles |-> <<>>]
  /\ finished = {}
  /\ lastError = [c \in Clients |-> ""]
  /\ pc = [c \in Clients |-> "idle"]
  /\ main = [c \in Clients |-> NoHandle]
  /\ clone = [c \in Clients |-> NoHandle]
  /\ told = [c \in Clients |-> ""]
  /\ wantMain = [c \in Clients |-> <<>>]
  /\ wantClone = [c \in Clients |-> <<>>]
  /\ failure = [c \in Clients |-> ""]
  /\ right = [c \in Clients |-> TRUE]

Move(c, from, to) ==
  /\ pc[c] = from
  /\ pc' = [pc EXCEPT ![c] = to]

(* Mutant of SetError: one text for all threads. *)
SetErrorOfAll(c, text) == lastError' = [d \in Clients |-> text]

(* clear_error at the start of a call, and set_error *)
SetError(c, text) == lastError' = [lastError EXCEPT ![c] = text]

-----------------------------------------------------------------------------
(* evphashdirect_ctx_new *)
New(c) ==
  \E h \in Handles \ allocated :
    /\ Move(c, "idle", "feeding")
    /\ allocated' = allocated \cup {h}
    /\ main' = [main EXCEPT ![c] = h]
    /\ SetError(c, "")
    /\ UNCHANGED <<fed, finished, clone, meant, told, failure, right>>

(* A call throws: nothing but the error is left of it. *)
Throw(c, text) ==
  /\ SetError(c, text)
  /\ failure' = [failure EXCEPT ![c] = text]
  /\ UNCHANGED <<allocated, fed, finished, main, clone, told, meant, right>>

(* The algorithm is unknown or unavailable. *)
NewThrows(c) ==
  /\ Move(c, "idle", "error")
  /\ Throw(c, "unsupported")

(* evphashdirect_ctx_update *)
Update(c, d) ==
  /\ pc[c] = "feeding"
  /\ Len(wantMain[c]) < MaxChunks
  /\ fed' = [fed EXCEPT ![main[c]] = Append(@, d)]
  /\ wantMain' = [wantMain EXCEPT ![c] = Append(@, d)]
  /\ SetError(c, "")
  /\ UNCHANGED <<wantClone, allocated, finished, pc, main, clone, told, failure, right>>

(* Mutant of Copy: the copy shares the digest state of its source. *)
CopyPointer(c) ==
  /\ pc[c] = "feeding" /\ clone[c] = NoHandle
  /\ clone' = [clone EXCEPT ![c] = main[c]]
  /\ wantClone' = [wantClone EXCEPT ![c] = wantMain[c]]
  /\ SetError(c, "")
  /\ UNCHANGED <<wantMain, allocated, fed, finished, pc, main, told, failure, right>>

(* evphashdirect_ctx_copy *)
Copy(c) ==
  \E h \in Handles \ allocated :
    /\ pc[c] = "feeding" /\ clone[c] = NoHandle
    /\ allocated' = allocated \cup {h}
    /\ fed' = [fed EXCEPT ![h] = fed[main[c]]]
    /\ finished' = IF main[c] \in finished THEN finished \cup {h} ELSE finished \ {h}
    /\ clone' = [clone EXCEPT ![c] = h]
    /\ wantClone' = [wantClone EXCEPT ![c] = wantMain[c]]
    /\ SetError(c, "")
    /\ UNCHANGED <<wantMain, pc, main, told, failure, right>>

(* The clone is fed a chunk of its own, and the feeding is over. *)
UpdateClone(c, d) ==
  /\ clone[c] # NoHandle
  /\ Move(c, "feeding", "main")
  /\ fed' = [fed EXCEPT ![clone[c]] = Append(@, d)]
  /\ wantClone' = [wantClone EXCEPT ![c] = Append(@, d)]
  /\ SetError(c, "")
  /\ UNCHANGED <<wantMain, allocated, finished, main, clone, told, failure, right>>

EndFeeding(c) ==
  /\ Move(c, "feeding", "main")
  /\ UNCHANGED <<allocated, fed, finished, lastError, main, clone, told, meant,
                 failure, right>>

-----------------------------------------------------------------------------
(***************************************************************************)
(* evphashdirect_ctx_final and evphashdirect_ctx_final_xof                 *)
(***************************************************************************)

OnMain(c) == pc[c] \in {"main", "main again"}
Target(c) == IF OnMain(c) THEN main[c] ELSE clone[c]
Meant(c) == IF OnMain(c) THEN wantMain[c] ELSE wantClone[c]
After(c) == IF OnMain(c) /\ clone[c] # NoHandle THEN "clone" ELSE "free"

(* The call has a buffer: the digest of the context is computed and copied, or,
   of a context that was finished before, a digest of something else. *)
FinalDelivers(c) ==
  /\ \/ Style[c] = "sized" /\ pc[c] \in {"main", "clone"}
     \/ pc[c] \in {"main again", "clone again"}
  /\ pc' = [pc EXCEPT ![c] = After(c)]
  /\ finished' = finished \cup {Target(c)}
  /\ right' = [right EXCEPT ![c] = Target(c) \notin finished /\ fed[Target(c)] = Meant(c)]
  /\ SetError(c, "")
  /\ UNCHANGED <<allocated, fed, main, clone, told, meant, failure>>

(* Mutant of FinalTooSmall: the error is a text nobody expects. *)
FinalTooSmallUnknown(c) ==
  /\ Style[c] = "twoPass"
  /\ \/ Move(c, "main", "main again")
     \/ Move(c, "clone", "clone again")
  /\ finished' = finished \cup {Target(c)}
  /\ SetError(c, "digest output")
  /\ UNCHANGED <<allocated, fed, main, clone, told, meant, failure, right>>

(* The call has no buffer: the digest is computed, which finishes the context,
   and dropped; the length is returned with ERR_BUFFER_TOO_SMALL. *)
FinalTooSmall(c) ==
  /\ Style[c] = "twoPass"
  /\ \/ Move(c, "main", "main again")
     \/ Move(c, "clone", "clone again")
  /\ finished' = finished \cup {Target(c)}
  /\ SetError(c, "too small")
  /\ UNCHANGED <<allocated, fed, main, clone, told, meant, failure, right>>

(* OpenSSL refuses to finish a context once more. *)
FinalRefused(c) ==
  /\ pc[c] \in {"main", "clone", "main again", "clone again"}
  /\ Target(c) \in finished
  /\ pc' = [pc EXCEPT ![c] = "error"]
  /\ Throw(c, "finished")

-----------------------------------------------------------------------------
(* A call that uses OpenSSL or memory fails for another reason. *)
CallThrows(c) ==
  /\ pc[c] \notin {"idle", "error", "free"}
  /\ pc' = [pc EXCEPT ![c] = "error"]
  /\ Throw(c, "EVP")

(* _check reads evphashdirect_last_error and raises. *)
Report(c) ==
  /\ Move(c, "error", "free")
  /\ told' = [told EXCEPT ![c] = lastError[c]]
  /\ UNCHANGED <<allocated, fed, finished, lastError, main, clone, meant, failure, right>>

(* evphashdirect_ctx_free, of the main context first *)
Delete(h) ==
  /\ allocated' = allocated \ {h}
  /\ fed' = [fed EXCEPT ![h] = <<>>]
  /\ finished' = finished \ {h}

FreeMain(c) ==
  /\ pc[c] = "free" /\ main[c] # NoHandle
  /\ Delete(main[c])
  /\ main' = [main EXCEPT ![c] = NoHandle]
  /\ UNCHANGED <<lastError, pc, clone, told, meant, failure, right>>

FreeClone(c) ==
  /\ pc[c] = "free" /\ main[c] = NoHandle /\ clone[c] # NoHandle
  /\ Delete(clone[c])
  /\ clone' = [clone EXCEPT ![c] = NoHandle]
  /\ UNCHANGED <<lastError, pc, main, told, meant, failure, right>>

(* The job is over; the next one shows results of its own. *)
Forget(c) ==
  /\ told' = [told EXCEPT ![c] = ""]
  /\ failure' = [failure EXCEPT ![c] = ""]
  /\ wantMain' = [wantMain EXCEPT ![c] = <<>>]
  /\ wantClone' = [wantClone EXCEPT ![c] = <<>>]
  /\ right' = [right EXCEPT ![c] = TRUE]

(* Mutant of Done: the clone is left to nobody. *)
DoneWithoutClone(c) ==
  /\ main[c] = NoHandle
  /\ Move(c, "free", "idle")
  /\ clone' = [clone EXCEPT ![c] = NoHandle]
  /\ Forget(c)
  /\ UNCHANGED <<allocated, fed, finished, lastError, main>>

Done(c) ==
  /\ main[c] = NoHandle /\ clone[c] = NoHandle
  /\ Move(c, "free", "idle")
  /\ Forget(c)
  /\ UNCHANGED <<allocated, fed, finished, lastError, main, clone>>

Next ==
  \E c \in Clients :
    \/ New(c) \/ NewThrows(c)
    \/ \E d \in Data : Update(c, d) \/ UpdateClone(c, d)
    \/ Copy(c) \/ EndFeeding(c)
    \/ FinalDelivers(c) \/ FinalTooSmall(c) \/ FinalRefused(c)
    \/ CallThrows(c) \/ Report(c)
    \/ FreeMain(c) \/ FreeClone(c) \/ Done(c)

Spec == Init /\ [][Next]_vars
-----------------------------------------------------------------------------
(***************************************************************************)
(* Properties                                                              *)
(***************************************************************************)

(* A client that finishes each context once, with a buffer, gets the digests of
   the chunks it fed into that context: the clone and its source do not disturb
   each other, whichever is fed or finished first, and neither do contexts of
   other threads, freed and reused addresses, or calls that failed before. *)
DigestIsOfOwnChunks ==
  \A c \in Clients : Style[c] = "sized" => right[c]

(* The error a client reports is that of its own failed call, whatever other
   threads called between the failure and last_error. *)
ReportedErrorIsOwn ==
  \A c \in Clients : pc[c] # "error" => told[c] = failure[c]

Holds(c, h) == main[c] = h \/ clone[c] = h

(* Every context belongs to one client, as its main context or its clone, and is
   freed by it once: no client holds a freed one, and none is forgotten, on the
   error paths either. *)
EveryContextHasOneOwner ==
  /\ \A h \in Handles : h \in allocated <=> \E c \in Clients : Holds(c, h)
  /\ \A h \in Handles, c, d \in Clients : Holds(c, h) /\ Holds(d, h) => c = d
  /\ \A h \in Handles, c \in Clients : ~(main[c] = h /\ clone[c] = h)

(* The second of two passes delivers the digest, as hash_gui.py says of every
   function of the library. *)
SecondPassDelivers ==
  \A c \in Clients : Style[c] = "twoPass" => right[c] /\ failure[c] # "finished"
=============================================================================
