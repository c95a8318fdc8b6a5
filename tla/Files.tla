------------------------------- MODULE Files -------------------------------
(***************************************************************************)
(* The file operations of files.go on one file key: Upload submits the     *)
(* manifest's transaction and then sends the chunks to a storage node,     *)
(* Download reads the manifest and then the chunks and checks them against *)
(* it, Delete and UnregisterStorageNode submit a transaction.  Any number  *)
(* of calls run at once.                                                   *)
(*                                                                         *)
(* External: the chain (accepts a transaction, puts it in a block later or *)
(* never, and refuses manifests of an impossible shape), the API that      *)
(* answers Metadata from the chain's state, possibly with wrong sizes, and *)
(* the storage node, which keeps what it acknowledged, may serve anything, *)
(* and may not answer at all.  SHA-256 is a tag: without collisions.       *)
(***************************************************************************)
EXTENDS Integers, Sequences, FiniteSets, SequencesExt

CONSTANTS
  Calls,          \* the calls of file operations
  Does,           \* the operations each call may be
  Contents,       \* the data callers upload: sequences of bytes
  Shapes,         \* wrong sizes the API may answer: records of total_size, chunk_count, chunk_size
  Served,         \* bytes a storage node may serve instead of a chunk
  ChunkSize,      \* DefaultChunkSize, in the bytes of Contents
  MaxFileSize,    \* maxFileSize
  MaxChunkCount,  \* maxChunkCount
  ChunkCap,       \* httpbody.Chunk, the longest chunk Download reads
  ClientTimeout,  \* the timeout of the client's HTTP client, 0 for none
  None            \* no manifest under the key

ASSUME FileConstants ==
  /\ ChunkSize \in Nat \ {0}
  /\ MaxFileSize \in Nat \ {0}
  /\ MaxChunkCount \in Nat \ {0}
  /\ ChunkCap \in Nat /\ ChunkSize <= ChunkCap
  /\ ClientTimeout \in Nat
  /\ \A m \in Shapes : /\ m.total_size \in Nat
                       /\ m.chunk_count \in Nat
                       /\ m.chunk_size \in Nat

Bytes == 0 .. 255
ASSUME ContentsAreBytes == Contents \subseteq Seq(Bytes)

VARIABLES
  call,     \* each call: where it is and its locals
  mempool,  \* calls whose transaction waits for a block
  file,     \* the manifest the chain holds under the key, or None
  stored,   \* what the storage node holds: <<content hash, index, chunk>>
  misled    \* history: the downloads answered with other than the chain's
            \* manifest and the chunks stored under it

vars == <<call, mempool, file, stored, misled>>

-----------------------------------------------------------------------------
(* Hashes, chunks and manifests. *)

Sha256(data) == <<"sha256", data>>
Sha256Pair(a, b) == <<"sha256", a, b>>

chunkData(data) ==
  [i \in 1 .. (Len(data) + ChunkSize - 1) \div ChunkSize |->
     SubSeq(data, (i - 1) * ChunkSize + 1,
            IF i * ChunkSize > Len(data) THEN Len(data) ELSE i * ChunkSize)]

EvenLevel(level) ==
  IF Len(level) % 2 = 1 THEN Append(level, level[Len(level)]) ELSE level

NextLevel(level) ==
  LET even == EvenLevel(level)
  IN  [i \in 1 .. Len(even) \div 2 |-> Sha256Pair(even[2 * i - 1], even[2 * i])]

\* Each level is at most half the one below, rounded up, so Len(hashes)
\* rounds reach the root.
computeMerkleRoot(hashes) ==
  IF hashes = <<>>
    THEN <<"zero">>
    ELSE FoldLeft(LAMBDA level, h : IF Len(level) > 1 THEN NextLevel(level) ELSE level,
                  NextLevel(EvenLevel(hashes)), hashes)[1]

Hashes(chunks) == [i \in DOMAIN chunks |-> Sha256(chunks[i])]

ManifestOf(data) ==
  LET chunks == chunkData(data)
  IN  [total_size   |-> Len(data),
       content_hash |-> Sha256(data),
       chunk_count  |-> Len(chunks),
       chunk_size   |-> ChunkSize,
       merkle_root  |-> computeMerkleRoot(Hashes(chunks))]

\* A nil manifest is no file's manifest.
ASSUME NoneIsNoManifest == \A data \in Contents : ManifestOf(data) # None

\* Mutation: no lower bound on the size.
checkFileShapeUpperBound(m) ==
  /\ m.total_size \in 1 .. MaxFileSize
  /\ m.chunk_count \in 1 .. MaxChunkCount
  /\ m.total_size <= m.chunk_count * m.chunk_size

\* Refuses a manifest the chain would refuse for its sizes; TRUE is no error.
checkFileShape(m) ==
  /\ m.total_size \in 1 .. MaxFileSize
  /\ m.chunk_count \in 1 .. MaxChunkCount
  /\ m.total_size <= m.chunk_count * m.chunk_size
  /\ m.total_size > (m.chunk_count - 1) * m.chunk_size

\* Mutation: one byte short for the last chunk.
WantOneLess(m, i) ==
  IF i = m.chunk_count - 1 THEN m.total_size - i * m.chunk_size - 1 ELSE m.chunk_size

\* The length the manifest makes chunk i (from 0), a uint64 in the code.
Want(m, i) ==
  IF i = m.chunk_count - 1 THEN m.total_size - i * m.chunk_size ELSE m.chunk_size

\* A LimitReader of one byte more than wanted.
ReadLimited(body, want) ==
  SubSeq(body, 1, IF Len(body) > want + 1 THEN want + 1 ELSE Len(body))

\* Mutation: keyed by the file key alone.
StoreKeyByName(m, i) == <<"file", i>>

\* The node keys chunks by the content hash in the URL.
StoreKey(m, i) == <<m.content_hash, i>>
ChunksAt(key) == {s[3] : s \in {t \in stored : <<t[1], t[2]>> = key}}

-----------------------------------------------------------------------------
(* Timeouts: each request a file operation sends is bounded, by the        *)
(* client's timeout or by fileRequestTimeout when that is none.            *)

fileRequestTimeout == 30
\* Mutation: the client's timeout, also when it is none.
storageTimeoutAsGiven == ClientTimeout
storageTimeout == IF ClientTimeout <= 0 THEN fileRequestTimeout ELSE ClientTimeout
requestTimeout == IF ClientTimeout > 0 THEN ClientTimeout ELSE fileRequestTimeout

-----------------------------------------------------------------------------
Ops == {"upload", "delete", "unregister", "download"}
Outcomes == {"none", "ok", "validation", "unsigned", "refused", "mayland", "chunk",
             "notfound", "shape", "failed", "toolong", "overlong", "root", "hash"}

\* chunks are the ones an upload cut or a download read so far, man the
\* manifest an upload made or a download was answered, i the loop's index.
Idle == [pc |-> "idle", op |-> "none", chunks |-> <<>>, i |-> 0, man |-> None, res |-> "none"]

Init ==
  /\ call = [c \in Calls |-> Idle]
  /\ mempool = {}
  /\ file = None
  /\ stored = {} /\ misled = {}

Return(c, r) == call' = [call EXCEPT ![c].pc = "done", ![c].res = r]

\* checkFileSigning and UnregisterStorageNode's own check refuse missing
\* signing options; formatting, signing and decoding the signature can fail.
\* All of it happens before anything is sent.
StartWrite(c, op, man, chunks, signing) ==
  /\ call[c].pc = "idle"
  /\ op \in Does[c]
  /\ call' = [call EXCEPT ![c] =
       [pc  |-> IF signing = "good" THEN "submit" ELSE "done",
        op  |-> op, chunks |-> chunks, i |-> 0, man |-> man,
        res |-> CASE signing = "none" -> "validation"
                  [] signing = "fails" -> "unsigned"
                  [] signing = "good" -> "none"]]
  /\ UNCHANGED <<mempool, file, stored, misled>>

Signing == {"none", "fails", "good"}

Upload(c) ==
  \E data \in Contents, s \in Signing :
    StartWrite(c, "upload", ManifestOf(data), chunkData(data), s)

Delete(c) == \E s \in Signing : StartWrite(c, "delete", None, <<>>, s)

UnregisterStorageNode(c) ==
  \E s \in Signing : StartWrite(c, "unregister", None, <<>>, s)

\* External: CheckTx, which refuses a manifest of an impossible shape.
CheckTx(c) == call[c].op = "upload" => checkFileShape(call[c].man)

\* The submission is accepted: Upload goes on with the chunks.
SubmitAccepted(c) ==
  /\ call[c].pc = "submit"
  /\ CheckTx(c)
  /\ mempool' = mempool \union {c}
  /\ IF call[c].op = "upload" THEN call' = [call EXCEPT ![c].pc = "chunks"]
                              ELSE Return(c, "ok")
  /\ UNCHANGED <<file, stored, misled>>

\* The node refused the transaction: a WriteError without MayLand.
SubmitRefused(c) ==
  /\ call[c].pc = "submit"
  /\ Return(c, "refused")
  /\ UNCHANGED <<mempool, file, stored, misled>>

\* The submission timed out or its answer was lost: a WriteError with MayLand.
SubmitTimesOut(c) ==
  /\ call[c].pc = "submit"
  /\ requestTimeout > 0
  /\ \/ UNCHANGED mempool
     \/ CheckTx(c) /\ mempool' = mempool \union {c}
  /\ Return(c, "mayland")
  /\ UNCHANGED <<file, stored, misled>>

\* External: the transaction is applied in a block, or refused there.
Land(c) ==
  /\ c \in mempool
  /\ mempool' = mempool \ {c}
  /\ file' \in {file, IF call[c].op = "unregister" THEN file ELSE call[c].man}
  /\ UNCHANGED <<call, stored, misled>>

-----------------------------------------------------------------------------
(* Upload's chunk loop. *)

Store(c) ==
  LET key == StoreKey(call[c].man, call[c].i)
      new == call[c].chunks[call[c].i + 1]
  IN  stored' = {s \in stored : <<s[1], s[2]>> # key} \union {<<key[1], key[2], new>>}

ChunkStored(c) ==
  /\ call[c].pc = "chunks"
  /\ Store(c)
  /\ IF call[c].i + 1 < Len(call[c].chunks)
       THEN call' = [call EXCEPT ![c].i = @ + 1]
       ELSE call' = [call EXCEPT ![c].i = @ + 1, ![c].pc = "done", ![c].res = "ok"]
  /\ UNCHANGED <<mempool, file, misled>>

\* An answer other than 2xx: a ChunkUploadError with the chunk's index.
ChunkRefused(c) ==
  /\ call[c].pc = "chunks"
  /\ Return(c, "chunk")
  /\ UNCHANGED <<mempool, file, stored, misled>>

\* The request fails or times out, and the node may have stored the chunk.
ChunkTimesOut(c) ==
  /\ call[c].pc = "chunks"
  /\ storageTimeout > 0
  /\ Store(c) \/ UNCHANGED stored
  /\ Return(c, "chunk")
  /\ UNCHANGED <<mempool, file, misled>>

-----------------------------------------------------------------------------
(* Download. *)

Download(c) ==
  /\ call[c].pc = "idle"
  /\ "download" \in Does[c]
  /\ call' = [call EXCEPT ![c] = [pc |-> "metadata", op |-> "download", chunks |-> <<>>, i |-> 0,
                                      man |-> None, res |-> "none"]]
  /\ UNCHANGED <<mempool, file, stored, misled>>

\* External: the API's answer, with sizes that may be wrong.
Answers ==
  IF file = None THEN {None}
  ELSE {file} \union {[file EXCEPT !.total_size = s.total_size,
                                   !.chunk_count = s.chunk_count,
                                   !.chunk_size = s.chunk_size] : s \in Shapes}

\* Metadata's answer and the checks made before any chunk is asked for.
MetadataAnswers(c) ==
  /\ call[c].pc = "metadata"
  /\ \E m \in Answers :
       /\ IF m = None THEN Return(c, "notfound")
          ELSE IF ~checkFileShape(m) THEN Return(c, "shape")
          ELSE call' = [call EXCEPT ![c].pc = "fetch", ![c].man = m]
       /\ misled' = IF m = file THEN misled ELSE misled \union {c}
  /\ UNCHANGED <<mempool, file, stored>>

MetadataTimesOut(c) ==
  /\ call[c].pc = "metadata"
  /\ requestTimeout > 0
  /\ Return(c, "failed")
  /\ UNCHANGED <<mempool, file, stored, misled>>

\* Mutation: the Merkle root alone.
VerdictByRoot(m, chunks) ==
  IF computeMerkleRoot(Hashes(chunks)) # m.merkle_root THEN "root" ELSE "ok"

\* The checks on the whole file: the chunk Merkle root, then the content hash.
Verdict(m, chunks) ==
  IF computeMerkleRoot(Hashes(chunks)) # m.merkle_root THEN "root"
  ELSE IF Sha256(FlattenSeq(chunks)) # m.content_hash THEN "hash"
  ELSE "ok"

\* One round of the loop.  The status of the storage node's answer is not
\* looked at: an error's text is read as a chunk.
ChunkAnswers(c) ==
  /\ call[c].pc = "fetch"
  /\ LET m     == call[c].man
         i     == call[c].i
         held  == ChunksAt(StoreKey(m, i))
     IN \E body \in Served \union held :
          LET chunk == ReadLimited(body, Want(m, i))
              got   == Append(call[c].chunks, chunk)
          IN  /\ IF Len(chunk) > ChunkCap THEN Return(c, "toolong")
                 ELSE IF Len(chunk) > Want(m, i) THEN Return(c, "overlong")
                 ELSE IF i + 1 < m.chunk_count
                   THEN call' = [call EXCEPT ![c].i = i + 1, ![c].chunks = got]
                 ELSE call' = [call EXCEPT ![c].i = i + 1, ![c].chunks = got, ![c].pc = "done",
                                           ![c].res = Verdict(m, got)]
              /\ misled' = IF body \in held THEN misled ELSE misled \union {c}
  /\ UNCHANGED <<mempool, file, stored>>

FetchTimesOut(c) ==
  /\ call[c].pc = "fetch"
  /\ storageTimeout > 0
  /\ Return(c, "failed")
  /\ UNCHANGED <<mempool, file, stored, misled>>

-----------------------------------------------------------------------------
TimesOut(c) ==
  SubmitTimesOut(c) \/ ChunkTimesOut(c) \/ MetadataTimesOut(c) \/ FetchTimesOut(c)

Next ==
  \E c \in Calls :
    \/ Upload(c) \/ Delete(c) \/ UnregisterStorageNode(c) \/ Download(c)
    \/ SubmitAccepted(c) \/ SubmitRefused(c) \/ SubmitTimesOut(c) \/ Land(c)
    \/ ChunkStored(c) \/ ChunkRefused(c) \/ ChunkTimesOut(c)
    \/ MetadataAnswers(c) \/ MetadataTimesOut(c)
    \/ ChunkAnswers(c) \/ FetchTimesOut(c)

Spec == Init /\ [][Next]_vars

\* No answer of the chain, the API or the storage node is fair: they may stay
\* silent.  What is fair is the timer of a request (http.Client's Timeout, or
\* the context's deadline), which ends a request that nothing else ended.
FairSpec == Spec /\ \A c \in Calls : WF_vars(TimesOut(c))

-----------------------------------------------------------------------------
(* Properties. *)

\* The data a manifest's content hash is of.
Content(m) == IF m = None THEN None ELSE m.content_hash[2]

\* Every variable has its type.
TypeOK ==
  /\ DOMAIN call = Calls
  /\ \A c \in Calls :
       /\ call[c].pc \in {"idle", "submit", "chunks", "metadata", "fetch", "done"}
       /\ call[c].op \in Ops \union {"none"}
       /\ call[c].res \in Outcomes
       /\ call[c].i \in Nat
  /\ mempool \subseteq Calls
  /\ misled \subseteq Calls

\* An Upload that returns its manifest left every chunk of the file on the
\* storage node under the manifest's content hash, whatever was uploaded,
\* retried or deleted under the same key meanwhile; and the ChunkUploadError
\* of UploadContext is true: the chunks before its index are stored as cut.
UploadIsTrue ==
  \A c \in Calls :
    call[c].op = "upload" /\ call[c].res \in {"ok", "chunk"} =>
      /\ FlattenSeq(call[c].chunks) = Content(call[c].man)
      /\ call[c].res = "ok" => call[c].i = call[c].man.chunk_count
      /\ \A j \in 0 .. call[c].i - 1 :
           ChunksAt(StoreKey(call[c].man, j)) = {call[c].chunks[j + 1]}

\* Download never refuses an honest answer: when the manifest is the chain's
\* and every chunk is the one stored under its content hash, the sizes it
\* checks, the lengths it expects, the Merkle root and the content hash all
\* agree with what Upload cut and hashed.
HonestIsAccepted ==
  \A c \in Calls :
    call[c].op = "download" /\ c \notin misled =>
      call[c].res \notin {"shape", "toolong", "overlong", "root", "hash"}

\* The uint64 subtraction of DownloadContext never wraps: while chunks are
\* fetched, each one's expected length is at least 1 and at most chunk_size,
\* whatever sizes the API answered.
WantNeverWraps ==
  \A c \in Calls :
    call[c].pc = "fetch" =>
      Want(call[c].man, call[c].i) \in 1 .. call[c].man.chunk_size

\* Every call returns, even from a chain, an API and a storage node that never
\* answer, because every request has a timeout.
CallsReturn == \A c \in Calls : call[c].pc # "idle" ~> call[c].pc = "done"

-----------------------------------------------------------------------------
(* The file key is an atomic register. *)

IsWrite(c) == call[c].op \in {"upload", "delete"}

StageOf(c) ==
  IF call[c].pc = "idle" \/ call[c].op = "unregister" THEN "idle"
  ELSE IF call[c].pc = "done" THEN "returned"
  ELSE IF call[c].op = "download" THEN "reading"
  ELSE "writing"

AnswerOf(c) ==
  IF ~IsWrite(c) \/ call[c].pc # "done" THEN "none"
  ELSE IF call[c].res = "ok" THEN "yes"
  ELSE IF call[c].res \in {"validation", "unsigned", "refused"} THEN "no"
  ELSE "maybe"

IntentOf(c) ==
  IF IsWrite(c) /\ call[c].res \notin {"validation", "unsigned"} THEN Content(call[c].man) ELSE None

CanLand(c) == IsWrite(c) /\ (c \in mempool \/ call[c].pc = "submit")

SeenBy(c) == IF call[c].op = "download" THEN Content(call[c].man) ELSE None

ResultOf(c) == IF call[c].op = "download" /\ call[c].res = "ok" THEN FlattenSeq(call[c].chunks) ELSE None

Register == INSTANCE FileRegister WITH
  current <- Content(file),
  stage   <- [c \in Calls |-> StageOf(c)],
  intent  <- [c \in Calls |-> IntentOf(c)],
  pending <- {c \in Calls : CanLand(c)},
  seen    <- [c \in Calls |-> SeenBy(c)],
  answer  <- [c \in Calls |-> AnswerOf(c)],
  result  <- [c \in Calls |-> ResultOf(c)]

\* A download returns the whole content the key held at one instant of the
\* download, never parts of two uploads and never what a storage node made up;
\* a write takes effect at one instant or never, and never once its caller was
\* told it failed for good.
AtomicFile == Register!Spec
=============================================================================
