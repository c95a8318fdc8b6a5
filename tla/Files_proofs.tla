----------------------------- MODULE Files_proofs -----------------------------
(***************************************************************************)
(* What holds of every set of file operations, for any contents, sizes and *)
(* answers: the expected length of a chunk never wraps, the operations     *)
(* implement the atomic register of FileRegister, what an upload reports   *)
(* is stored, and no honest answer to a download is refused.               *)
(***************************************************************************)
EXTENDS Files, SequenceFacts

USE FileConstants

(***************************************************************************)
(* Records.  Every call keeps its fields, and a manifest is one.           *)
(***************************************************************************)
Local(q) == [pc |-> q.pc, op |-> q.op, chunks |-> q.chunks, i |-> q.i, man |-> q.man, res |-> q.res]

Shape == call = [c \in Calls |-> Local(call[c])]

\* Call c goes to pc with these locals, and no other call moves.
Moves(c, pc, chunks, i, man, res) ==
  /\ call'[c] = [pc |-> pc, op |-> call[c].op, chunks |-> chunks, i |-> i, man |-> man, res |-> res]
  /\ \A d \in Calls : d # c => call'[d] = call[d]
  /\ Shape'

\* Setting one call keeps the shape.
LEMMA SetMoves ==
  ASSUME Shape, NEW c \in Calls, NEW q, q = Local(q), call' = [call EXCEPT ![c] = q]
  PROVE  /\ call'[c] = q
         /\ \A d \in Calls : d # c => call'[d] = call[d]
         /\ Shape'
<1>1. call = [d \in Calls |-> Local(call[d])]
  BY DEF Shape
<1>2. \A d \in Calls : call[d] = Local(call[d])
  BY <1>1
<1>3. call' = [d \in Calls |-> IF d = c THEN q ELSE call[d]]
  BY <1>1
<1>4. \A d \in Calls : call'[d] = Local(call'[d])
  BY <1>2, <1>3
<1> QED BY <1>3, <1>4 DEF Shape

\* Return ends a call and keeps its locals.
LEMMA ReturnMoves ==
  ASSUME Shape, NEW c \in Calls, NEW r, Return(c, r)
  PROVE  Moves(c, "done", call[c].chunks, call[c].i, call[c].man, r)
<1> DEFINE q == [pc |-> "done", op |-> call[c].op, chunks |-> call[c].chunks, i |-> call[c].i,
                 man |-> call[c].man, res |-> r]
<1>1. call[c] = Local(call[c]) /\ call = [d \in Calls |-> call[d]]
  BY DEF Shape
<1>2. call' = [call EXCEPT ![c] = [[call[c] EXCEPT !.pc = "done"] EXCEPT !.res = r]]
  BY <1>1 DEF Return
<1> DEFINE a == [call[c] EXCEPT !.pc = "done"]
<1>3. a = [pc |-> "done", op |-> call[c].op, chunks |-> call[c].chunks, i |-> call[c].i,
           man |-> call[c].man, res |-> call[c].res]
  BY <1>1 DEF Local
<1> HIDE DEF a
<1>4. [a EXCEPT !.res = r] = q
  BY <1>3
<1>5. q = Local(q)
  BY DEF Local
<1> QED BY ZenonT(60), <1>2, <1>4, <1>5, SetMoves DEF Moves, a

\* The two ways a chunk that was stored moves an upload.
LEMMA StoredMoves ==
  ASSUME Shape, NEW c \in Calls, NEW n
  PROVE  /\ call' = [call EXCEPT ![c].i = n]
               => Moves(c, call[c].pc, call[c].chunks, n, call[c].man, call[c].res)
         /\ call' = [call EXCEPT ![c].i = n, ![c].pc = "done", ![c].res = "ok"]
               => Moves(c, "done", call[c].chunks, n, call[c].man, "ok")
<1> DEFINE q(pc, res) == [pc |-> pc, op |-> call[c].op, chunks |-> call[c].chunks, i |-> n,
                          man |-> call[c].man, res |-> res]
           a == [call[c] EXCEPT !.i = n]
           b == [a EXCEPT !.pc = "done"]
<1>1. call[c] = Local(call[c]) /\ call = [d \in Calls |-> call[d]]
  BY DEF Shape
<1>2. /\ [call EXCEPT ![c].i = n] = [call EXCEPT ![c] = a]
      /\ [call EXCEPT ![c].i = n, ![c].pc = "done", ![c].res = "ok"]
           = [call EXCEPT ![c] = [b EXCEPT !.res = "ok"]]
  BY <1>1
<1>3. a = q(call[c].pc, call[c].res)
  BY <1>1 DEF Local
<1> HIDE DEF a
<1>4. b = q("done", call[c].res)
  BY <1>3
<1> HIDE DEF b
<1>5. [b EXCEPT !.res = "ok"] = q("done", "ok")
  BY <1>4
<1>6. \A pc, res : q(pc, res) = Local(q(pc, res))
  BY DEF Local
<1>7. ASSUME NEW pc, NEW res, call' = [call EXCEPT ![c] = q(pc, res)]
      PROVE  Moves(c, pc, call[c].chunks, n, call[c].man, res)
  BY <1>6, <1>7, SetMoves DEF Moves
<1> QED BY <1>2, <1>3, <1>5, <1>7

\* The ways a chunk that was read moves a download.
LEMMA FetchedMoves ==
  ASSUME Shape, NEW c \in Calls, NEW n, NEW got, NEW r
  PROVE  /\ call' = [call EXCEPT ![c].i = n, ![c].chunks = got]
               => Moves(c, call[c].pc, got, n, call[c].man, call[c].res)
         /\ call' = [call EXCEPT ![c].i = n, ![c].chunks = got, ![c].pc = "done", ![c].res = r]
               => Moves(c, "done", got, n, call[c].man, r)
<1> DEFINE q(pc, chunks, res) == [pc |-> pc, op |-> call[c].op, chunks |-> chunks, i |-> n,
                                  man |-> call[c].man, res |-> res]
           a == [call[c] EXCEPT !.i = n]
           b == [a EXCEPT !.chunks = got]
           e == [b EXCEPT !.pc = "done"]
<1>1. call[c] = Local(call[c]) /\ call = [d \in Calls |-> call[d]]
  BY DEF Shape
<1>2. /\ [call EXCEPT ![c].i = n, ![c].chunks = got] = [call EXCEPT ![c] = b]
      /\ [call EXCEPT ![c].i = n, ![c].chunks = got, ![c].pc = "done", ![c].res = r]
           = [call EXCEPT ![c] = [e EXCEPT !.res = r]]
  BY <1>1
<1>3. a = q(call[c].pc, call[c].chunks, call[c].res)
  BY <1>1 DEF Local
<1> HIDE DEF a
<1>4. b = q(call[c].pc, got, call[c].res)
  BY <1>3
<1> HIDE DEF b
<1>5. e = q("done", got, call[c].res)
  BY <1>4
<1> HIDE DEF e
<1>6. [e EXCEPT !.res = r] = q("done", got, r)
  BY <1>5
<1>7. \A pc, res : q(pc, got, res) = Local(q(pc, got, res))
  BY DEF Local
<1>8. ASSUME NEW pc, NEW res, call' = [call EXCEPT ![c] = q(pc, got, res)]
      PROVE  Moves(c, pc, got, n, call[c].man, res)
  BY <1>7, <1>8, SetMoves DEF Moves
<1> QED BY <1>2, <1>4, <1>6, <1>8

\* The manifest Metadata answered moves a download on.
LEMMA AnsweredMoves ==
  ASSUME Shape, NEW c \in Calls, NEW m, call' = [call EXCEPT ![c].pc = "fetch", ![c].man = m]
  PROVE  Moves(c, "fetch", call[c].chunks, call[c].i, m, call[c].res)
<1> DEFINE q == [pc |-> "fetch", op |-> call[c].op, chunks |-> call[c].chunks, i |-> call[c].i,
                 man |-> m, res |-> call[c].res]
           a == [call[c] EXCEPT !.pc = "fetch"]
<1>1. call[c] = Local(call[c]) /\ call = [d \in Calls |-> call[d]]
  BY DEF Shape
<1>2. call' = [call EXCEPT ![c] = [a EXCEPT !.man = m]]
  BY <1>1
<1>3. a = [pc |-> "fetch", op |-> call[c].op, chunks |-> call[c].chunks, i |-> call[c].i,
           man |-> call[c].man, res |-> call[c].res]
  BY <1>1 DEF Local
<1> HIDE DEF a
<1>4. [a EXCEPT !.man = m] = q
  BY <1>3
<1>5. call' = [call EXCEPT ![c] = q]
  BY <1>2, <1>4
<1>6. q = Local(q)
  BY DEF Local
<1> QED BY <1>5, <1>6, SetMoves DEF Moves

\* An accepted upload goes on with its chunks.
LEMMA AcceptedMoves ==
  ASSUME Shape, NEW c \in Calls, call' = [call EXCEPT ![c].pc = "chunks"]
  PROVE  Moves(c, "chunks", call[c].chunks, call[c].i, call[c].man, call[c].res)
<1> DEFINE q == [pc |-> "chunks", op |-> call[c].op, chunks |-> call[c].chunks, i |-> call[c].i,
                 man |-> call[c].man, res |-> call[c].res]
<1>1. call[c] = Local(call[c]) /\ call = [d \in Calls |-> call[d]]
  BY DEF Shape
<1> DEFINE a == [call[c] EXCEPT !.pc = "chunks"]
<1>2. call' = [call EXCEPT ![c] = a]
  BY <1>1
<1>3. a = q
  BY <1>1 DEF Local
<1> HIDE DEF a
<1>4. q = Local(q)
  BY DEF Local
<1> QED BY <1>2, <1>3, <1>4, SetMoves DEF Moves

(***************************************************************************)
(* Manifests.                                                              *)
(***************************************************************************)
IsManifest(m) ==
  /\ m = [total_size |-> m.total_size, content_hash |-> m.content_hash, chunk_count |-> m.chunk_count,
          chunk_size |-> m.chunk_size, merkle_root |-> m.merkle_root]
  /\ m.chunk_size \in Nat

\* The manifest of some data names that data by its hash.
LEMMA ManifestOfData ==
  ASSUME NEW data
  PROVE  IsManifest(ManifestOf(data)) /\ ManifestOf(data).content_hash[2] = data
  BY DEF ManifestOf, IsManifest, Sha256

\* An answer with other sizes has the content hash of the chain's manifest.
LEMMA AnswersAreManifests ==
  ASSUME file = None \/ IsManifest(file), NEW m \in Answers, m # None
  PROVE  IsManifest(m) /\ file # None /\ m.content_hash = file.content_hash
<1>1. file # None /\ IsManifest(file)
  BY DEF Answers
<1>2. CASE m = file
  BY <1>1, <1>2
<1>3. ASSUME NEW s \in Shapes, m = [file EXCEPT !.total_size = s.total_size,
                                                !.chunk_count = s.chunk_count,
                                                !.chunk_size = s.chunk_size]
      PROVE  IsManifest(m) /\ m.content_hash = file.content_hash
  <2> DEFINE a == [file EXCEPT !.total_size = s.total_size]
             b == [a EXCEPT !.chunk_count = s.chunk_count]
  <2>1. m = [b EXCEPT !.chunk_size = s.chunk_size]
    BY <1>3
  <2>2. a = [total_size |-> s.total_size, content_hash |-> file.content_hash, chunk_count |-> file.chunk_count,
             chunk_size |-> file.chunk_size, merkle_root |-> file.merkle_root]
    BY <1>1 DEF IsManifest
  <2> HIDE DEF a
  <2>3. b = [total_size |-> s.total_size, content_hash |-> file.content_hash, chunk_count |-> s.chunk_count,
             chunk_size |-> file.chunk_size, merkle_root |-> file.merkle_root]
    BY <2>2
  <2> HIDE DEF b
  <2>4. m = [total_size |-> s.total_size, content_hash |-> file.content_hash, chunk_count |-> s.chunk_count,
             chunk_size |-> s.chunk_size, merkle_root |-> file.merkle_root]
    BY <2>1, <2>3
  <2>5. s.chunk_size \in Nat
    OBVIOUS
  <2> QED BY <2>4, <2>5 DEF IsManifest
<1> QED BY <1>1, <1>2, <1>3 DEF Answers

(***************************************************************************)
(* The invariant: where a call is decides its locals and whether its       *)
(* transaction can be in the mempool.                                      *)
(***************************************************************************)
Writes == {"upload", "delete", "unregister"}

Sound(c, q, pool) ==
  /\ q.pc \in {"idle", "submit", "chunks", "metadata", "fetch", "done"}
  /\ q.op \in Ops \union {"none"} /\ q.res \in Outcomes /\ q.i \in Nat
  /\ q.pc = "idle" => q.op = "none" /\ q.res = "none" /\ q.man = None
  /\ q.pc = "submit" => q.op \in Writes /\ q.res = "none" /\ c \notin pool
  /\ q.pc = "chunks" => q.op = "upload" /\ q.res = "none"
  /\ q.pc \in {"metadata", "fetch"} => q.op = "download" /\ q.res = "none"
  /\ q.pc = "metadata" => q.man = None /\ q.i = 0
  /\ q.pc = "fetch" => /\ q.man # None /\ IsManifest(q.man) /\ checkFileShape(q.man)
                       /\ q.i < q.man.chunk_count
  /\ q.op \in {"delete", "unregister"} => q.man = None
  /\ q.op = "upload" => IsManifest(q.man)
  /\ c \in pool => /\ q.pc \in {"chunks", "done"} /\ q.op \in Writes
                   /\ q.res \notin {"validation", "unsigned", "refused"}

FilesInv ==
  /\ Shape
  /\ file = None \/ IsManifest(file)
  /\ mempool \subseteq Calls /\ misled \subseteq Calls
  /\ \A c \in Calls : Sound(c, call[c], mempool)

\* When only call c moves and only its transaction enters or leaves the
\* mempool, the other calls stay sound.
LEMMA OthersStaySound ==
  ASSUME FilesInv, NEW c \in Calls, Shape', \A d \in Calls : d # c => call'[d] = call[d],
         mempool' \subseteq Calls, \A d \in Calls : d # c => (d \in mempool' <=> d \in mempool),
         Sound(c, call'[c], mempool'),
         file' = None \/ IsManifest(file'), misled' \subseteq Calls
  PROVE  FilesInv'
<1>1. ASSUME NEW d \in Calls, d # c PROVE Sound(d, call'[d], mempool')
  <2>1. call'[d] = call[d] /\ Sound(d, call[d], mempool) /\ (d \in mempool' <=> d \in mempool)
    BY <1>1 DEF FilesInv
  <2> QED BY <2>1 DEF Sound
<1> QED BY <1>1 DEF FilesInv

\* Starting a write.
LEMMA StartWriteSound ==
  ASSUME FilesInv, NEW c \in Calls, NEW op \in Writes, NEW man, NEW chunks, NEW s \in Signing,
         op = "upload" => IsManifest(man), op # "upload" => man = None,
         StartWrite(c, op, man, chunks, s)
  PROVE  /\ FilesInv'
         /\ call[c].pc = "idle" /\ call'[c].op = op /\ call'[c].man = man
         /\ \A d \in Calls : d # c => call'[d] = call[d]
         /\ UNCHANGED <<mempool, file>>
         /\ \/ s = "good" /\ call'[c].pc = "submit" /\ call'[c].res = "none"
            \/ call'[c].pc = "done" /\ call'[c].res \in {"validation", "unsigned"}
<1> DEFINE res == CASE s = "none" -> "validation" [] s = "fails" -> "unsigned" [] s = "good" -> "none"
           q == [pc |-> IF s = "good" THEN "submit" ELSE "done", op |-> op, chunks |-> chunks,
                 i |-> 0, man |-> man, res |-> res]
<1>1. /\ call' = [call EXCEPT ![c] = q] /\ call[c].pc = "idle"
      /\ UNCHANGED <<mempool, file, stored, misled>>
  BY DEF StartWrite
<1>2. /\ s = "good" => res = "none"
      /\ s # "good" => res \in {"validation", "unsigned"}
      /\ res \in Outcomes
  BY DEF Signing, Outcomes
<1> HIDE DEF res
<1>3. q = Local(q)
  BY DEF Local
<1>4. /\ call'[c] = q /\ Shape' /\ \A d \in Calls : d # c => call'[d] = call[d]
  BY <1>1, <1>3, SetMoves DEF FilesInv
<1>5. c \notin mempool
  BY <1>1 DEF FilesInv, Sound
<1>6. Sound(c, q, mempool)
  BY <1>2, <1>5 DEF Sound, Writes, Ops
<1>7. FilesInv'
  BY <1>1, <1>4, <1>6, OthersStaySound DEF FilesInv
<1>8. /\ q.op = op /\ q.man = man /\ q.res = res
      /\ s = "good" => q.pc = "submit"
      /\ s # "good" => q.pc = "done"
  OBVIOUS
<1> HIDE DEF q
<1>9. CASE s = "good"
  BY <1>1, <1>2, <1>4, <1>7, <1>8, <1>9
<1>10. CASE s # "good"
  BY <1>1, <1>2, <1>4, <1>7, <1>8, <1>10
<1> QED BY <1>9, <1>10

\* A call that returns with an outcome that may follow stays sound, wherever
\* it was and whether its transaction is in the mempool or not.
LEMMA ReturnSound ==
  ASSUME FilesInv, NEW c \in Calls, NEW r \in Outcomes, Return(c, r), file' = file,
         misled' \subseteq Calls, mempool' = mempool \/ mempool' = mempool \union {c},
         c \in mempool' => /\ call[c].op \in Writes
                           /\ r \notin {"validation", "unsigned", "refused"}
  PROVE  FilesInv' /\ Moves(c, "done", call[c].chunks, call[c].i, call[c].man, r)
<1>1. Moves(c, "done", call[c].chunks, call[c].i, call[c].man, r)
  BY ReturnMoves DEF FilesInv
<1>2. Sound(c, call[c], mempool)
  BY DEF FilesInv
<1> DEFINE q == [pc |-> "done", op |-> call[c].op, chunks |-> call[c].chunks, i |-> call[c].i,
                 man |-> call[c].man, res |-> r]
<1>3. Sound(c, q, mempool')
  BY <1>2 DEF Sound
<1>4. call'[c] = q /\ Shape' /\ \A d \in Calls : d # c => call'[d] = call[d]
  BY <1>1 DEF Moves
<1> HIDE DEF q
<1>5. mempool' \subseteq Calls /\ \A d \in Calls : d # c => (d \in mempool' <=> d \in mempool)
  BY DEF FilesInv
<1>6. FilesInv'
  BY <1>3, <1>4, <1>5, OthersStaySound DEF FilesInv
<1> QED BY <1>1, <1>6

\* The submission of a write.
LEMMA SubmitSound ==
  ASSUME FilesInv, NEW c \in Calls, SubmitAccepted(c) \/ SubmitRefused(c) \/ SubmitTimesOut(c)
  PROVE  FilesInv'
<1>1. /\ call[c].pc = "submit" /\ call[c].op \in Writes /\ call[c].res = "none" /\ c \notin mempool
      /\ Sound(c, call[c], mempool)
  BY DEF FilesInv, Sound, SubmitAccepted, SubmitRefused, SubmitTimesOut
<1>2. CASE SubmitAccepted(c) /\ call[c].op = "upload"
  <2>1. /\ call' = [call EXCEPT ![c].pc = "chunks"] /\ mempool' = mempool \union {c}
        /\ UNCHANGED <<file, stored, misled>>
    BY <1>2 DEF SubmitAccepted
  <2>2. Moves(c, "chunks", call[c].chunks, call[c].i, call[c].man, call[c].res)
    BY <2>1, AcceptedMoves DEF FilesInv
  <2> DEFINE q == [pc |-> "chunks", op |-> call[c].op, chunks |-> call[c].chunks, i |-> call[c].i,
                   man |-> call[c].man, res |-> call[c].res]
  <2>3. Sound(c, q, mempool')
    BY <1>1, <1>2, <2>1 DEF Sound, Writes
  <2>4. call'[c] = q /\ Shape' /\ \A d \in Calls : d # c => call'[d] = call[d]
    BY <2>2 DEF Moves
  <2> HIDE DEF q
  <2>5. mempool' \subseteq Calls /\ \A d \in Calls : d # c => (d \in mempool' <=> d \in mempool)
    BY <2>1 DEF FilesInv
  <2> QED BY <2>1, <2>3, <2>4, <2>5, OthersStaySound DEF FilesInv
<1>3. CASE SubmitAccepted(c) /\ call[c].op # "upload"
  BY <1>1, <1>3, ReturnSound DEF SubmitAccepted, Outcomes, FilesInv
<1>4. CASE SubmitRefused(c)
  BY <1>1, <1>4, ReturnSound DEF SubmitRefused, Outcomes, FilesInv
<1>5. CASE SubmitTimesOut(c)
  BY <1>1, <1>5, ReturnSound DEF SubmitTimesOut, Outcomes, FilesInv
<1> QED BY <1>2, <1>3, <1>4, <1>5

\* A block applies a transaction or refuses it.
LEMMA LandSound ==
  ASSUME FilesInv, NEW c \in Calls, Land(c)
  PROVE  /\ FilesInv' /\ c \in mempool /\ mempool' = mempool \ {c} /\ call' = call
         /\ call[c].pc \in {"chunks", "done"} /\ call[c].op \in Writes
         /\ call[c].res \notin {"validation", "unsigned", "refused"}
         /\ \/ file' = file
            \/ call[c].op # "unregister" /\ file' = call[c].man
<1>1. /\ c \in mempool /\ mempool' = mempool \ {c} /\ call' = call /\ misled' = misled
      /\ file' = file \/ (call[c].op # "unregister" /\ file' = call[c].man)
  BY DEF Land
<1>2. Sound(c, call[c], mempool)
  BY DEF FilesInv
<1>3. /\ call[c].pc \in {"chunks", "done"} /\ call[c].op \in Writes
      /\ call[c].res \notin {"validation", "unsigned", "refused"}
      /\ call[c].op = "upload" => IsManifest(call[c].man)
      /\ call[c].op = "delete" => call[c].man = None
  BY <1>1, <1>2 DEF Sound
<1>4. Sound(c, call'[c], mempool')
  BY <1>1, <1>2, <1>3 DEF Sound
<1>5. file' = None \/ IsManifest(file')
  BY <1>1, <1>3 DEF FilesInv, Writes
<1>6. Shape' /\ \A d \in Calls : d # c => call'[d] = call[d]
  BY <1>1 DEF FilesInv, Shape
<1>7. mempool' \subseteq Calls /\ \A d \in Calls : d # c => (d \in mempool' <=> d \in mempool)
  BY <1>1 DEF FilesInv
<1>8. FilesInv'
  BY <1>1, <1>4, <1>5, <1>6, <1>7, OthersStaySound DEF FilesInv
<1> QED BY <1>1, <1>3, <1>8

\* The chunk loop of an upload.
LEMMA ChunkStoredSound ==
  ASSUME FilesInv, NEW c \in Calls, ChunkStored(c)
  PROVE  /\ FilesInv' /\ call[c].pc = "chunks" /\ call[c].op = "upload" /\ call[c].res = "none"
         /\ UNCHANGED <<mempool, file>>
         /\ \/ Moves(c, "chunks", call[c].chunks, call[c].i + 1, call[c].man, "none")
            \/ Moves(c, "done", call[c].chunks, call[c].i + 1, call[c].man, "ok")
<1>1. /\ call[c].pc = "chunks" /\ call[c].op = "upload" /\ call[c].res = "none"
      /\ Sound(c, call[c], mempool) /\ UNCHANGED <<mempool, file, misled>>
  BY SMTT(60) DEF FilesInv, Sound, ChunkStored
<1>2. \/ call' = [call EXCEPT ![c].i = call[c].i + 1]
      \/ call' = [call EXCEPT ![c].i = call[c].i + 1, ![c].pc = "done", ![c].res = "ok"]
  BY SMTT(60) DEF ChunkStored
<1>3. \/ Moves(c, "chunks", call[c].chunks, call[c].i + 1, call[c].man, "none")
      \/ Moves(c, "done", call[c].chunks, call[c].i + 1, call[c].man, "ok")
  BY <1>1, <1>2, StoredMoves DEF FilesInv
<1>4. CASE Moves(c, "chunks", call[c].chunks, call[c].i + 1, call[c].man, "none")
  <2> DEFINE n == call[c].i + 1
             q == [pc |-> "chunks", op |-> call[c].op, chunks |-> call[c].chunks, i |-> n,
                   man |-> call[c].man, res |-> "none"]
  <2>1. n \in Nat /\ mempool' = mempool
    BY <1>1 DEF Sound
  <2>2. call'[c] = q /\ Shape' /\ \A d \in Calls : d # c => call'[d] = call[d]
    BY <1>4 DEF Moves
  <2> HIDE DEF n
  <2>3. Sound(c, q, mempool)
    BY <1>1, <2>1 DEF Sound, Outcomes
  <2> HIDE DEF q
  <2>4. FilesInv'
    BY <1>1, <2>1, <2>2, <2>3, OthersStaySound DEF FilesInv
  <2> QED BY <1>1, <1>4, <2>4
<1>5. CASE Moves(c, "done", call[c].chunks, call[c].i + 1, call[c].man, "ok")
  <2> DEFINE n == call[c].i + 1
             q == [pc |-> "done", op |-> call[c].op, chunks |-> call[c].chunks, i |-> n,
                   man |-> call[c].man, res |-> "ok"]
  <2>1. n \in Nat /\ mempool' = mempool
    BY <1>1 DEF Sound
  <2>2. call'[c] = q /\ Shape' /\ \A d \in Calls : d # c => call'[d] = call[d]
    BY <1>5 DEF Moves
  <2> HIDE DEF n
  <2>3. Sound(c, q, mempool)
    BY <1>1, <2>1 DEF Sound, Outcomes
  <2> HIDE DEF q
  <2>4. FilesInv'
    BY <1>1, <2>1, <2>2, <2>3, OthersStaySound DEF FilesInv
  <2> QED BY <1>1, <1>5, <2>4
<1> QED BY <1>3, <1>4, <1>5

\* The start of a download.
LEMMA DownloadSound ==
  ASSUME FilesInv, NEW c \in Calls, Download(c)
  PROVE  /\ FilesInv' /\ call[c].pc = "idle" /\ UNCHANGED <<mempool, file>>
         /\ call'[c].pc = "metadata" /\ call'[c].op = "download" /\ call'[c].man = None
         /\ call'[c].res = "none"
         /\ \A d \in Calls : d # c => call'[d] = call[d]
<1> DEFINE q == [pc |-> "metadata", op |-> "download", chunks |-> <<>>, i |-> 0, man |-> None, res |-> "none"]
<1>1. /\ call' = [call EXCEPT ![c] = q] /\ call[c].pc = "idle" /\ UNCHANGED <<mempool, file, misled>>
  BY DEF Download
<1>2. q = Local(q)
  BY DEF Local
<1>3. call'[c] = q /\ Shape' /\ \A d \in Calls : d # c => call'[d] = call[d]
  BY <1>1, <1>2, SetMoves DEF FilesInv
<1>4. c \notin mempool
  BY <1>1 DEF FilesInv, Sound
<1>5. Sound(c, q, mempool)
  BY <1>4 DEF Sound, Ops, Outcomes, Writes
<1>6. FilesInv'
  BY <1>1, <1>3, <1>5, OthersStaySound DEF FilesInv
<1>7. q.pc = "metadata" /\ q.op = "download" /\ q.man = None /\ q.res = "none"
  OBVIOUS
<1> HIDE DEF q
<1> QED BY <1>1, <1>3, <1>6, <1>7

\* The manifest is answered: the download goes on with a manifest that has the
\* content hash the chain holds, or returns.
LEMMA MetadataSound ==
  ASSUME FilesInv, NEW c \in Calls, MetadataAnswers(c)
  PROVE  /\ FilesInv' /\ call[c].pc = "metadata" /\ UNCHANGED <<mempool, file>>
         /\ \/ \E r \in {"notfound", "shape"} :
                 Moves(c, "done", call[c].chunks, call[c].i, call[c].man, r)
            \/ \E m : /\ m # None /\ file # None /\ m.content_hash = file.content_hash
                      /\ Moves(c, "fetch", call[c].chunks, call[c].i, m, call[c].res)
<1>1. /\ call[c].pc = "metadata" /\ UNCHANGED <<mempool, file>> /\ misled' \subseteq Calls
      /\ Sound(c, call[c], mempool)
  BY DEF MetadataAnswers, FilesInv
<1>2. PICK m \in Answers :
        IF m = None THEN Return(c, "notfound")
        ELSE IF ~checkFileShape(m) THEN Return(c, "shape")
        ELSE call' = [call EXCEPT ![c].pc = "fetch", ![c].man = m]
  BY DEF MetadataAnswers
<1>3. c \notin mempool /\ call[c].op = "download" /\ call[c].i = 0 /\ call[c].res = "none"
  BY <1>1 DEF Sound, Writes
<1>4. CASE m = None \/ ~checkFileShape(m)
  <2>1. PICK r \in {"notfound", "shape"} : Return(c, r)
    BY <1>2, <1>4
  <2>2. FilesInv' /\ Moves(c, "done", call[c].chunks, call[c].i, call[c].man, r)
    BY <1>1, <1>3, <2>1, ReturnSound DEF Outcomes
  <2> QED BY <1>1, <2>2
<1>5. CASE m # None /\ checkFileShape(m)
  <2>1. Moves(c, "fetch", call[c].chunks, call[c].i, m, call[c].res)
    BY <1>2, <1>5, AnsweredMoves DEF FilesInv
  <2>2. IsManifest(m) /\ file # None /\ m.content_hash = file.content_hash
    BY <1>5, AnswersAreManifests DEF FilesInv
  <2>3. m.chunk_count \in Nat /\ 0 < m.chunk_count
    BY <1>5 DEF checkFileShape
  <2> DEFINE q == [pc |-> "fetch", op |-> call[c].op, chunks |-> call[c].chunks, i |-> call[c].i,
                   man |-> m, res |-> call[c].res]
  <2>4. Sound(c, q, mempool')
    BY <1>1, <1>3, <1>5, <2>2, <2>3 DEF Sound, Writes
  <2>5. call'[c] = q /\ Shape' /\ \A d \in Calls : d # c => call'[d] = call[d]
    BY <2>1 DEF Moves
  <2> HIDE DEF q
  <2>6. FilesInv'
    BY <1>1, <2>4, <2>5, OthersStaySound DEF FilesInv
  <2> QED BY <1>1, <1>5, <2>1, <2>2, <2>6
<1> QED BY <1>4, <1>5

\* What the checks on the whole file accept is the data the manifest names.
LEMMA VerdictIsTrue ==
  ASSUME NEW m, NEW chunks
  PROVE  /\ Verdict(m, chunks) \in {"ok", "root", "hash"}
         /\ Verdict(m, chunks) = "ok" => m.content_hash[2] = FlattenSeq(chunks)
<1> DEFINE root == computeMerkleRoot(Hashes(chunks))
           data == FlattenSeq(chunks)
<1>1. Verdict(m, chunks) = IF root # m.merkle_root THEN "root"
                           ELSE IF <<"sha256", data>> # m.content_hash THEN "hash" ELSE "ok"
  BY DEF Verdict, Sha256
<1> HIDE DEF root, data
<1>2. Verdict(m, chunks) = "ok" => m.content_hash[2] = data
  BY <1>1
<1> QED BY <1>1, <1>2 DEF data

\* A chunk is answered: the download goes on below the manifest's count, or
\* returns, and with success only the data its manifest names.
LEMMA ChunkAnswersSound ==
  ASSUME FilesInv, NEW c \in Calls, ChunkAnswers(c)
  PROVE  /\ FilesInv' /\ call[c].pc = "fetch" /\ UNCHANGED <<mempool, file>>
         /\ \A d \in Calls : d # c => call'[d] = call[d]
         /\ call'[c].op = "download" /\ call'[c].man = call[c].man
         /\ \/ call'[c].pc = "fetch" /\ call'[c].res = "none"
            \/ /\ call'[c].pc = "done"
               /\ call'[c].res = "ok" => FlattenSeq(call'[c].chunks) = call[c].man.content_hash[2]
<1>1. /\ call[c].pc = "fetch" /\ UNCHANGED <<mempool, file>> /\ misled' \subseteq Calls
      /\ Sound(c, call[c], mempool)
  BY DEF ChunkAnswers, FilesInv
<1>2. /\ c \notin mempool /\ call[c].op = "download" /\ call[c].res = "none" /\ call[c].i \in Nat
      /\ call[c].man # None /\ IsManifest(call[c].man) /\ checkFileShape(call[c].man)
      /\ call[c].man.chunk_count \in Nat
  BY <1>1 DEF Sound, Writes, checkFileShape
<1> DEFINE n == call[c].i + 1
<1>3. PICK got :
        \/ \E r \in {"toolong", "overlong"} : Return(c, r)
        \/ n < call[c].man.chunk_count /\ call' = [call EXCEPT ![c].i = n, ![c].chunks = got]
        \/ call' = [call EXCEPT ![c].i = n, ![c].chunks = got, ![c].pc = "done",
                               ![c].res = Verdict(call[c].man, got)]
  <2>1. PICK body : LET chunk == ReadLimited(body, Want(call[c].man, call[c].i))
                        got   == Append(call[c].chunks, chunk)
                    IN  IF Len(chunk) > ChunkCap THEN Return(c, "toolong")
                        ELSE IF Len(chunk) > Want(call[c].man, call[c].i) THEN Return(c, "overlong")
                        ELSE IF n < call[c].man.chunk_count
                          THEN call' = [call EXCEPT ![c].i = n, ![c].chunks = got]
                        ELSE call' = [call EXCEPT ![c].i = n, ![c].chunks = got, ![c].pc = "done",
                                                  ![c].res = Verdict(call[c].man, got)]
    BY DEF ChunkAnswers
  <2> DEFINE chunk == ReadLimited(body, Want(call[c].man, call[c].i))
  <2>2. WITNESS Append(call[c].chunks, chunk)
  <2> HIDE DEF chunk
  <2> QED BY ZenonT(60), <2>1 DEF chunk
<1>4. n \in Nat
  BY <1>2
<1> HIDE DEF n
<1>5. ASSUME NEW r \in {"toolong", "overlong"}, Return(c, r)
      PROVE  FilesInv' /\ Moves(c, "done", call[c].chunks, call[c].i, call[c].man, r)
  BY <1>1, <1>2, <1>5, ReturnSound DEF Outcomes
<1>6. CASE n < call[c].man.chunk_count /\ call' = [call EXCEPT ![c].i = n, ![c].chunks = got]
  <2>1. Moves(c, "fetch", got, n, call[c].man, "none")
    BY <1>1, <1>2, <1>6, FetchedMoves DEF FilesInv
  <2> DEFINE q == [pc |-> "fetch", op |-> call[c].op, chunks |-> got, i |-> n,
                   man |-> call[c].man, res |-> "none"]
  <2>2. call'[c] = q /\ Shape' /\ \A d \in Calls : d # c => call'[d] = call[d]
    BY <2>1 DEF Moves
  <2>3. Sound(c, q, mempool)
    BY <1>1, <1>2, <1>4, <1>6 DEF Sound, Outcomes
  <2>4. q.pc = "fetch" /\ q.op = "download" /\ q.man = call[c].man /\ q.res = "none"
    BY <1>2
  <2> HIDE DEF q
  <2>5. FilesInv'
    BY <1>1, <2>2, <2>3, OthersStaySound DEF FilesInv
  <2> QED BY <1>1, <2>2, <2>4, <2>5
<1>7. CASE call' = [call EXCEPT ![c].i = n, ![c].chunks = got, ![c].pc = "done",
                                ![c].res = Verdict(call[c].man, got)]
  <2> DEFINE r == Verdict(call[c].man, got)
  <2>1. /\ r \in {"ok", "root", "hash"}
        /\ r = "ok" => call[c].man.content_hash[2] = FlattenSeq(got)
    BY VerdictIsTrue
  <2>2. Moves(c, "done", got, n, call[c].man, r)
    BY <1>7, FetchedMoves DEF FilesInv
  <2> HIDE DEF r
  <2> DEFINE q == [pc |-> "done", op |-> call[c].op, chunks |-> got, i |-> n,
                   man |-> call[c].man, res |-> r]
  <2>3. call'[c] = q /\ Shape' /\ \A d \in Calls : d # c => call'[d] = call[d]
    BY <2>2 DEF Moves
  <2>4. Sound(c, q, mempool)
    BY <1>1, <1>2, <1>4, <2>1 DEF Sound, Outcomes
  <2>5. q.pc = "done" /\ q.op = "download" /\ q.man = call[c].man /\ q.res = r /\ q.chunks = got
    BY <1>2
  <2> HIDE DEF q
  <2>6. FilesInv'
    BY <1>1, <2>3, <2>4, OthersStaySound DEF FilesInv
  <2> QED BY <1>1, <2>1, <2>3, <2>5, <2>6
<1>8. CASE \E r \in {"toolong", "overlong"} : Return(c, r)
  <2>1. PICK r \in {"toolong", "overlong"} : Return(c, r)
    BY <1>8
  <2>2. FilesInv' /\ Moves(c, "done", call[c].chunks, call[c].i, call[c].man, r)
    BY <1>5, <2>1
  <2>3. /\ call'[c].pc = "done" /\ call'[c].op = "download" /\ call'[c].man = call[c].man
        /\ call'[c].res # "ok" /\ \A d \in Calls : d # c => call'[d] = call[d]
    BY <1>2, <2>2 DEF Moves
  <2> QED BY <1>1, <2>2, <2>3
<1> QED BY <1>3, <1>6, <1>7, <1>8

\* The calls that return because a request was refused or timed out.
LEMMA FailuresSound ==
  ASSUME FilesInv, NEW c \in Calls,
         ChunkRefused(c) \/ ChunkTimesOut(c) \/ MetadataTimesOut(c) \/ FetchTimesOut(c)
  PROVE  /\ FilesInv' /\ UNCHANGED <<mempool, file>>
         /\ \/ /\ call[c].pc = "chunks"
               /\ Moves(c, "done", call[c].chunks, call[c].i, call[c].man, "chunk")
            \/ /\ call[c].pc \in {"metadata", "fetch"}
               /\ Moves(c, "done", call[c].chunks, call[c].i, call[c].man, "failed")
<1>1. UNCHANGED <<mempool, file, misled>> /\ Sound(c, call[c], mempool) /\ misled' \subseteq Calls
  BY DEF ChunkRefused, ChunkTimesOut, MetadataTimesOut, FetchTimesOut, FilesInv
<1>2. CASE ChunkRefused(c) \/ ChunkTimesOut(c)
  <2>1. call[c].pc = "chunks" /\ Return(c, "chunk")
    BY <1>2 DEF ChunkRefused, ChunkTimesOut
  <2>2. call[c].op \in Writes
    BY <1>1, <2>1 DEF Sound, Writes
  <2> QED BY <1>1, <2>1, <2>2, ReturnSound DEF Outcomes
<1>3. CASE MetadataTimesOut(c) \/ FetchTimesOut(c)
  <2>1. call[c].pc \in {"metadata", "fetch"} /\ Return(c, "failed")
    BY <1>3 DEF MetadataTimesOut, FetchTimesOut
  <2>2. c \notin mempool
    BY <1>1, <2>1 DEF Sound, Writes
  <2> QED BY <1>1, <2>1, <2>2, ReturnSound DEF Outcomes
<1> QED BY <1>2, <1>3

\* No call has started.
LEMMA FilesInvInit == Init => FilesInv
<1> SUFFICES ASSUME Init PROVE FilesInv
  OBVIOUS
<1>1. call = [c \in Calls |-> Idle] /\ mempool = {} /\ file = None /\ misled = {}
  BY DEF Init
<1>2. Idle = Local(Idle) /\ \A c : Sound(c, Idle, {})
  BY DEF Idle, Local, Sound, Ops, Outcomes
<1>3. \A c \in Calls : call[c] = Idle
  BY <1>1
<1>4. Shape
  BY <1>1, <1>2, <1>3 DEF Shape
<1> HIDE DEF Idle
<1> QED BY <1>1, <1>2, <1>3, <1>4 DEF FilesInv

\* Every step of every call, and of the chain, keeps the invariant.
LEMMA FilesInvStep ==
  ASSUME FilesInv, [Next]_vars
  PROVE  FilesInv'
<1>1. CASE UNCHANGED vars
  BY <1>1 DEF FilesInv, Shape, vars
<1>2. ASSUME NEW c \in Calls, Upload(c) PROVE FilesInv'
  <2>1. PICK data \in Contents, s \in Signing : StartWrite(c, "upload", ManifestOf(data), chunkData(data), s)
    BY <1>2 DEF Upload
  <2> QED BY <2>1, ManifestOfData, StartWriteSound DEF Writes
<1>3. ASSUME NEW c \in Calls, Delete(c) \/ UnregisterStorageNode(c) PROVE FilesInv'
  <2>1. PICK s \in Signing : \E op \in {"delete", "unregister"} : StartWrite(c, op, None, <<>>, s)
    BY <1>3 DEF Delete, UnregisterStorageNode
  <2> QED BY <2>1, StartWriteSound DEF Writes
<1> QED
  BY <1>1, <1>2, <1>3, DownloadSound, SubmitSound, LandSound, ChunkStoredSound, MetadataSound,
     ChunkAnswersSound, FailuresSound
  DEF Next

\* Every variable of the file operations keeps its type.
THEOREM FilesTyped == Spec => []TypeOK
<1>1. FilesInv => TypeOK
  <2> SUFFICES ASSUME FilesInv PROVE TypeOK
    OBVIOUS
  <2>1. DOMAIN call = Calls
    BY DEF FilesInv, Shape
  <2> QED BY <2>1 DEF FilesInv, Sound, TypeOK
<1> QED BY <1>1, FilesInvInit, FilesInvStep, PTL DEF Spec

\* The expected length of the chunk a download asks for is positive and no
\* longer than the chunk size, whatever sizes the API answered, so the
\* subtraction in DownloadContext does not wrap.
THEOREM LengthsNeverWrap == Spec => []WantNeverWraps
<1>1. FilesInv => WantNeverWraps
  <2> SUFFICES ASSUME FilesInv, NEW c \in Calls, call[c].pc = "fetch"
               PROVE  Want(call[c].man, call[c].i) \in 1 .. call[c].man.chunk_size
    BY DEF WantNeverWraps
  <2> DEFINE m == call[c].man
             i == call[c].i
  <2>1. IsManifest(m) /\ checkFileShape(m) /\ i < m.chunk_count /\ i \in Nat
    BY DEF FilesInv, Sound
  <2>2. /\ m.chunk_size \in Nat /\ m.total_size \in Nat /\ m.chunk_count \in Nat \ {0}
        /\ m.total_size >= 1
        /\ m.total_size <= m.chunk_count * m.chunk_size
        /\ m.total_size > (m.chunk_count - 1) * m.chunk_size
    BY <2>1 DEF IsManifest, checkFileShape
  <2> HIDE DEF m, i
  <2> DEFINE size == m.chunk_size
             total == m.total_size
             count == m.chunk_count
             before == (count - 1) * size
  <2>3. before \in Nat /\ count * size = before + size
    BY <2>2
  <2>4. Want(m, i) = IF i = count - 1 THEN total - i * size ELSE size
    BY DEF Want
  <2>5. CASE i = count - 1
    <3>1. Want(m, i) = total - before
      BY <2>4, <2>5
    <3>2. total > before /\ total <= before + size /\ total \in Nat /\ size \in Nat
      BY <2>2, <2>3
    <3> HIDE DEF total, before, size
    <3>3. total - before \in 1 .. size
      BY <2>3, <3>2
    <3> QED BY <3>1, <3>3 DEF size, m, i
  <2>6. CASE i # count - 1
    <3>1. Want(m, i) = size
      BY <2>4, <2>6
    <3>2. size # 0
      BY <2>2
    <3> QED BY <2>2, <3>1, <3>2 DEF m, i
  <2> QED BY <2>5, <2>6
<1> QED BY <1>1, FilesInvInit, FilesInvStep, PTL DEF Spec

(***************************************************************************)
(* The refinement.  First, what each step of the register asks of the      *)
(* mapped state.                                                           *)
(***************************************************************************)
\* Call d is mapped to the same state before and after.
Same(d) ==
  /\ StageOf(d)' = StageOf(d) /\ IntentOf(d)' = IntentOf(d) /\ (CanLand(d)' <=> CanLand(d))
  /\ SeenBy(d)' = SeenBy(d) /\ AnswerOf(d)' = AnswerOf(d) /\ ResultOf(d)' = ResultOf(d)

OthersSame(c) == \A d \in Calls : d # c => Same(d)

\* A call that does not move is mapped to the same state.
LEMMA UnmovedIsSame ==
  ASSUME NEW d \in Calls, call'[d] = call[d], d \in mempool' <=> d \in mempool
  PROVE  Same(d)
  BY DEF Same, StageOf, IntentOf, CanLand, SeenBy, AnswerOf, ResultOf, IsWrite

\* A step that maps no call to another state is a stutter of the register.
LEMMA Stutters ==
  ASSUME \A d \in Calls : Same(d), Content(file)' = Content(file)
  PROVE  UNCHANGED Register!regVars
<1>1. \A d \in Calls : /\ StageOf(d)' = StageOf(d) /\ IntentOf(d)' = IntentOf(d)
                        /\ (CanLand(d)' <=> CanLand(d)) /\ SeenBy(d)' = SeenBy(d)
                        /\ AnswerOf(d)' = AnswerOf(d) /\ ResultOf(d)' = ResultOf(d)
  BY DEF Same
<1> QED BY <1>1 DEF Register!regVars

\* A step that starts a write is one of the register.
LEMMA BeginsWrite ==
  ASSUME NEW c \in Calls, OthersSame(c), Content(file)' = Content(file),
         NEW v, StageOf(c) = "idle", StageOf(c)' = "writing", AnswerOf(c)' = AnswerOf(c),
         IntentOf(c)' = v, SeenBy(c)' = SeenBy(c), ResultOf(c)' = ResultOf(c), ~CanLand(c),
         CanLand(c)'
  PROVE  Register!BeginWrite(c, v)
<1>1. /\ \A d \in Calls : StageOf(d)' = IF d = c THEN "writing" ELSE StageOf(d)
      /\ \A d \in Calls : IntentOf(d)' = IF d = c THEN v ELSE IntentOf(d)
  BY DEF OthersSame, Same
<1>2. \A d \in Calls : /\ AnswerOf(d)' = AnswerOf(d)
                        /\ SeenBy(d)' = SeenBy(d)
                        /\ ResultOf(d)' = ResultOf(d)
  BY DEF OthersSame, Same
<1>3. /\ [d \in Calls |-> StageOf(d)]' = [[d \in Calls |-> StageOf(d)] EXCEPT ![c] = "writing"]
      /\ [d \in Calls |-> AnswerOf(d)]' = [d \in Calls |-> AnswerOf(d)]
      /\ [d \in Calls |-> IntentOf(d)]' = [[d \in Calls |-> IntentOf(d)] EXCEPT ![c] = v]
      /\ [d \in Calls |-> SeenBy(d)]' = [d \in Calls |-> SeenBy(d)]
      /\ [d \in Calls |-> ResultOf(d)]' = [d \in Calls |-> ResultOf(d)]
  <2>1. /\ [d \in Calls |-> StageOf(d)]' = [[d \in Calls |-> StageOf(d)] EXCEPT ![c] = "writing"]
        /\ [d \in Calls |-> IntentOf(d)]' = [[d \in Calls |-> IntentOf(d)] EXCEPT ![c] = v]
    BY <1>1
  <2>2. /\ [d \in Calls |-> AnswerOf(d)]' = [d \in Calls |-> AnswerOf(d)]
        /\ [d \in Calls |-> SeenBy(d)]' = [d \in Calls |-> SeenBy(d)]
        /\ [d \in Calls |-> ResultOf(d)]' = [d \in Calls |-> ResultOf(d)]
    BY <1>2
  <2> QED BY <2>1, <2>2
<1>4. \A d \in Calls : d # c => (CanLand(d)' <=> CanLand(d))
  BY DEF OthersSame, Same
<1> DEFINE old == {d \in Calls : CanLand(d)}
           new == {d \in Calls : CanLand(d)'}
<1>5. new = old \union {c}
  BY <1>4
<1>6. [d \in Calls |-> StageOf(d)][c] = "idle"
  OBVIOUS
<1> QED BY <1>3, <1>5, <1>6 DEF Register!BeginWrite

\* So is one that refuses a write before anything is sent.
LEMMA RefusesWrite ==
  ASSUME NEW c \in Calls, OthersSame(c), Content(file)' = Content(file),
         StageOf(c) = "idle", StageOf(c)' = "returned", AnswerOf(c)' = "no",
         IntentOf(c)' = IntentOf(c), SeenBy(c)' = SeenBy(c), ResultOf(c)' = ResultOf(c),
         CanLand(c)' <=> CanLand(c)
  PROVE  Register!RefuseWrite(c)
<1>1. /\ \A d \in Calls : StageOf(d)' = IF d = c THEN "returned" ELSE StageOf(d)
      /\ \A d \in Calls : AnswerOf(d)' = IF d = c THEN "no" ELSE AnswerOf(d)
  BY DEF OthersSame, Same
<1>2. \A d \in Calls : /\ IntentOf(d)' = IntentOf(d)
                        /\ SeenBy(d)' = SeenBy(d)
                        /\ ResultOf(d)' = ResultOf(d)
  BY DEF OthersSame, Same
<1>3. /\ [d \in Calls |-> StageOf(d)]' = [[d \in Calls |-> StageOf(d)] EXCEPT ![c] = "returned"]
      /\ [d \in Calls |-> AnswerOf(d)]' = [[d \in Calls |-> AnswerOf(d)] EXCEPT ![c] = "no"]
      /\ [d \in Calls |-> IntentOf(d)]' = [d \in Calls |-> IntentOf(d)]
      /\ [d \in Calls |-> SeenBy(d)]' = [d \in Calls |-> SeenBy(d)]
      /\ [d \in Calls |-> ResultOf(d)]' = [d \in Calls |-> ResultOf(d)]
  <2>1. /\ [d \in Calls |-> StageOf(d)]' = [[d \in Calls |-> StageOf(d)] EXCEPT ![c] = "returned"]
        /\ [d \in Calls |-> AnswerOf(d)]' = [[d \in Calls |-> AnswerOf(d)] EXCEPT ![c] = "no"]
    BY <1>1
  <2>2. /\ [d \in Calls |-> IntentOf(d)]' = [d \in Calls |-> IntentOf(d)]
        /\ [d \in Calls |-> SeenBy(d)]' = [d \in Calls |-> SeenBy(d)]
        /\ [d \in Calls |-> ResultOf(d)]' = [d \in Calls |-> ResultOf(d)]
    BY <1>2
  <2> QED BY <2>1, <2>2
<1>4. \A d \in Calls : d # c => (CanLand(d)' <=> CanLand(d))
  BY DEF OthersSame, Same
<1> DEFINE old == {d \in Calls : CanLand(d)}
           new == {d \in Calls : CanLand(d)'}
<1>5. new = old
  BY <1>4
<1>6. [d \in Calls |-> StageOf(d)][c] = "idle"
  OBVIOUS
<1> QED BY <1>3, <1>5, <1>6 DEF Register!RefuseWrite

\* So is one that returns from a write.
LEMMA EndsWrite ==
  ASSUME NEW c \in Calls, OthersSame(c), Content(file)' = Content(file),
         NEW a \in {"yes", "no", "maybe"}, StageOf(c) = "writing", StageOf(c)' = "returned",
         AnswerOf(c)' = a, IntentOf(c)' = IntentOf(c), SeenBy(c)' = SeenBy(c),
         ResultOf(c)' = ResultOf(c), a = "no" => ~CanLand(c)',
         a = "yes" => (CanLand(c)' <=> CanLand(c)), CanLand(c)' => CanLand(c)
  PROVE  Register!EndWrite(c, a)
<1>1. /\ \A d \in Calls : StageOf(d)' = IF d = c THEN "returned" ELSE StageOf(d)
      /\ \A d \in Calls : AnswerOf(d)' = IF d = c THEN a ELSE AnswerOf(d)
  BY DEF OthersSame, Same
<1>2. \A d \in Calls : /\ IntentOf(d)' = IntentOf(d)
                        /\ SeenBy(d)' = SeenBy(d)
                        /\ ResultOf(d)' = ResultOf(d)
  BY DEF OthersSame, Same
<1>3. /\ [d \in Calls |-> StageOf(d)]' = [[d \in Calls |-> StageOf(d)] EXCEPT ![c] = "returned"]
      /\ [d \in Calls |-> AnswerOf(d)]' = [[d \in Calls |-> AnswerOf(d)] EXCEPT ![c] = a]
      /\ [d \in Calls |-> IntentOf(d)]' = [d \in Calls |-> IntentOf(d)]
      /\ [d \in Calls |-> SeenBy(d)]' = [d \in Calls |-> SeenBy(d)]
      /\ [d \in Calls |-> ResultOf(d)]' = [d \in Calls |-> ResultOf(d)]
  <2>1. /\ [d \in Calls |-> StageOf(d)]' = [[d \in Calls |-> StageOf(d)] EXCEPT ![c] = "returned"]
        /\ [d \in Calls |-> AnswerOf(d)]' = [[d \in Calls |-> AnswerOf(d)] EXCEPT ![c] = a]
    BY <1>1
  <2>2. /\ [d \in Calls |-> IntentOf(d)]' = [d \in Calls |-> IntentOf(d)]
        /\ [d \in Calls |-> SeenBy(d)]' = [d \in Calls |-> SeenBy(d)]
        /\ [d \in Calls |-> ResultOf(d)]' = [d \in Calls |-> ResultOf(d)]
    BY <1>2
  <2> QED BY <2>1, <2>2
<1>4. \A d \in Calls : d # c => (CanLand(d)' <=> CanLand(d))
  BY DEF OthersSame, Same
<1> DEFINE old == {d \in Calls : CanLand(d)}
           new == {d \in Calls : CanLand(d)'}
<1>5. \/ a = "no" /\ new = old \ {c}
      \/ a = "maybe" /\ new \in {old, old \ {c}}
      \/ a = "yes" /\ new = old
  <2>1. new = IF CanLand(c)' THEN old ELSE old \ {c}
    BY <1>4
  <2> QED BY <1>4, <2>1
<1>6. [d \in Calls |-> StageOf(d)][c] = "writing"
  OBVIOUS
<1> QED BY <1>3, <1>5, <1>6 DEF Register!EndWrite

\* So is one that applies a write.
LEMMA TakesEffect ==
  ASSUME NEW c \in Calls, OthersSame(c), Content(file)' = IntentOf(c),
         StageOf(c)' = StageOf(c), AnswerOf(c)' = AnswerOf(c), IntentOf(c)' = IntentOf(c),
         SeenBy(c)' = SeenBy(c), ResultOf(c)' = ResultOf(c), CanLand(c), ~CanLand(c)'
  PROVE  Register!TakeEffect(c)
<1>1. \A d \in Calls : /\ StageOf(d)' = StageOf(d)
                        /\ AnswerOf(d)' = AnswerOf(d)
                        /\ IntentOf(d)' = IntentOf(d)
                        /\ SeenBy(d)' = SeenBy(d)
                        /\ ResultOf(d)' = ResultOf(d)
  BY DEF OthersSame, Same
<1>2. /\ [d \in Calls |-> StageOf(d)]' = [d \in Calls |-> StageOf(d)]
      /\ [d \in Calls |-> AnswerOf(d)]' = [d \in Calls |-> AnswerOf(d)]
      /\ [d \in Calls |-> IntentOf(d)]' = [d \in Calls |-> IntentOf(d)]
      /\ [d \in Calls |-> SeenBy(d)]' = [d \in Calls |-> SeenBy(d)]
      /\ [d \in Calls |-> ResultOf(d)]' = [d \in Calls |-> ResultOf(d)]
  BY <1>1
<1>3. \A d \in Calls : d # c => (CanLand(d)' <=> CanLand(d))
  BY DEF OthersSame, Same
<1> DEFINE old == {d \in Calls : CanLand(d)}
           new == {d \in Calls : CanLand(d)'}
<1>4. new = old \ {c}
  BY <1>3
<1>5. c \in old /\ [d \in Calls |-> IntentOf(d)][c] = IntentOf(c)
  OBVIOUS
<1> QED BY <1>2, <1>4, <1>5 DEF Register!TakeEffect

\* So is one in which a block refuses a write.
LEMMA Lapses ==
  ASSUME NEW c \in Calls, OthersSame(c), Content(file)' = Content(file),
         StageOf(c)' = StageOf(c), AnswerOf(c)' = AnswerOf(c), IntentOf(c)' = IntentOf(c),
         SeenBy(c)' = SeenBy(c), ResultOf(c)' = ResultOf(c), CanLand(c), ~CanLand(c)'
  PROVE  Register!Lapse(c)
<1>1. \A d \in Calls : /\ StageOf(d)' = StageOf(d)
                        /\ AnswerOf(d)' = AnswerOf(d)
                        /\ IntentOf(d)' = IntentOf(d)
                        /\ SeenBy(d)' = SeenBy(d)
                        /\ ResultOf(d)' = ResultOf(d)
  BY DEF OthersSame, Same
<1>2. /\ [d \in Calls |-> StageOf(d)]' = [d \in Calls |-> StageOf(d)]
      /\ [d \in Calls |-> AnswerOf(d)]' = [d \in Calls |-> AnswerOf(d)]
      /\ [d \in Calls |-> IntentOf(d)]' = [d \in Calls |-> IntentOf(d)]
      /\ [d \in Calls |-> SeenBy(d)]' = [d \in Calls |-> SeenBy(d)]
      /\ [d \in Calls |-> ResultOf(d)]' = [d \in Calls |-> ResultOf(d)]
  BY <1>1
<1>3. \A d \in Calls : d # c => (CanLand(d)' <=> CanLand(d))
  BY DEF OthersSame, Same
<1> DEFINE old == {d \in Calls : CanLand(d)}
           new == {d \in Calls : CanLand(d)'}
<1>4. new = old \ {c}
  BY <1>3
<1>5. c \in old
  OBVIOUS
<1> QED BY <1>2, <1>4, <1>5 DEF Register!Lapse

\* So is one that starts a read.
LEMMA BeginsRead ==
  ASSUME NEW c \in Calls, OthersSame(c), Content(file)' = Content(file),
         StageOf(c) = "idle", StageOf(c)' = "reading", AnswerOf(c)' = AnswerOf(c),
         IntentOf(c)' = IntentOf(c), SeenBy(c)' = SeenBy(c), ResultOf(c)' = ResultOf(c),
         CanLand(c)' <=> CanLand(c)
  PROVE  Register!BeginRead(c)
<1>1. \A d \in Calls : StageOf(d)' = IF d = c THEN "reading" ELSE StageOf(d)
  BY DEF OthersSame, Same
<1>2. \A d \in Calls : /\ AnswerOf(d)' = AnswerOf(d)
                        /\ IntentOf(d)' = IntentOf(d)
                        /\ SeenBy(d)' = SeenBy(d)
                        /\ ResultOf(d)' = ResultOf(d)
  BY DEF OthersSame, Same
<1>3. /\ [d \in Calls |-> StageOf(d)]' = [[d \in Calls |-> StageOf(d)] EXCEPT ![c] = "reading"]
      /\ [d \in Calls |-> AnswerOf(d)]' = [d \in Calls |-> AnswerOf(d)]
      /\ [d \in Calls |-> IntentOf(d)]' = [d \in Calls |-> IntentOf(d)]
      /\ [d \in Calls |-> SeenBy(d)]' = [d \in Calls |-> SeenBy(d)]
      /\ [d \in Calls |-> ResultOf(d)]' = [d \in Calls |-> ResultOf(d)]
  <2>1. [d \in Calls |-> StageOf(d)]' = [[d \in Calls |-> StageOf(d)] EXCEPT ![c] = "reading"]
    BY <1>1
  <2>2. /\ [d \in Calls |-> AnswerOf(d)]' = [d \in Calls |-> AnswerOf(d)]
        /\ [d \in Calls |-> IntentOf(d)]' = [d \in Calls |-> IntentOf(d)]
        /\ [d \in Calls |-> SeenBy(d)]' = [d \in Calls |-> SeenBy(d)]
        /\ [d \in Calls |-> ResultOf(d)]' = [d \in Calls |-> ResultOf(d)]
    BY <1>2
  <2> QED BY <2>1, <2>2
<1>4. \A d \in Calls : d # c => (CanLand(d)' <=> CanLand(d))
  BY DEF OthersSame, Same
<1> DEFINE old == {d \in Calls : CanLand(d)}
           new == {d \in Calls : CanLand(d)'}
<1>5. new = old
  BY <1>4
<1>6. [d \in Calls |-> StageOf(d)][c] = "idle"
  OBVIOUS
<1> QED BY <1>3, <1>5, <1>6 DEF Register!BeginRead

\* So is the instant of a read.
LEMMA Looks ==
  ASSUME NEW c \in Calls, OthersSame(c), Content(file)' = Content(file),
         StageOf(c) = "reading", SeenBy(c) = None, StageOf(c)' = StageOf(c),
         AnswerOf(c)' = AnswerOf(c), IntentOf(c)' = IntentOf(c), SeenBy(c)' = Content(file),
         ResultOf(c)' = ResultOf(c), CanLand(c)' <=> CanLand(c)
  PROVE  Register!Look(c)
<1>1. \A d \in Calls : SeenBy(d)' = IF d = c THEN Content(file) ELSE SeenBy(d)
  BY DEF OthersSame, Same
<1>2. \A d \in Calls : /\ StageOf(d)' = StageOf(d)
                        /\ AnswerOf(d)' = AnswerOf(d)
                        /\ IntentOf(d)' = IntentOf(d)
                        /\ ResultOf(d)' = ResultOf(d)
  BY DEF OthersSame, Same
<1>3. /\ [d \in Calls |-> StageOf(d)]' = [d \in Calls |-> StageOf(d)]
      /\ [d \in Calls |-> AnswerOf(d)]' = [d \in Calls |-> AnswerOf(d)]
      /\ [d \in Calls |-> IntentOf(d)]' = [d \in Calls |-> IntentOf(d)]
      /\ [d \in Calls |-> SeenBy(d)]' = [[d \in Calls |-> SeenBy(d)] EXCEPT ![c] = Content(file)]
      /\ [d \in Calls |-> ResultOf(d)]' = [d \in Calls |-> ResultOf(d)]
  <2>1. [d \in Calls |-> SeenBy(d)]' = [[d \in Calls |-> SeenBy(d)] EXCEPT ![c] = Content(file)]
    BY <1>1
  <2>2. /\ [d \in Calls |-> StageOf(d)]' = [d \in Calls |-> StageOf(d)]
        /\ [d \in Calls |-> AnswerOf(d)]' = [d \in Calls |-> AnswerOf(d)]
        /\ [d \in Calls |-> IntentOf(d)]' = [d \in Calls |-> IntentOf(d)]
        /\ [d \in Calls |-> ResultOf(d)]' = [d \in Calls |-> ResultOf(d)]
    BY <1>2
  <2> QED BY <2>1, <2>2
<1>4. \A d \in Calls : d # c => (CanLand(d)' <=> CanLand(d))
  BY DEF OthersSame, Same
<1> DEFINE old == {d \in Calls : CanLand(d)}
           new == {d \in Calls : CanLand(d)'}
<1>5. new = old
  BY <1>4
<1>6. /\ [d \in Calls |-> StageOf(d)][c] = "reading"
      /\ [d \in Calls |-> SeenBy(d)][c] = None
  OBVIOUS
<1> QED BY <1>3, <1>5, <1>6 DEF Register!Look

\* So is the return from a read.
LEMMA EndsRead ==
  ASSUME NEW c \in Calls, OthersSame(c), Content(file)' = Content(file),
         NEW v \in {SeenBy(c), None}, StageOf(c) = "reading", StageOf(c)' = "returned",
         AnswerOf(c)' = AnswerOf(c), IntentOf(c)' = IntentOf(c), SeenBy(c)' = SeenBy(c),
         ResultOf(c)' = v, CanLand(c)' <=> CanLand(c)
  PROVE  Register!EndRead(c)
<1>1. /\ \A d \in Calls : StageOf(d)' = IF d = c THEN "returned" ELSE StageOf(d)
      /\ \A d \in Calls : ResultOf(d)' = IF d = c THEN v ELSE ResultOf(d)
  BY DEF OthersSame, Same
<1>2. \A d \in Calls : /\ AnswerOf(d)' = AnswerOf(d)
                        /\ IntentOf(d)' = IntentOf(d)
                        /\ SeenBy(d)' = SeenBy(d)
  BY DEF OthersSame, Same
<1>3. /\ [d \in Calls |-> StageOf(d)]' = [[d \in Calls |-> StageOf(d)] EXCEPT ![c] = "returned"]
      /\ [d \in Calls |-> AnswerOf(d)]' = [d \in Calls |-> AnswerOf(d)]
      /\ [d \in Calls |-> IntentOf(d)]' = [d \in Calls |-> IntentOf(d)]
      /\ [d \in Calls |-> SeenBy(d)]' = [d \in Calls |-> SeenBy(d)]
      /\ [d \in Calls |-> ResultOf(d)]' = [[d \in Calls |-> ResultOf(d)] EXCEPT ![c] = v]
  <2>1. /\ [d \in Calls |-> StageOf(d)]' = [[d \in Calls |-> StageOf(d)] EXCEPT ![c] = "returned"]
        /\ [d \in Calls |-> ResultOf(d)]' = [[d \in Calls |-> ResultOf(d)] EXCEPT ![c] = v]
    BY <1>1
  <2>2. /\ [d \in Calls |-> AnswerOf(d)]' = [d \in Calls |-> AnswerOf(d)]
        /\ [d \in Calls |-> IntentOf(d)]' = [d \in Calls |-> IntentOf(d)]
        /\ [d \in Calls |-> SeenBy(d)]' = [d \in Calls |-> SeenBy(d)]
    BY <1>2
  <2> QED BY <2>1, <2>2
<1>4. \A d \in Calls : d # c => (CanLand(d)' <=> CanLand(d))
  BY DEF OthersSame, Same
<1> DEFINE old == {d \in Calls : CanLand(d)}
           new == {d \in Calls : CanLand(d)'}
<1>5. new = old
  BY <1>4
<1>6. /\ [d \in Calls |-> StageOf(d)][c] = "reading"
      /\ [d \in Calls |-> SeenBy(d)][c] = SeenBy(c)
  OBVIOUS
<1> QED BY <1>3, <1>5, <1>6 DEF Register!EndRead

(***************************************************************************)
(* Then, which step of the register each step of a call is.                *)
(***************************************************************************)
\* The other calls are mapped to the same state when only call c moves.
LEMMA OthersAreSame ==
  ASSUME NEW c \in Calls, \A d \in Calls : d # c => call'[d] = call[d],
         \A d \in Calls : d # c => (d \in mempool' <=> d \in mempool)
  PROVE  OthersSame(c)
  BY UnmovedIsSame DEF OthersSame

\* Starting a write begins one, refuses one, or is nothing to the register.
LEMMA StartMaps ==
  ASSUME FilesInv, NEW c \in Calls, NEW op \in Writes, NEW man, NEW chunks, NEW s \in Signing,
         op = "upload" => IsManifest(man), op # "upload" => man = None,
         Content(man) \in Contents \union {None},
         StartWrite(c, op, man, chunks, s)
  PROVE  [Register!Next]_(Register!regVars)
<1>1. /\ call[c].pc = "idle" /\ call'[c].op = op /\ call'[c].man = man
      /\ \A d \in Calls : d # c => call'[d] = call[d]
      /\ UNCHANGED <<mempool, file>>
      /\ \/ s = "good" /\ call'[c].pc = "submit" /\ call'[c].res = "none"
         \/ call'[c].pc = "done" /\ call'[c].res \in {"validation", "unsigned"}
  BY StartWriteSound
<1>2. OthersSame(c) /\ Content(file)' = Content(file)
  BY <1>1, OthersAreSame DEF Content
<1>3. call[c].op = "none" /\ call[c].res = "none" /\ c \notin mempool
  BY <1>1 DEF FilesInv, Sound
<1>4. /\ StageOf(c) = "idle" /\ IntentOf(c) = None /\ ~CanLand(c) /\ SeenBy(c) = None
      /\ AnswerOf(c) = "none" /\ ResultOf(c) = None
  BY <1>1, <1>3 DEF StageOf, IntentOf, CanLand, SeenBy, AnswerOf, ResultOf, IsWrite
<1>5. SeenBy(c)' = None /\ ResultOf(c)' = None
  BY <1>1 DEF SeenBy, ResultOf, Writes
<1>6. CASE op = "unregister"
  <2>1. /\ StageOf(c)' = "idle" /\ IntentOf(c)' = None /\ ~CanLand(c)'
        /\ AnswerOf(c)' = "none"
    BY <1>1, <1>6 DEF StageOf, IntentOf, CanLand, AnswerOf, IsWrite
  <2>2. \A d \in Calls : Same(d)
    BY <1>2, <1>4, <1>5, <2>1 DEF OthersSame, Same
  <2> QED BY <1>2, <2>2, Stutters
<1>7. CASE op # "unregister" /\ call'[c].pc = "submit" /\ call'[c].res = "none"
  <2>1. /\ StageOf(c)' = "writing" /\ IntentOf(c)' = Content(man) /\ CanLand(c)'
        /\ AnswerOf(c)' = "none"
    BY <1>1, <1>7 DEF StageOf, IntentOf, CanLand, AnswerOf, IsWrite, Writes
  <2>2. Register!BeginWrite(c, Content(man))
    BY <1>2, <1>4, <1>5, <2>1, BeginsWrite
  <2> QED BY <2>2 DEF Register!Next
<1>8. CASE op # "unregister" /\ call'[c].pc = "done" /\ call'[c].res \in {"validation", "unsigned"}
  <2>1. /\ StageOf(c)' = "returned" /\ IntentOf(c)' = None /\ ~CanLand(c)'
        /\ AnswerOf(c)' = "no"
    BY <1>1, <1>3, <1>8 DEF StageOf, IntentOf, CanLand, AnswerOf, IsWrite, Writes
  <2>2. Register!RefuseWrite(c)
    BY <1>2, <1>4, <1>5, <2>1, RefusesWrite
  <2> QED BY <2>2 DEF Register!Next
<1> QED BY <1>1, <1>6, <1>7, <1>8

\* A write that returns with r ends in the register with the answer of r.
LEMMA ReturnMaps ==
  ASSUME FilesInv, NEW c \in Calls, call[c].pc \in {"submit", "chunks"}, NEW r \in Outcomes,
         Moves(c, "done", call[c].chunks, call[c].i, call[c].man, r)
            \/ Moves(c, "done", call[c].chunks, call[c].i + 1, call[c].man, r),
         r \in {"ok", "refused", "mayland", "chunk"}, file' = file,
         \A d \in Calls : d # c => (d \in mempool' <=> d \in mempool),
         r = "refused" => c \notin mempool',
         r = "ok" => (c \in mempool' <=> (c \in mempool \/ call[c].pc = "submit")),
         c \in mempool' => c \in mempool \/ call[c].pc = "submit"
  PROVE  [Register!Next]_(Register!regVars)
<1>1. /\ call'[c].pc = "done" /\ call'[c].op = call[c].op /\ call'[c].man = call[c].man
      /\ call'[c].res = r
      /\ \A d \in Calls : d # c => call'[d] = call[d]
  BY DEF Moves
<1>2. OthersSame(c) /\ Content(file)' = Content(file)
  BY <1>1, OthersAreSame DEF Content
<1>3. call[c].op \in Writes /\ call[c].res = "none"
  BY DEF FilesInv, Sound, Writes
<1>4. SeenBy(c)' = SeenBy(c) /\ ResultOf(c)' = ResultOf(c)
  BY <1>1, <1>3 DEF SeenBy, ResultOf, Writes
<1>5. CASE call[c].op = "unregister"
  <2>1. /\ StageOf(c)' = StageOf(c) /\ IntentOf(c)' = IntentOf(c) /\ (CanLand(c)' <=> CanLand(c))
        /\ AnswerOf(c)' = AnswerOf(c)
    BY <1>1, <1>5 DEF StageOf, IntentOf, CanLand, AnswerOf, IsWrite
  <2>2. \A d \in Calls : Same(d)
    BY <1>2, <1>4, <2>1 DEF OthersSame, Same
  <2> QED BY <1>2, <2>2, Stutters
<1>6. CASE call[c].op # "unregister"
  <2> DEFINE a == IF r = "ok" THEN "yes" ELSE IF r = "refused" THEN "no" ELSE "maybe"
  <2>1. /\ StageOf(c) = "writing" /\ StageOf(c)' = "returned" /\ IntentOf(c)' = IntentOf(c)
    BY <1>1, <1>3, <1>6 DEF StageOf, IntentOf, IsWrite, Writes
  <2>2. AnswerOf(c)' = a
    BY <1>1, <1>3, <1>6 DEF AnswerOf, IsWrite, Writes
  <2>3. /\ CanLand(c)' <=> c \in mempool'
        /\ CanLand(c) <=> (c \in mempool \/ call[c].pc = "submit")
    BY <1>1, <1>3, <1>6 DEF CanLand, IsWrite, Writes
  <2>4. /\ a \in {"yes", "no", "maybe"}
        /\ a = "no" => r = "refused"
        /\ a = "yes" => r = "ok"
    OBVIOUS
  <2> HIDE DEF a
  <2>5. /\ a = "no" => ~CanLand(c)'
        /\ a = "yes" => (CanLand(c)' <=> CanLand(c))
        /\ CanLand(c)' => CanLand(c)
    BY <2>3, <2>4
  <2>6. Register!EndWrite(c, a)
    BY <1>2, <1>4, <2>1, <2>2, <2>4, <2>5, EndsWrite
  <2> QED BY <2>4, <2>6 DEF Register!Next
<1> QED BY <1>5, <1>6

\* The submission goes on to the chunks, which is nothing to the register, or
\* returns.
LEMMA SubmitMaps ==
  ASSUME FilesInv, NEW c \in Calls, SubmitAccepted(c) \/ SubmitRefused(c) \/ SubmitTimesOut(c)
  PROVE  [Register!Next]_(Register!regVars)
<1>1. /\ call[c].pc = "submit" /\ call[c].op \in Writes /\ call[c].res = "none" /\ c \notin mempool
      /\ file' = file
  BY DEF FilesInv, Sound, SubmitAccepted, SubmitRefused, SubmitTimesOut
<1>2. CASE SubmitAccepted(c) /\ call[c].op = "upload"
  <2>1. call' = [call EXCEPT ![c].pc = "chunks"] /\ mempool' = mempool \union {c}
    BY <1>2 DEF SubmitAccepted
  <2>2. Moves(c, "chunks", call[c].chunks, call[c].i, call[c].man, call[c].res)
    BY <2>1, AcceptedMoves DEF FilesInv
  <2>3. /\ call'[c].pc = "chunks" /\ call'[c].op = "upload" /\ call'[c].man = call[c].man
        /\ call'[c].res = "none" /\ \A d \in Calls : d # c => call'[d] = call[d]
    BY <1>1, <1>2, <2>2 DEF Moves
  <2>4. OthersSame(c) /\ Content(file)' = Content(file)
    BY <1>1, <2>1, <2>3, OthersAreSame DEF Content
  <2>5. Same(c)
    BY <1>1, <1>2, <2>1, <2>3
    DEF Same, StageOf, IntentOf, CanLand, SeenBy, AnswerOf, ResultOf, IsWrite
  <2> QED BY <2>4, <2>5, Stutters DEF OthersSame
<1>3. CASE SubmitAccepted(c) /\ call[c].op # "upload"
  <2>1. Return(c, "ok") /\ mempool' = mempool \union {c}
    BY <1>3 DEF SubmitAccepted
  <2> QED BY <1>1, <2>1, ReturnMoves, ReturnMaps DEF Outcomes, FilesInv
<1>4. CASE SubmitRefused(c)
  <2>1. Return(c, "refused") /\ mempool' = mempool
    BY <1>4 DEF SubmitRefused
  <2> QED BY <1>1, <2>1, ReturnMoves, ReturnMaps DEF Outcomes, FilesInv
<1>5. CASE SubmitTimesOut(c)
  <2>1. Return(c, "mayland") /\ (mempool' = mempool \/ mempool' = mempool \union {c})
    BY <1>5 DEF SubmitTimesOut
  <2> QED BY <1>1, <2>1, ReturnMoves, ReturnMaps DEF Outcomes, FilesInv
<1> QED BY <1>2, <1>3, <1>4, <1>5

\* A block makes a write take effect, or lets it lapse.
LEMMA LandMaps ==
  ASSUME FilesInv, NEW c \in Calls, Land(c)
  PROVE  [Register!Next]_(Register!regVars)
<1>1. /\ c \in mempool /\ mempool' = mempool \ {c} /\ call' = call
      /\ call[c].pc \in {"chunks", "done"} /\ call[c].op \in Writes
      /\ call[c].res \notin {"validation", "unsigned", "refused"}
      /\ \/ file' = file
         \/ call[c].op # "unregister" /\ file' = call[c].man
  BY LandSound
<1>2. OthersSame(c)
  BY <1>1, OthersAreSame
<1>3. /\ StageOf(c)' = StageOf(c) /\ IntentOf(c)' = IntentOf(c) /\ SeenBy(c)' = SeenBy(c)
      /\ AnswerOf(c)' = AnswerOf(c) /\ ResultOf(c)' = ResultOf(c)
  BY <1>1 DEF StageOf, IntentOf, SeenBy, AnswerOf, ResultOf, IsWrite
<1>4. CASE call[c].op = "unregister"
  <2>1. (CanLand(c)' <=> CanLand(c)) /\ file' = file
    BY <1>1, <1>4 DEF CanLand, IsWrite
  <2>2. Content(file)' = Content(file)
    BY <2>1 DEF Content
  <2>3. \A d \in Calls : Same(d)
    BY <1>2, <1>3, <2>1 DEF OthersSame, Same
  <2> QED BY <2>2, <2>3, Stutters
<1>5. CASE call[c].op # "unregister"
  <2>1. CanLand(c) /\ ~CanLand(c)' /\ IntentOf(c) = Content(call[c].man)
    BY <1>1, <1>5 DEF CanLand, IntentOf, IsWrite, Writes
  <2>2. CASE file' = file
    <3>1. Content(file)' = Content(file)
      BY <2>2 DEF Content
    <3>2. Register!Lapse(c)
      BY <1>2, <1>3, <2>1, <3>1, Lapses
    <3> QED BY <3>2 DEF Register!Next
  <2>3. CASE file' = call[c].man
    <3>1. Content(file)' = IntentOf(c)
      BY <2>1, <2>3 DEF Content
    <3>2. Register!TakeEffect(c)
      BY <1>2, <1>3, <2>1, <3>1, TakesEffect
    <3> QED BY <3>2 DEF Register!Next
  <2> QED BY <1>1, <2>2, <2>3
<1> QED BY <1>4, <1>5

\* The chunks of an upload are nothing to the register until the upload returns.
LEMMA ChunkStoredMaps ==
  ASSUME FilesInv, NEW c \in Calls, ChunkStored(c)
  PROVE  [Register!Next]_(Register!regVars)
<1>1. /\ call[c].pc = "chunks" /\ call[c].op = "upload" /\ call[c].res = "none"
      /\ mempool' = mempool /\ file' = file
      /\ \/ Moves(c, "chunks", call[c].chunks, call[c].i + 1, call[c].man, "none")
         \/ Moves(c, "done", call[c].chunks, call[c].i + 1, call[c].man, "ok")
  BY ChunkStoredSound
<1>2. CASE Moves(c, "chunks", call[c].chunks, call[c].i + 1, call[c].man, "none")
  <2>1. /\ call'[c].pc = "chunks" /\ call'[c].op = "upload" /\ call'[c].man = call[c].man
        /\ call'[c].res = "none" /\ \A d \in Calls : d # c => call'[d] = call[d]
    BY <1>1, <1>2 DEF Moves
  <2>2. OthersSame(c) /\ Content(file)' = Content(file)
    BY <1>1, <2>1, OthersAreSame DEF Content
  <2>3. Same(c)
    BY <1>1, <2>1 DEF Same, StageOf, IntentOf, CanLand, SeenBy, AnswerOf, ResultOf, IsWrite
  <2> QED BY <2>2, <2>3, Stutters DEF OthersSame
<1>3. CASE Moves(c, "done", call[c].chunks, call[c].i + 1, call[c].man, "ok")
  BY <1>1, <1>3, ReturnMaps DEF Outcomes
<1> QED BY <1>1, <1>2, <1>3

\* A download that returns without the file ends a read with an error.
LEMMA FailedReadMaps ==
  ASSUME FilesInv, NEW c \in Calls, call[c].pc \in {"metadata", "fetch"},
         \A d \in Calls : d # c => call'[d] = call[d], UNCHANGED <<mempool, file>>,
         call'[c].pc = "done", call'[c].op = "download", call'[c].man = call[c].man,
         call'[c].res # "ok" \/ FlattenSeq(call'[c].chunks) = Content(call[c].man)
  PROVE  [Register!Next]_(Register!regVars)
<1>1. call[c].op = "download" /\ call[c].res = "none"
  BY DEF FilesInv, Sound
<1>2. OthersSame(c) /\ Content(file)' = Content(file)
  BY OthersAreSame DEF Content
<1>3. /\ StageOf(c) = "reading" /\ StageOf(c)' = "returned" /\ IntentOf(c)' = IntentOf(c)
      /\ SeenBy(c)' = SeenBy(c) /\ AnswerOf(c)' = AnswerOf(c) /\ (CanLand(c)' <=> CanLand(c))
      /\ SeenBy(c) = Content(call[c].man)
  BY <1>1 DEF StageOf, IntentOf, SeenBy, AnswerOf, CanLand, IsWrite
<1>4. ResultOf(c)' = IF call'[c].res = "ok" THEN FlattenSeq(call'[c].chunks) ELSE None
  BY DEF ResultOf
<1>5. ResultOf(c)' \in {SeenBy(c), None}
  BY <1>3, <1>4
<1>6. Register!EndRead(c)
  BY <1>2, <1>3, <1>5, EndsRead
<1> QED BY <1>6 DEF Register!Next

\* The start of a download and the answer of Metadata begin a read and give it
\* its instant.
LEMMA ReadMaps ==
  ASSUME FilesInv, NEW c \in Calls, Download(c) \/ MetadataAnswers(c)
  PROVE  [Register!Next]_(Register!regVars)
<1>1. CASE Download(c)
  <2>1. /\ call[c].pc = "idle" /\ UNCHANGED <<mempool, file>>
        /\ call'[c].pc = "metadata" /\ call'[c].op = "download" /\ call'[c].man = None
        /\ call'[c].res = "none" /\ \A d \in Calls : d # c => call'[d] = call[d]
    BY <1>1, DownloadSound
  <2>2. OthersSame(c) /\ Content(file)' = Content(file)
    BY <2>1, OthersAreSame DEF Content
  <2>3. call[c].op = "none" /\ call[c].res = "none"
    BY <2>1 DEF FilesInv, Sound
  <2>4. /\ StageOf(c) = "idle" /\ StageOf(c)' = "reading" /\ IntentOf(c)' = IntentOf(c)
        /\ SeenBy(c)' = SeenBy(c) /\ AnswerOf(c)' = AnswerOf(c) /\ (CanLand(c)' <=> CanLand(c))
        /\ ResultOf(c)' = ResultOf(c)
    BY <2>1, <2>3 DEF StageOf, IntentOf, SeenBy, AnswerOf, CanLand, ResultOf, IsWrite, Content
  <2>5. Register!BeginRead(c)
    BY <2>2, <2>4, BeginsRead
  <2> QED BY <2>5 DEF Register!Next
<1>2. CASE MetadataAnswers(c)
  <2>1. /\ call[c].pc = "metadata" /\ UNCHANGED <<mempool, file>>
        /\ \/ \E r \in {"notfound", "shape"} :
                Moves(c, "done", call[c].chunks, call[c].i, call[c].man, r)
           \/ \E m : /\ m # None /\ file # None /\ m.content_hash = file.content_hash
                     /\ Moves(c, "fetch", call[c].chunks, call[c].i, m, call[c].res)
    BY <1>2, MetadataSound
  <2>2. call[c].op = "download" /\ call[c].res = "none" /\ call[c].man = None
    BY <2>1 DEF FilesInv, Sound
  <2>3. ASSUME NEW r \in {"notfound", "shape"}, Moves(c, "done", call[c].chunks, call[c].i, call[c].man, r)
        PROVE  [Register!Next]_(Register!regVars)
    <3>1. /\ call'[c].pc = "done" /\ call'[c].op = "download" /\ call'[c].man = call[c].man
          /\ call'[c].res # "ok" /\ \A d \in Calls : d # c => call'[d] = call[d]
      BY <2>2, <2>3 DEF Moves
    <3> QED BY <2>1, <3>1, FailedReadMaps
  <2>4. ASSUME NEW m, m # None, file # None, m.content_hash = file.content_hash,
               Moves(c, "fetch", call[c].chunks, call[c].i, m, call[c].res)
        PROVE  [Register!Next]_(Register!regVars)
    <3>1. /\ call'[c].pc = "fetch" /\ call'[c].op = "download" /\ call'[c].man = m
          /\ call'[c].res = "none" /\ \A d \in Calls : d # c => call'[d] = call[d]
      BY <2>2, <2>4 DEF Moves
    <3>2. OthersSame(c) /\ Content(file)' = Content(file) /\ Content(m) = Content(file)
      BY <2>1, <2>4, <3>1, OthersAreSame DEF Content
    <3>3. /\ StageOf(c) = "reading" /\ StageOf(c)' = StageOf(c) /\ IntentOf(c)' = IntentOf(c)
          /\ AnswerOf(c)' = AnswerOf(c) /\ (CanLand(c)' <=> CanLand(c)) /\ ResultOf(c)' = ResultOf(c)
      BY <2>1, <2>2, <3>1 DEF StageOf, IntentOf, AnswerOf, CanLand, ResultOf, IsWrite
    <3>4. SeenBy(c) = None /\ SeenBy(c)' = Content(m)
      BY <2>2, <3>1 DEF SeenBy, Content
    <3>5. Register!Look(c)
      BY <3>2, <3>3, <3>4, Looks
    <3> QED BY <3>5 DEF Register!Next
  <2> QED BY <2>1, <2>3, <2>4
<1> QED BY <1>1, <1>2

\* A chunk that is answered is nothing to the register until the download
\* returns, with the whole content it saw or with an error.
LEMMA ChunkAnswersMaps ==
  ASSUME FilesInv, NEW c \in Calls, ChunkAnswers(c)
  PROVE  [Register!Next]_(Register!regVars)
<1>1. /\ call[c].pc = "fetch" /\ UNCHANGED <<mempool, file>>
      /\ \A d \in Calls : d # c => call'[d] = call[d]
      /\ call'[c].op = "download" /\ call'[c].man = call[c].man
      /\ \/ call'[c].pc = "fetch" /\ call'[c].res = "none"
         \/ /\ call'[c].pc = "done"
            /\ call'[c].res = "ok" => FlattenSeq(call'[c].chunks) = call[c].man.content_hash[2]
  BY ChunkAnswersSound
<1>2. call[c].op = "download" /\ call[c].res = "none" /\ call[c].man # None
  BY <1>1 DEF FilesInv, Sound
<1>3. CASE call'[c].pc = "fetch" /\ call'[c].res = "none"
  <2>1. OthersSame(c) /\ Content(file)' = Content(file)
    BY <1>1, OthersAreSame DEF Content
  <2>2. Same(c)
    BY <1>1, <1>2, <1>3 DEF Same, StageOf, IntentOf, CanLand, SeenBy, AnswerOf, ResultOf, IsWrite
  <2> QED BY <2>1, <2>2, Stutters DEF OthersSame
<1>4. CASE /\ call'[c].pc = "done"
           /\ call'[c].res = "ok" => FlattenSeq(call'[c].chunks) = call[c].man.content_hash[2]
  <2>1. Content(call[c].man) = call[c].man.content_hash[2]
    BY <1>2 DEF Content
  <2> QED BY <1>1, <1>4, <2>1, FailedReadMaps
<1> QED BY <1>1, <1>3, <1>4

\* A request that fails ends a write with "maybe" or a read with an error.
LEMMA FailuresMap ==
  ASSUME FilesInv, NEW c \in Calls,
         ChunkRefused(c) \/ ChunkTimesOut(c) \/ MetadataTimesOut(c) \/ FetchTimesOut(c)
  PROVE  [Register!Next]_(Register!regVars)
<1>1. /\ UNCHANGED <<mempool, file>>
      /\ \/ /\ call[c].pc = "chunks"
            /\ Moves(c, "done", call[c].chunks, call[c].i, call[c].man, "chunk")
         \/ /\ call[c].pc \in {"metadata", "fetch"}
            /\ Moves(c, "done", call[c].chunks, call[c].i, call[c].man, "failed")
  BY FailuresSound
<1>2. CASE call[c].pc = "chunks" /\ Moves(c, "done", call[c].chunks, call[c].i, call[c].man, "chunk")
  BY <1>1, <1>2, ReturnMaps DEF Outcomes
<1>3. CASE /\ call[c].pc \in {"metadata", "fetch"}
           /\ Moves(c, "done", call[c].chunks, call[c].i, call[c].man, "failed")
  <2>1. call[c].op = "download"
    BY <1>3 DEF FilesInv, Sound
  <2>2. /\ call'[c].pc = "done" /\ call'[c].op = "download" /\ call'[c].man = call[c].man
        /\ call'[c].res # "ok" /\ \A d \in Calls : d # c => call'[d] = call[d]
    BY <1>3, <2>1 DEF Moves
  <2> QED BY <1>1, <1>3, <2>2, FailedReadMaps
<1> QED BY <1>1, <1>2, <1>3

\* The file operations implement the atomic register of FileRegister, for any
\* number of calls, contents, chunk sizes and answers: a download returns the
\* whole content the key held at one instant of it, and a write reported
\* refused never takes effect (UploadContext, DeleteContext, DownloadContext).
THEOREM FilesAreAtomic == Spec => AtomicFile
<1>1. Init => Register!Init
  <2> SUFFICES ASSUME Init PROVE Register!Init
    OBVIOUS
  <2>1. mempool = {} /\ file = None /\ \A c \in Calls : call[c] = Idle
    BY DEF Init
  <2>2. Idle.pc = "idle" /\ Idle.op = "none" /\ Idle.res = "none"
    BY DEF Idle
  <2>3. \A c \in Calls : /\ StageOf(c) = "idle" /\ IntentOf(c) = None /\ ~CanLand(c)
                          /\ SeenBy(c) = None /\ AnswerOf(c) = "none" /\ ResultOf(c) = None
    BY <2>1, <2>2 DEF StageOf, IntentOf, CanLand, SeenBy, AnswerOf, ResultOf, IsWrite
  <2>4. Content(file) = None
    BY <2>1 DEF Content
  <2> QED BY <2>3, <2>4 DEF Register!Init
<1>2. FilesInv /\ [Next]_vars => [Register!Next]_(Register!regVars)
  <2> SUFFICES ASSUME FilesInv, [Next]_vars PROVE [Register!Next]_(Register!regVars)
    OBVIOUS
  <2>1. CASE UNCHANGED vars
    <3>1. /\ \A d \in Calls : call'[d] = call[d] /\ (d \in mempool' <=> d \in mempool)
          /\ Content(file)' = Content(file)
      BY <2>1 DEF vars, Content
    <3>2. \A d \in Calls : Same(d)
      BY <3>1, UnmovedIsSame
    <3> QED BY <3>1, <3>2, Stutters
  <2>2. ASSUME NEW c \in Calls, Upload(c) PROVE [Register!Next]_(Register!regVars)
    <3>1. PICK data \in Contents, s \in Signing :
            StartWrite(c, "upload", ManifestOf(data), chunkData(data), s)
      BY <2>2 DEF Upload
    <3>2. Content(ManifestOf(data)) \in Contents \union {None}
      BY ManifestOfData DEF Content
    <3> QED BY <3>1, <3>2, ManifestOfData, StartMaps DEF Writes
  <2>3. ASSUME NEW c \in Calls, Delete(c) \/ UnregisterStorageNode(c)
        PROVE  [Register!Next]_(Register!regVars)
    <3>1. PICK s \in Signing, op \in {"delete", "unregister"} : StartWrite(c, op, None, <<>>, s)
      BY <2>3 DEF Delete, UnregisterStorageNode
    <3>2. Content(None) = None
      BY DEF Content
    <3> QED BY <3>1, <3>2, StartMaps DEF Writes
  <2> QED
    BY <2>1, <2>2, <2>3, SubmitMaps, LandMaps, ChunkStoredMaps, ReadMaps, ChunkAnswersMaps, FailuresMap
    DEF Next
<1> QED BY <1>1, <1>2, FilesInvInit, FilesInvStep, PTL DEF Spec, AtomicFile, Register!Spec

(***************************************************************************)
(* Chunks.  What chunkData cuts has the lengths Download expects, and      *)
(* joins to the data again.                                                *)
(***************************************************************************)
\* The last byte of chunk j, counted from 1, in data of n bytes.
End(n, j) == IF j * ChunkSize > n THEN n ELSE j * ChunkSize

\* Multiples of a size.
LEMMA Multiples ==
  ASSUME NEW s \in Nat, NEW a \in Nat, NEW b \in Nat, a <= b
  PROVE  /\ a * s \in Nat /\ b * s \in Nat
         /\ a * s <= b * s
         /\ (a + 1) * s = a * s + s
<1>2. PICK d \in Nat : b = a + d
  <2>1. b - a \in Nat /\ b = a + (b - a)
    OBVIOUS
  <2> QED BY <2>1
<1>3. a * s \in Nat /\ d * s \in Nat /\ (a + d) * s = a * s + d * s
  OBVIOUS
<1>4. b * s = a * s + d * s
  BY <1>2, <1>3, Zenon
<1>5. a * s <= b * s /\ b * s \in Nat
  <2> DEFINE x == a * s
             y == d * s
             z == b * s
  <2> HIDE DEF x, y, z
  <2>1. x \in Nat /\ y \in Nat /\ z = x + y
    BY <1>3, <1>4 DEF x, y, z
  <2>2. x <= z /\ z \in Nat
    BY <2>1
  <2> QED BY <2>2 DEF x, z
<1>6. (a + 1) * s = a * s + s
  OBVIOUS
<1> QED BY <1>3, <1>5, <1>6

\* What chunkData cuts.
LEMMA CutIs ==
  ASSUME NEW data \in Contents
  PROVE  /\ data \in Seq(Bytes) /\ Len(data) \in Nat
         /\ Len(chunkData(data)) \in Nat
         /\ chunkData(data) \in Seq(Seq(Bytes))
         /\ \A j \in 1 .. Len(chunkData(data)) :
              chunkData(data)[j] = SubSeq(data, (j - 1) * ChunkSize + 1, End(Len(data), j))
<1> DEFINE n == Len(data)
           k == (n + ChunkSize - 1) \div ChunkSize
           cut(j) == SubSeq(data, (j - 1) * ChunkSize + 1, End(n, j))
           ch == [j \in 1 .. k |-> cut(j)]
<1>1. data \in Seq(Bytes) /\ n \in Nat
  BY ContentsAreBytes
<1>2. k \in Nat
  <2>1. n + ChunkSize - 1 \in Nat BY <1>1
  <2>2. \A x \in Nat, y \in Nat \ {0} : x \div y \in Nat
    OBVIOUS
  <2> HIDE DEF n
  <2>3. ChunkSize \in Nat \ {0}
    OBVIOUS
  <2> QED BY <2>1, <2>2, <2>3, Zenon
<1>3. chunkData(data) = ch
  BY DEF chunkData, End
<1>4. ASSUME NEW j \in 1 .. k PROVE cut(j) \in Seq(Bytes)
  <2>1. (j - 1) * ChunkSize \in Nat /\ j * ChunkSize \in Nat
    BY <1>2, Multiples
  <2>2. End(n, j) \in 0 .. n
    BY <1>1, <2>1 DEF End
  <2> DEFINE from == (j - 1) * ChunkSize + 1
             to == End(n, j)
  <2>3. from \in Int /\ to \in Int /\ from >= 1 /\ to <= Len(data)
    BY <2>1, <2>2
  <2> HIDE DEF from, to
  <2>4. \A i \in from .. to : data[i] \in Bytes
    BY <1>1, <2>3
  <2>5. SubSeq(data, from, to) \in Seq(Bytes)
    BY <2>3, <2>4, SubSeqProperties
  <2> QED BY <2>5 DEF from, to
<1> HIDE DEF k, cut
<1>5. ch \in Seq(Seq(Bytes)) /\ Len(ch) = k /\ \A j \in 1 .. k : ch[j] = cut(j)
  BY <1>2, <1>4
<1> QED BY <1>1, <1>2, <1>3, <1>5 DEF cut

\* With sizes the chain accepts, chunk j ends at its multiple of the chunk
\* size but for the last, which ends with the data, and has the length
\* Download expects of it.
LEMMA CutEnds ==
  ASSUME NEW data \in Contents, checkFileShape(ManifestOf(data)), NEW j \in 1 .. Len(chunkData(data))
  PROVE  /\ Len(chunkData(data)) > 0
         /\ (j - 1) * ChunkSize \in Nat /\ (j - 1) * ChunkSize < End(Len(data), j)
         /\ End(Len(data), j) <= Len(data) /\ End(Len(data), j) \in Nat
         /\ j < Len(chunkData(data)) => End(Len(data), j) = (j - 1) * ChunkSize + ChunkSize
         /\ j = Len(chunkData(data)) => End(Len(data), j) = Len(data)
         /\ Len(chunkData(data)[j]) = End(Len(data), j) - (j - 1) * ChunkSize
         /\ Len(chunkData(data)[j]) = Want(ManifestOf(data), j - 1)
         /\ Len(chunkData(data)[j]) <= ChunkSize
<1> DEFINE n == Len(data)
           k == Len(chunkData(data))
           p == (j - 1) * ChunkSize
           q == j * ChunkSize
           l == (k - 1) * ChunkSize
           e == End(n, j)
<1>1. /\ n \in Nat /\ k \in Nat /\ data \in Seq(Bytes)
      /\ chunkData(data)[j] = SubSeq(data, p + 1, e)
  BY CutIs
<1>2. n <= k * ChunkSize /\ n > l
  BY DEF checkFileShape, ManifestOf
<1>3. /\ p \in Nat /\ q \in Nat /\ q = p + ChunkSize /\ l \in Nat /\ k * ChunkSize = l + ChunkSize
      /\ p <= l /\ (j < k => q <= l) /\ (j = k => q = l + ChunkSize)
  <2>1. /\ j - 1 \in Nat /\ k - 1 \in Nat /\ j - 1 <= k - 1 /\ j = (j - 1) + 1 /\ k = (k - 1) + 1 /\ j \in Nat
        /\ j < k => j <= k - 1
    BY <1>1
  <2>2. /\ p \in Nat /\ l \in Nat /\ p <= l
        /\ ((j - 1) + 1) * ChunkSize = p + ChunkSize
    BY <2>1, Multiples
  <2>3. ((k - 1) + 1) * ChunkSize = l + ChunkSize
    BY <2>1, Multiples
  <2>4. ASSUME j < k PROVE q <= l
    BY <2>1, <2>4, Multiples
  <2>5. q = p + ChunkSize
    BY <2>1, <2>2, Zenon
  <2>6. k * ChunkSize = l + ChunkSize
    BY <2>1, <2>3, Zenon
  <2> HIDE DEF p, q, l
  <2>7. q \in Nat
    BY <2>2, <2>5
  <2> QED BY <2>2, <2>4, <2>5, <2>6, <2>7
<1>4. e = IF q > n THEN n ELSE q
  BY DEF End
<1>5. Want(ManifestOf(data), j - 1) = IF j - 1 = k - 1 THEN n - (j - 1) * ChunkSize ELSE ChunkSize
  BY DEF Want, ManifestOf
<1>6. Want(ManifestOf(data), j - 1) = IF j = k THEN n - p ELSE ChunkSize
  BY <1>1, <1>5
<1> HIDE DEF n, k, p, q, l, e
<1>7. /\ e \in Nat /\ e <= n /\ p < e /\ (j < k => e = p + ChunkSize) /\ (j = k => e = n)
      /\ e - p <= ChunkSize /\ k > 0
  BY <1>1, <1>2, <1>3, <1>4
<1>8. Len(SubSeq(data, p + 1, e)) = e - p
  <2>1. p + 1 \in Int /\ e \in Int /\ p + 1 <= e /\ p + 1 >= 1 /\ e <= Len(data)
    BY <1>3, <1>7 DEF n
  <2>2. \A i \in p + 1 .. e : data[i] \in Bytes
    BY <1>1, <2>1
  <2>3. Len(SubSeq(data, p + 1, e)) = e - (p + 1) + 1
    BY <2>1, <2>2, SubSeqProperties
  <2> QED BY <1>3, <1>7, <2>3
<1>9. Want(ManifestOf(data), j - 1) = e - p
  <2>1. j = k \/ j < k
    BY <1>1 DEF k
  <2> QED BY <1>3, <1>6, <1>7, <2>1
<1> QED BY <1>1, <1>3, <1>7, <1>8, <1>9 DEF n, k, p, q, e

\* The chunks of a file join to its data.
LEMMA ChunksJoin ==
  ASSUME NEW data \in Contents, checkFileShape(ManifestOf(data))
  PROVE  FlattenSeq(chunkData(data)) = data
<1> DEFINE n == Len(data)
           ch == chunkData(data)
           k == Len(ch)
           h == [j \in 1 .. k |-> SubSeq(data, 1, End(n, j))]
<1>1. /\ data \in Seq(Bytes) /\ n \in Nat /\ k \in Nat
      /\ \A j \in 1 .. k : ch[j] = SubSeq(data, (j - 1) * ChunkSize + 1, End(n, j))
  BY CutIs
<1>2. k # 0
  BY DEF checkFileShape, ManifestOf
<1>3. ASSUME NEW j \in 1 .. k PROVE h[j] = IF j = 1 THEN ch[j] ELSE h[j - 1] \o ch[j]
  <2>1. /\ (j - 1) * ChunkSize \in Nat /\ (j - 1) * ChunkSize < End(n, j)
        /\ End(n, j) <= n /\ End(n, j) \in Nat
    BY CutEnds
  <2>2. CASE j = 1
    <3>1. (j - 1) * ChunkSize = 0
      BY <2>2
    <3>2. ch[j] = SubSeq(data, 1, End(n, j))
      BY <1>1, <3>1
    <3> QED BY <2>2, <3>2
  <2>3. CASE j # 1
    <3>1. j - 1 \in 1 .. k /\ j - 1 < k /\ j \in Nat
      BY <1>1, <2>3
    <3>2. End(n, j - 1) = (j - 1 - 1) * ChunkSize + ChunkSize
      BY <3>1, CutEnds
    <3>3. (j - 1) * ChunkSize = (j - 1 - 1) * ChunkSize + ChunkSize
      <4>1. j - 1 - 1 \in Nat /\ (j - 1 - 1) + 1 = j - 1
        BY <3>1
      <4>2. ((j - 1 - 1) + 1) * ChunkSize = (j - 1 - 1) * ChunkSize + ChunkSize
        BY <4>1, Multiples
      <4> QED BY <4>1, <4>2
    <3> DEFINE e == End(n, j - 1)
               f == End(n, j)
    <3>4. ch[j] = SubSeq(data, e + 1, f)
      BY <1>1, <3>2, <3>3
    <3>5. e \in Nat /\ e < f /\ f \in Nat /\ f <= n
      BY <2>1, <3>2, <3>3
    <3>6. h[j] = SubSeq(data, 1, f) /\ h[j - 1] = SubSeq(data, 1, e)
      BY <3>1
    <3> HIDE DEF e, f
    <3>7. 1 \in 1 .. Len(data) + 1 /\ e \in 1 - 1 .. Len(data) /\ f \in e .. Len(data)
      BY <1>1, <3>5
    <3>8. SubSeq(data, 1, e) \o SubSeq(data, e + 1, f) = SubSeq(data, 1, f)
      BY <1>1, <3>7, ConcatAdjacentSubSeq
    <3> QED BY <2>3, <3>4, <3>6, <3>8
  <2> QED BY <2>2, <2>3
<1>4. h[k] = data
  <2>1. k \in 1 .. k
    BY <1>1, <1>2
  <2>2. End(n, k) = n
    BY <2>1, CutEnds
  <2>3. SubSeq(data, 1, n) = data
    BY <1>1, SubSeqFull
  <2> QED BY <2>1, <2>2, <2>3
<1> HIDE DEF n
<1>5. Joins(h, ch)
  <2>1. h = [j \in 1 .. k |-> h[j]]
    OBVIOUS
  <2> HIDE DEF h, ch, k
  <2> QED BY <1>3, <2>1 DEF Joins, k
<1> HIDE DEF h, ch
<1> QED BY <1>1, <1>2, <1>4, <1>5, FlattenIs DEF ch

(***************************************************************************)
(* Honest answers.  The chain holds manifests of contents it accepted, a   *)
(* storage node only their chunks, an upload knows which of its chunks are *)
(* stored, and a download that was not misled has the first chunks of the  *)
(* content its manifest names.                                             *)
(***************************************************************************)
\* Chunk j of some data, as a storage node keeps it.
Piece(data, j) == <<Sha256(data), j, chunkData(data)[j + 1]>>

\* The chain holds only manifests of contents with sizes it accepts, and a
\* storage node only chunks of contents, each under its own content hash.
FileTrue(f) == f = None \/ \E data \in Contents : f = ManifestOf(data) /\ checkFileShape(f)

StoredTrue(S) ==
  \A s \in S : \E data \in Contents : \E j \in 0 .. Len(chunkData(data)) - 1 : s = Piece(data, j)

\* How far an upload of data has come.
Uploads(c, q, pool, S, data) ==
  /\ q.man = ManifestOf(data) /\ q.chunks = chunkData(data)
  /\ q.pc = "submit" => q.i = 0
  /\ q.pc = "chunks" \/ q.res \in {"ok", "chunk"} \/ c \in pool => checkFileShape(q.man)
  /\ q.pc = "chunks" => q.i < Len(chunkData(data))
  /\ q.res = "ok" => q.i = Len(chunkData(data))
  /\ q.i <= Len(chunkData(data))
  /\ \A j \in 0 .. q.i - 1 : Piece(data, j) \in S

UploadTrue(c, q, pool, S) ==
  q.op = "upload" => \E data \in Contents : Uploads(c, q, pool, S, data)

\* How far a download of data has come.
Downloads(q, data) ==
  q.man = ManifestOf(data) /\ checkFileShape(q.man) /\ q.chunks = SubSeq(chunkData(data), 1, q.i)

Faults == {"shape", "toolong", "overlong", "root", "hash"}

DownloadTrue(c, q, mis) ==
  q.op = "download" =>
    /\ q.pc = "metadata" => q.chunks = <<>>
    /\ c \notin mis => /\ q.pc = "fetch" => \E data \in Contents : Downloads(q, data)
                       /\ q.res \notin Faults

HonestInv ==
  /\ FileTrue(file) /\ StoredTrue(stored)
  /\ \A c \in Calls : UploadTrue(c, call[c], mempool, stored) /\ DownloadTrue(c, call[c], misled)

\* Only one chunk is ever kept under a key, the one of the data with its hash.
LEMMA OnePiece ==
  ASSUME NEW S, StoredTrue(S), NEW s \in S, NEW data, NEW j, <<s[1], s[2]>> = <<Sha256(data), j>>
  PROVE  s = Piece(data, j)
<1>1. PICK d, i : d \in Contents /\ s = Piece(d, i)
  BY DEF StoredTrue
<1>2. s[1] = Sha256(d) /\ s[2] = i
  BY <1>1 DEF Piece
<1>3. Sha256(d) = Sha256(data) /\ i = j
  BY <1>2
<1>4. d = data
  BY <1>3 DEF Sha256
<1> QED BY <1>1, <1>3, <1>4

LEMMA KeyIs ==
  ASSUME NEW data, NEW j
  PROVE  /\ StoreKey(ManifestOf(data), j) = <<Sha256(data), j>>
         /\ ManifestOf(data).content_hash = Sha256(data)
         /\ ManifestOf(data).chunk_count = Len(chunkData(data))
         /\ ManifestOf(data).merkle_root = computeMerkleRoot(Hashes(chunkData(data)))
  BY DEF StoreKey, ManifestOf

\* What a storage node has under the key of a chunk is that chunk.
LEMMA HeldIs ==
  ASSUME StoredTrue(stored), NEW data, NEW j
  PROVE  /\ ChunksAt(StoreKey(ManifestOf(data), j)) \subseteq {chunkData(data)[j + 1]}
         /\ Piece(data, j) \in stored
              => ChunksAt(StoreKey(ManifestOf(data), j)) = {chunkData(data)[j + 1]}
<1> DEFINE key == <<Sha256(data), j>>
           at == {t \in stored : <<t[1], t[2]>> = key}
<1>1. ChunksAt(StoreKey(ManifestOf(data), j)) = {s[3] : s \in at}
  BY KeyIs DEF ChunksAt
<1>2. ASSUME NEW s \in at PROVE s = Piece(data, j)
  BY OnePiece
<1>3. Piece(data, j)[3] = chunkData(data)[j + 1] /\ <<Piece(data, j)[1], Piece(data, j)[2]>> = key
  BY DEF Piece
<1>4. Piece(data, j) \in stored => Piece(data, j) \in at
  BY <1>3
<1> HIDE DEF at
<1> QED BY <1>1, <1>2, <1>3, <1>4

\* Storing a chunk adds it and takes nothing away.
LEMMA StoreAdds ==
  ASSUME FilesInv, HonestInv, NEW c \in Calls, call[c].pc = "chunks", Store(c),
         NEW data \in Contents, Uploads(c, call[c], mempool, stored, data)
  PROVE  /\ stored \subseteq stored' /\ StoredTrue(stored')
         /\ Piece(data, call[c].i) \in stored'
<1> DEFINE i == call[c].i
           key == <<Sha256(data), i>>
<1>1. /\ call[c].man = ManifestOf(data) /\ call[c].chunks = chunkData(data)
      /\ i < Len(chunkData(data)) /\ i \in Nat
  BY DEF Uploads, FilesInv, Sound
<1>2. StoreKey(call[c].man, i) = key
  BY <1>1, KeyIs
<1>3. stored' = {s \in stored : <<s[1], s[2]>> # key} \union {Piece(data, i)}
  BY <1>1, <1>2 DEF Store, Piece
<1>4. StoredTrue(stored)
  BY DEF HonestInv
<1>5. \A s \in stored : <<s[1], s[2]>> = key => s = Piece(data, i)
  BY <1>4, OnePiece
<1>6. i \in 0 .. Len(chunkData(data)) - 1
  BY <1>1, CutIs
<1> HIDE DEF i, key
<1>7. stored \subseteq stored' /\ Piece(data, i) \in stored'
  BY <1>3, <1>5
<1>8. ASSUME NEW s \in stored' PROVE \E d \in Contents : \E j \in 0 .. Len(chunkData(d)) - 1 : s = Piece(d, j)
  <2>1. CASE s \in stored
    BY <1>4, <2>1 DEF StoredTrue
  <2>2. CASE s = Piece(data, i)
    BY <1>6, <2>2
  <2> QED BY <1>3, <2>1, <2>2
<1> QED BY <1>7, <1>8 DEF StoredTrue, i

\* When only call c moves, nothing stored is lost and no download becomes
\* honest again, the other calls stay true.
LEMMA OthersStayTrue ==
  ASSUME HonestInv, NEW c \in Calls, \A d \in Calls : d # c => call'[d] = call[d],
         \A d \in Calls : d # c => (d \in mempool' => d \in mempool),
         stored \subseteq stored', misled \subseteq misled', FileTrue(file'), StoredTrue(stored'),
         UploadTrue(c, call'[c], mempool', stored'), DownloadTrue(c, call'[c], misled')
  PROVE  HonestInv'
<1>1. ASSUME NEW d \in Calls, d # c
      PROVE  UploadTrue(d, call'[d], mempool', stored') /\ DownloadTrue(d, call'[d], misled')
  <2> DEFINE q == call[d]
  <2>1. /\ call'[d] = q /\ UploadTrue(d, q, mempool, stored) /\ DownloadTrue(d, q, misled)
        /\ d \in mempool' => d \in mempool
    BY <1>1 DEF HonestInv
  <2> HIDE DEF q
  <2>2. UploadTrue(d, q, mempool', stored')
    <3>1. \A data : Uploads(d, q, mempool, stored, data) => Uploads(d, q, mempool', stored', data)
      BY <2>1 DEF Uploads
    <3> QED BY <2>1, <3>1 DEF UploadTrue
  <2>3. DownloadTrue(d, q, misled')
    BY <2>1 DEF DownloadTrue
  <2> QED BY <2>1, <2>2, <2>3
<1> QED BY <1>1 DEF HonestInv

\* A call that returns with its locals stays true when what it is told is.
LEMMA ReturnTrue ==
  ASSUME FilesInv, HonestInv, NEW c \in Calls, NEW r \in Outcomes,
         Moves(c, "done", call[c].chunks, call[c].i, call[c].man, r),
         \A d \in Calls : d # c => (d \in mempool' => d \in mempool),
         c \in mempool' => c \in mempool \/ (call[c].op = "upload" => checkFileShape(call[c].man)),
         stored \subseteq stored', misled \subseteq misled', file' = file, StoredTrue(stored'),
         call[c].op = "upload" => r # "ok",
         r = "chunk" => call[c].pc = "chunks",
         call[c].op = "download" /\ c \notin misled' => r \notin Faults
  PROVE  HonestInv'
<1> DEFINE p == call[c]
           q == [pc |-> "done", op |-> p.op, chunks |-> p.chunks, i |-> p.i, man |-> p.man, res |-> r]
<1>1. call'[c] = q /\ \A d \in Calls : d # c => call'[d] = call[d]
  BY DEF Moves
<1>2. UploadTrue(c, p, mempool, stored) /\ FileTrue(file)
  BY DEF HonestInv
<1>3. UploadTrue(c, q, mempool', stored')
  <2> SUFFICES ASSUME p.op = "upload" PROVE \E data \in Contents : Uploads(c, q, mempool', stored', data)
    BY DEF UploadTrue
  <2>1. PICK data \in Contents : Uploads(c, p, mempool, stored, data)
    BY <1>2 DEF UploadTrue
  <2> HIDE DEF p
  <2>2. Uploads(c, q, mempool', stored', data)
    BY <2>1 DEF Uploads, p
  <2> QED BY <2>2
<1>4. DownloadTrue(c, q, misled')
  BY DEF DownloadTrue
<1> HIDE DEF p, q
<1> QED BY <1>1, <1>2, <1>3, <1>4, OthersStayTrue

\* Starting a write: an upload has cut its chunks and sent nothing.
LEMMA StartWriteTrue ==
  ASSUME FilesInv, HonestInv, NEW c \in Calls, NEW op \in Writes, NEW man, NEW chunks, NEW s \in Signing,
         op = "upload" => \E data \in Contents : man = ManifestOf(data) /\ chunks = chunkData(data),
         StartWrite(c, op, man, chunks, s)
  PROVE  HonestInv'
<1> DEFINE res == CASE s = "none" -> "validation" [] s = "fails" -> "unsigned" [] s = "good" -> "none"
           pc == IF s = "good" THEN "submit" ELSE "done"
           q == [pc |-> pc, op |-> op, chunks |-> chunks, i |-> 0, man |-> man, res |-> res]
<1>1. /\ call' = [call EXCEPT ![c] = q] /\ call[c].pc = "idle"
      /\ UNCHANGED <<mempool, file, stored, misled>>
  BY DEF StartWrite
<1>2. res \notin {"ok", "chunk"} /\ pc \in {"submit", "done"}
  BY DEF Signing
<1> HIDE DEF res, pc
<1>3. q = Local(q)
  BY DEF Local
<1>4. /\ call'[c] = q /\ \A d \in Calls : d # c => call'[d] = call[d]
  BY <1>1, <1>3, SetMoves DEF FilesInv
<1>5. c \notin mempool /\ FileTrue(file) /\ StoredTrue(stored)
  BY <1>1 DEF FilesInv, Sound, HonestInv
<1>6. UploadTrue(c, q, mempool, stored)
  <2> SUFFICES ASSUME op = "upload" PROVE \E data \in Contents : Uploads(c, q, mempool, stored, data)
    BY DEF UploadTrue
  <2>1. PICK data \in Contents : man = ManifestOf(data) /\ chunks = chunkData(data)
    OBVIOUS
  <2>2. Len(chunkData(data)) \in Nat
    BY CutIs
  <2>3. Uploads(c, q, mempool, stored, data)
    BY <1>2, <1>5, <2>1, <2>2 DEF Uploads
  <2> QED BY <2>3
<1>7. DownloadTrue(c, q, misled)
  BY DEF DownloadTrue, Writes
<1> HIDE DEF q
<1> QED BY <1>1, <1>4, <1>5, <1>6, <1>7, OthersStayTrue

\* Starting a download.
LEMMA DownloadStartTrue ==
  ASSUME FilesInv, HonestInv, NEW c \in Calls, Download(c)
  PROVE  HonestInv'
<1> DEFINE q == [pc |-> "metadata", op |-> "download", chunks |-> <<>>, i |-> 0, man |-> None, res |-> "none"]
<1>1. /\ call' = [call EXCEPT ![c] = q] /\ UNCHANGED <<mempool, file, stored, misled>>
  BY DEF Download
<1>2. q = Local(q)
  BY DEF Local
<1>3. call'[c] = q /\ \A d \in Calls : d # c => call'[d] = call[d]
  BY <1>1, <1>2, SetMoves DEF FilesInv
<1>4. UploadTrue(c, q, mempool, stored) /\ DownloadTrue(c, q, misled)
  BY DEF UploadTrue, DownloadTrue, Faults
<1>5. FileTrue(file) /\ StoredTrue(stored)
  BY DEF HonestInv
<1> HIDE DEF q
<1> QED BY <1>1, <1>3, <1>4, <1>5, OthersStayTrue

\* The submission of a write: the chain takes only sizes it accepts.
LEMMA SubmitTrue ==
  ASSUME FilesInv, HonestInv, NEW c \in Calls, SubmitAccepted(c) \/ SubmitRefused(c) \/ SubmitTimesOut(c)
  PROVE  HonestInv'
<1>1. /\ call[c].pc = "submit" /\ call[c].op \in Writes /\ call[c].res = "none" /\ c \notin mempool
      /\ Sound(c, call[c], mempool) /\ UNCHANGED <<file, stored, misled>>
      /\ \A d \in Calls : d # c => (d \in mempool' => d \in mempool)
      /\ call[c].op # "download"
  BY DEF FilesInv, Sound, SubmitAccepted, SubmitRefused, SubmitTimesOut, Writes
<1>2. FileTrue(file) /\ StoredTrue(stored) /\ UploadTrue(c, call[c], mempool, stored)
  BY DEF HonestInv
<1>3. CASE SubmitAccepted(c) /\ call[c].op = "upload"
  <2>1. /\ call' = [call EXCEPT ![c].pc = "chunks"] /\ mempool' = mempool \union {c}
        /\ checkFileShape(call[c].man)
    BY <1>3 DEF SubmitAccepted, CheckTx
  <2>2. Moves(c, "chunks", call[c].chunks, call[c].i, call[c].man, call[c].res)
    BY <2>1, AcceptedMoves DEF FilesInv
  <2> DEFINE p == call[c]
             q == [pc |-> "chunks", op |-> p.op, chunks |-> p.chunks, i |-> p.i, man |-> p.man, res |-> p.res]
  <2>3. call'[c] = q /\ \A d \in Calls : d # c => call'[d] = call[d]
    BY <2>2 DEF Moves
  <2>4. PICK data \in Contents : Uploads(c, p, mempool, stored, data)
    BY <1>2, <1>3 DEF UploadTrue
  <2>5. Len(chunkData(data)) \in Nat /\ Len(chunkData(data)) # 0 /\ p.i = 0
    <3>1. p.man = ManifestOf(data) /\ p.i = 0
      BY <1>1, <2>4 DEF Uploads
    <3>2. ManifestOf(data).chunk_count \in Nat \ {0}
      BY <2>1, <3>1 DEF checkFileShape
    <3> QED BY <3>1, <3>2, KeyIs
  <2>6. Uploads(c, q, mempool', stored, data)
    BY <1>1, <2>1, <2>4, <2>5 DEF Uploads
  <2>7. UploadTrue(c, q, mempool', stored) /\ DownloadTrue(c, q, misled)
    BY <1>3, <2>6 DEF UploadTrue, DownloadTrue
  <2> HIDE DEF p, q
  <2> QED BY <1>1, <1>2, <2>3, <2>7, OthersStayTrue
<1>4. ASSUME NEW r \in Outcomes \ {"chunk"}, Return(c, r), call[c].op = "upload" => r # "ok",
             c \in mempool' => CheckTx(c)
      PROVE  HonestInv'
  <2>1. Moves(c, "done", call[c].chunks, call[c].i, call[c].man, r)
    BY <1>4, ReturnMoves DEF FilesInv
  <2>2. c \in mempool' => (call[c].op = "upload" => checkFileShape(call[c].man))
    BY <1>4 DEF CheckTx
  <2> QED BY <1>1, <1>2, <1>4, <2>1, <2>2, ReturnTrue
<1>5. CASE SubmitAccepted(c) /\ call[c].op # "upload"
  BY <1>4, <1>5 DEF SubmitAccepted, Outcomes
<1>6. CASE SubmitRefused(c)
  BY <1>1, <1>4, <1>6 DEF SubmitRefused, Outcomes
<1>7. CASE SubmitTimesOut(c)
  BY <1>1, <1>4, <1>7 DEF SubmitTimesOut, Outcomes
<1> QED BY <1>3, <1>5, <1>6, <1>7

\* The chain applies only manifests it accepted.
LEMMA LandTrue ==
  ASSUME FilesInv, HonestInv, NEW c \in Calls, Land(c)
  PROVE  HonestInv'
<1>1. /\ c \in mempool /\ mempool' = mempool \ {c} /\ call' = call /\ call[c].op \in Writes
      /\ \/ file' = file
         \/ call[c].op # "unregister" /\ file' = call[c].man
      /\ Sound(c, call[c], mempool) /\ UNCHANGED <<stored, misled>>
  BY LandSound DEF Land, FilesInv
<1>2. /\ FileTrue(file) /\ StoredTrue(stored) /\ UploadTrue(c, call[c], mempool, stored)
      /\ DownloadTrue(c, call[c], misled)
  BY DEF HonestInv
<1>3. FileTrue(file')
  <2>1. CASE file' = file
    BY <1>2, <2>1
  <2>2. CASE call[c].op = "upload" /\ file' = call[c].man
    <3>1. PICK data \in Contents : Uploads(c, call[c], mempool, stored, data)
      BY <1>2, <2>2 DEF UploadTrue
    <3>2. call[c].man = ManifestOf(data) /\ checkFileShape(call[c].man)
      BY <1>1, <3>1 DEF Uploads
    <3> QED BY <2>2, <3>2 DEF FileTrue
  <2>3. CASE call[c].op = "delete" /\ file' = call[c].man
    BY <1>1, <2>3 DEF Sound, FileTrue
  <2> QED BY <1>1, <2>1, <2>2, <2>3 DEF Writes
<1>4. UploadTrue(c, call[c], mempool', stored)
  <2>1. \A data : Uploads(c, call[c], mempool, stored, data) => Uploads(c, call[c], mempool', stored, data)
    BY <1>1 DEF Uploads
  <2> QED BY <1>2, <2>1 DEF UploadTrue
<1> QED BY <1>1, <1>2, <1>3, <1>4, OthersStayTrue

\* A chunk was stored.
LEMMA ChunkStoredTrue ==
  ASSUME FilesInv, HonestInv, NEW c \in Calls, ChunkStored(c)
  PROVE  HonestInv'
<1> DEFINE p == call[c]
           n == p.i + 1
<1>1. /\ p.pc = "chunks" /\ p.op = "upload" /\ p.res = "none" /\ p.i \in Nat /\ Sound(c, p, mempool)
      /\ UNCHANGED <<mempool, file, misled>> /\ Store(c)
  BY DEF FilesInv, Sound, ChunkStored
<1>2. PICK data \in Contents : Uploads(c, p, mempool, stored, data)
  BY <1>1 DEF HonestInv, UploadTrue
<1>3. stored \subseteq stored' /\ StoredTrue(stored') /\ Piece(data, p.i) \in stored'
  BY <1>1, <1>2, StoreAdds
<1>4. Len(chunkData(data)) \in Nat /\ p.chunks = chunkData(data) /\ p.i < Len(chunkData(data))
  BY <1>1, <1>2, CutIs DEF Uploads
<1>5. /\ n \in Nat /\ n <= Len(chunkData(data))
      /\ \A j \in 0 .. n - 1 : Piece(data, j) \in stored'
  <2>1. \A j \in 0 .. p.i - 1 : Piece(data, j) \in stored
    BY <1>2 DEF Uploads
  <2>2. \A j \in 0 .. n - 1 : j = p.i \/ j \in 0 .. p.i - 1
    BY <1>1
  <2> QED BY <1>1, <1>3, <1>4, <2>1, <2>2
<1>6. FileTrue(file)
  BY DEF HonestInv
<1>7. ASSUME NEW pc, NEW res, Moves(c, pc, p.chunks, n, p.man, res),
             \/ pc = "chunks" /\ res = "none" /\ n < Len(chunkData(data))
             \/ pc = "done" /\ res = "ok" /\ n = Len(chunkData(data))
      PROVE  HonestInv'
  <2> DEFINE q == [pc |-> pc, op |-> p.op, chunks |-> p.chunks, i |-> n, man |-> p.man, res |-> res]
  <2>1. call'[c] = q /\ \A d \in Calls : d # c => call'[d] = call[d]
    BY <1>7 DEF Moves
  <2> HIDE DEF n
  <2>2. Uploads(c, q, mempool', stored', data)
    BY <1>1, <1>2, <1>5, <1>7 DEF Uploads
  <2>3. UploadTrue(c, q, mempool', stored') /\ DownloadTrue(c, q, misled')
    BY <1>1, <2>2 DEF UploadTrue, DownloadTrue
  <2> HIDE DEF p, q
  <2> QED BY <1>1, <1>3, <1>6, <2>1, <2>3, OthersStayTrue
<1>8. CASE n < Len(p.chunks)
  <2>1. call' = [call EXCEPT ![c].i = n]
    BY <1>8 DEF ChunkStored
  <2>2. Moves(c, "chunks", p.chunks, n, p.man, "none")
    BY <1>1, <2>1, StoredMoves DEF FilesInv
  <2> QED BY <1>4, <1>7, <1>8, <2>2
<1>9. CASE ~(n < Len(p.chunks))
  <2>1. call' = [call EXCEPT ![c].i = n, ![c].pc = "done", ![c].res = "ok"]
    BY <1>9 DEF ChunkStored
  <2>2. Moves(c, "done", p.chunks, n, p.man, "ok")
    BY <2>1, StoredMoves DEF FilesInv
  <2>3. n = Len(chunkData(data))
    BY <1>4, <1>5, <1>9
  <2> QED BY <1>7, <2>2, <2>3
<1> QED BY <1>8, <1>9

\* A request that was refused or timed out: the node may have stored the
\* chunk, and none of what the call is told is more than that.
LEMMA FailuresTrue ==
  ASSUME FilesInv, HonestInv, NEW c \in Calls,
         ChunkRefused(c) \/ ChunkTimesOut(c) \/ MetadataTimesOut(c) \/ FetchTimesOut(c)
  PROVE  HonestInv'
<1>1. UNCHANGED <<mempool, file, misled>> /\ Sound(c, call[c], mempool) /\ StoredTrue(stored)
  BY DEF ChunkRefused, ChunkTimesOut, MetadataTimesOut, FetchTimesOut, FilesInv, HonestInv
<1>2. CASE ChunkRefused(c) \/ ChunkTimesOut(c)
  <2>1. /\ call[c].pc = "chunks" /\ Return(c, "chunk") /\ (stored' = stored \/ Store(c))
    BY <1>2 DEF ChunkRefused, ChunkTimesOut
  <2>2. call[c].op = "upload"
    BY <1>1, <2>1 DEF Sound
  <2>3. stored \subseteq stored' /\ StoredTrue(stored')
    <3>1. PICK data \in Contents : Uploads(c, call[c], mempool, stored, data)
      BY <2>2 DEF HonestInv, UploadTrue
    <3> QED BY <1>1, <2>1, <3>1, StoreAdds
  <2>4. Moves(c, "done", call[c].chunks, call[c].i, call[c].man, "chunk")
    BY <2>1, ReturnMoves DEF FilesInv
  <2> QED BY <1>1, <2>1, <2>2, <2>3, <2>4, ReturnTrue DEF Outcomes
<1>3. CASE MetadataTimesOut(c) \/ FetchTimesOut(c)
  <2>1. /\ call[c].pc \in {"metadata", "fetch"} /\ Return(c, "failed") /\ stored' = stored
    BY <1>3 DEF MetadataTimesOut, FetchTimesOut
  <2>2. call[c].op = "download"
    BY <1>1, <2>1 DEF Sound
  <2>3. Moves(c, "done", call[c].chunks, call[c].i, call[c].man, "failed")
    BY <2>1, ReturnMoves DEF FilesInv
  <2> QED BY <1>1, <2>1, <2>2, <2>3, ReturnTrue DEF Outcomes, Faults
<1> QED BY <1>2, <1>3

\* The manifest is answered: the chain's own has sizes Download accepts.
LEMMA MetadataTrue ==
  ASSUME FilesInv, HonestInv, NEW c \in Calls, MetadataAnswers(c)
  PROVE  HonestInv'
<1>1. PICK m \in Answers :
        /\ IF m = None THEN Return(c, "notfound")
           ELSE IF ~checkFileShape(m) THEN Return(c, "shape")
           ELSE call' = [call EXCEPT ![c].pc = "fetch", ![c].man = m]
        /\ misled' = IF m = file THEN misled ELSE misled \union {c}
  BY DEF MetadataAnswers
<1>2. /\ call[c].pc = "metadata" /\ UNCHANGED <<mempool, file, stored>> /\ Sound(c, call[c], mempool)
      /\ FileTrue(file) /\ StoredTrue(stored) /\ DownloadTrue(c, call[c], misled)
  BY DEF MetadataAnswers, FilesInv, HonestInv
<1>3. /\ call[c].op = "download" /\ call[c].i = 0 /\ call[c].res = "none" /\ call[c].chunks = <<>>
  BY <1>2 DEF Sound, DownloadTrue
<1>4. misled \subseteq misled' /\ (c \notin misled' => m = file)
  BY <1>1
<1>5. ASSUME NEW r \in {"notfound", "shape"}, Return(c, r), c \notin misled' => r # "shape"
      PROVE  HonestInv'
  <2>1. Moves(c, "done", call[c].chunks, call[c].i, call[c].man, r)
    BY <1>5, ReturnMoves DEF FilesInv
  <2>2. r \in Outcomes /\ (c \notin misled' => r \notin Faults) /\ r # "chunk"
    BY <1>5 DEF Outcomes, Faults
  <2> QED BY <1>2, <1>3, <1>4, <2>1, <2>2, ReturnTrue
<1>6. CASE m = None
  BY <1>1, <1>5, <1>6
<1>7. CASE m # None /\ ~checkFileShape(m)
  <2>1. c \in misled'
    BY <1>2, <1>4, <1>7 DEF FileTrue
  <2> QED BY <1>1, <1>5, <1>7, <2>1
<1>8. CASE m # None /\ checkFileShape(m)
  <2>1. Moves(c, "fetch", call[c].chunks, call[c].i, m, call[c].res)
    BY <1>1, <1>8, AnsweredMoves DEF FilesInv
  <2> DEFINE p == call[c]
             q == [pc |-> "fetch", op |-> p.op, chunks |-> p.chunks, i |-> p.i, man |-> m, res |-> p.res]
  <2>2. call'[c] = q /\ \A d \in Calls : d # c => call'[d] = call[d]
    BY <2>1 DEF Moves
  <2>3. ASSUME c \notin misled' PROVE \E data \in Contents : Downloads(q, data)
    <3>1. PICK data \in Contents : m = ManifestOf(data) /\ checkFileShape(m)
      BY <1>2, <1>4, <1>8, <2>3 DEF FileTrue
    <3>2. SubSeq(chunkData(data), 1, 0) = <<>>
      BY SubSeqEmpty
    <3>3. Downloads(q, data)
      BY <1>3, <3>1, <3>2 DEF Downloads
    <3> QED BY <3>3
  <2>4. DownloadTrue(c, q, misled')
    BY <1>3, <2>3 DEF DownloadTrue, Faults
  <2>5. UploadTrue(c, q, mempool', stored')
    BY <1>3 DEF UploadTrue
  <2> HIDE DEF p, q
  <2> QED BY <1>2, <1>4, <2>2, <2>4, <2>5, OthersStayTrue
<1> QED BY <1>6, <1>7, <1>8

\* Reading a chunk that has the expected length reads all of it.
LEMMA ReadsAll ==
  ASSUME NEW data \in Contents, checkFileShape(ManifestOf(data)), NEW i \in Nat, i < Len(chunkData(data))
  PROVE  LET chunk == chunkData(data)[i + 1]
             want == Want(ManifestOf(data), i)
         IN  /\ ReadLimited(chunk, want) = chunk
             /\ Len(chunk) <= ChunkCap /\ Len(chunk) <= want /\ Len(chunk) \in Nat /\ want \in Nat
<1> DEFINE chunk == chunkData(data)[i + 1]
           want == Want(ManifestOf(data), i)
           n == Len(chunk)
<1>1. i + 1 \in 1 .. Len(chunkData(data)) /\ (i + 1) - 1 = i
  BY CutIs
<1>2. n = Want(ManifestOf(data), (i + 1) - 1) /\ n <= ChunkSize
  BY <1>1, CutEnds
<1>3. chunk \in Seq(Bytes)
  BY <1>1, CutIs
<1>4. n \in Nat /\ n = want
  BY <1>1, <1>2, <1>3
<1>5. ReadLimited(chunk, want) = SubSeq(chunk, 1, n)
  BY <1>4 DEF ReadLimited
<1>6. SubSeq(chunk, 1, n) = chunk
  BY <1>3, SubSeqFull
<1> HIDE DEF chunk, want, n
<1>7. n <= ChunkCap /\ n <= want /\ want \in Nat
  BY SMTT(60), <1>2, <1>4
<1> QED BY <1>4, <1>5, <1>6, <1>7 DEF chunk, want, n

\* One more chunk read.
LEMMA ReadsOn ==
  ASSUME NEW data \in Contents, NEW i \in Nat, i < Len(chunkData(data))
  PROVE  /\ Append(SubSeq(chunkData(data), 1, i), chunkData(data)[i + 1]) = SubSeq(chunkData(data), 1, i + 1)
         /\ i + 1 = Len(chunkData(data)) => SubSeq(chunkData(data), 1, i + 1) = chunkData(data)
<1> DEFINE ch == chunkData(data)
<1>1. ch \in Seq(Seq(Bytes)) /\ Len(ch) \in Nat
  BY CutIs
<1> HIDE DEF ch
<1>2. i + 1 \in 1 .. Len(ch) /\ i < Len(ch)
  BY <1>1 DEF ch
<1>3. Append(SubSeq(ch, 1, i), ch[i + 1]) = SubSeq(ch, 1, i + 1)
  BY <1>1, <1>2
<1>4. SubSeq(ch, 1, Len(ch)) = ch
  BY <1>1, SubSeqFull
<1> QED BY <1>3, <1>4 DEF ch

\* The checks on the whole file accept the chunks that Upload cut.
LEMMA CutIsAccepted ==
  ASSUME NEW data \in Contents, checkFileShape(ManifestOf(data))
  PROVE  Verdict(ManifestOf(data), chunkData(data)) = "ok"
<1> DEFINE m == ManifestOf(data)
           ch == chunkData(data)
<1>1. m.merkle_root = computeMerkleRoot(Hashes(ch)) /\ m.content_hash = Sha256(data)
  BY KeyIs
<1>2. FlattenSeq(ch) = data
  BY ChunksJoin
<1> HIDE DEF m, ch
<1>3. Verdict(m, ch) = "ok"
  BY <1>1, <1>2 DEF Verdict
<1> QED BY <1>3 DEF m, ch

\* The chunk a download reads next when the storage node is honest.
LEMMA HonestRead ==
  ASSUME StoredTrue(stored), NEW data \in Contents, NEW q, Downloads(q, data), q.i \in Nat,
         q.i < q.man.chunk_count, NEW body \in ChunksAt(StoreKey(q.man, q.i)), NEW chunk,
         chunk = ReadLimited(body, Want(q.man, q.i)), NEW got, got = Append(q.chunks, chunk)
  PROVE  /\ ~(Len(chunk) > ChunkCap) /\ ~(Len(chunk) > Want(q.man, q.i))
         /\ got = SubSeq(chunkData(data), 1, q.i + 1)
         /\ ~(q.i + 1 < q.man.chunk_count) => Verdict(q.man, got) = "ok"
<1> DEFINE i == q.i
           want == Want(ManifestOf(data), i)
           next == chunkData(data)[i + 1]
<1>1. /\ q.man = ManifestOf(data) /\ checkFileShape(ManifestOf(data))
      /\ q.chunks = SubSeq(chunkData(data), 1, i) /\ i \in Nat
  BY DEF Downloads
<1>2. q.man.chunk_count = Len(chunkData(data)) /\ i < Len(chunkData(data)) /\ Len(chunkData(data)) \in Nat
  BY <1>1, KeyIs, CutIs
<1>3. body = next
  BY <1>1, HeldIs
<1>4. /\ ReadLimited(next, want) = next
      /\ Len(next) <= ChunkCap /\ Len(next) <= want /\ Len(next) \in Nat /\ want \in Nat
  BY <1>1, <1>2, ReadsAll
<1>5. chunk = next
  BY <1>1, <1>3, <1>4
<1>6. got = SubSeq(chunkData(data), 1, i + 1)
  BY <1>1, <1>2, <1>5, ReadsOn
<1>7. ASSUME ~(i + 1 < q.man.chunk_count) PROVE Verdict(q.man, got) = "ok"
  <2>1. i + 1 = Len(chunkData(data))
    BY <1>1, <1>2, <1>7
  <2>2. got = chunkData(data)
    BY <1>1, <1>2, <1>6, <2>1, ReadsOn
  <2> QED BY <1>1, <2>2, CutIsAccepted
<1>8. ~(Len(chunk) > ChunkCap) /\ ~(Len(chunk) > Want(q.man, q.i))
  <2> HIDE DEF next, want
  <2>1. ~(Len(next) > ChunkCap) /\ ~(Len(next) > want)
    BY SMTT(60), <1>4
  <2> QED BY <1>1, <1>5, <2>1 DEF want
<1> QED BY <1>6, <1>7, <1>8

\* A chunk is answered: an honest one is the next and is never refused.
LEMMA ChunkAnswersTrue ==
  ASSUME FilesInv, HonestInv, NEW c \in Calls, ChunkAnswers(c)
  PROVE  HonestInv'
<1> DEFINE p == call[c]
           n == p.i + 1
           held == ChunksAt(StoreKey(p.man, p.i))
<1>1. PICK body, chunk, got :
        /\ body \in Served \union held
        /\ chunk = ReadLimited(body, Want(p.man, p.i)) /\ got = Append(p.chunks, chunk)
        /\ IF Len(chunk) > ChunkCap THEN Return(c, "toolong")
           ELSE IF Len(chunk) > Want(p.man, p.i) THEN Return(c, "overlong")
           ELSE IF n < p.man.chunk_count
             THEN call' = [call EXCEPT ![c].i = n, ![c].chunks = got]
           ELSE call' = [call EXCEPT ![c].i = n, ![c].chunks = got, ![c].pc = "done",
                                     ![c].res = Verdict(p.man, got)]
        /\ misled' = IF body \in held THEN misled ELSE misled \union {c}
  BY DEF ChunkAnswers
<1>2. /\ p.pc = "fetch" /\ UNCHANGED <<mempool, file, stored>> /\ Sound(c, p, mempool)
      /\ FileTrue(file) /\ StoredTrue(stored) /\ DownloadTrue(c, p, misled)
  BY DEF ChunkAnswers, FilesInv, HonestInv
<1>3. p.op = "download" /\ p.res = "none" /\ p.i \in Nat /\ p.i < p.man.chunk_count
  BY <1>2 DEF Sound
<1>4. misled \subseteq misled' /\ (c \notin misled' => body \in held /\ c \notin misled)
  BY <1>1
<1>5. ASSUME c \notin misled'
      PROVE  \E data \in Contents :
               /\ Downloads(p, data)
               /\ ~(Len(chunk) > ChunkCap) /\ ~(Len(chunk) > Want(p.man, p.i))
               /\ got = SubSeq(chunkData(data), 1, n)
               /\ ~(n < p.man.chunk_count) => Verdict(p.man, got) = "ok"
  <2>1. PICK data \in Contents : Downloads(p, data)
    BY <1>2, <1>3, <1>4, <1>5 DEF DownloadTrue
  <2>2. body \in ChunksAt(StoreKey(p.man, p.i))
    BY <1>4, <1>5
  <2>3. chunk = ReadLimited(body, Want(p.man, p.i)) /\ got = Append(p.chunks, chunk)
    BY <1>1
  <2>4. StoredTrue(stored) /\ p.i \in Nat /\ p.i < p.man.chunk_count
    BY <1>2, <1>3
  <2> HIDE DEF p
  <2>5. /\ ~(Len(chunk) > ChunkCap) /\ ~(Len(chunk) > Want(p.man, p.i))
        /\ got = SubSeq(chunkData(data), 1, p.i + 1)
        /\ ~(p.i + 1 < p.man.chunk_count) => Verdict(p.man, got) = "ok"
    BY ZenonT(60), <2>1, <2>2, <2>3, <2>4, HonestRead
  <2> QED BY <2>1, <2>5
<1>6. CASE Len(chunk) > ChunkCap \/ Len(chunk) > Want(p.man, p.i)
  <2>1. PICK r \in {"toolong", "overlong"} : Return(c, r)
    BY <1>1, <1>6
  <2>2. c \in misled'
    BY <1>5, <1>6
  <2>3. Moves(c, "done", p.chunks, p.i, p.man, r)
    BY <2>1, ReturnMoves DEF FilesInv
  <2>4. r \in Outcomes /\ r # "chunk"
    BY DEF Outcomes
  <2> QED BY <1>2, <1>3, <1>4, <2>2, <2>3, <2>4, ReturnTrue
<1>7. ASSUME NEW pc, NEW res, Moves(c, pc, got, n, p.man, res),
             \/ pc = "fetch" /\ res = "none"
             \/ pc = "done" /\ (c \notin misled' => res \notin Faults)
      PROVE  HonestInv'
  <2> DEFINE q == [pc |-> pc, op |-> p.op, chunks |-> got, i |-> n, man |-> p.man, res |-> res]
  <2>1. call'[c] = q /\ \A d \in Calls : d # c => call'[d] = call[d]
    BY <1>7 DEF Moves
  <2> HIDE DEF n
  <2>2. ASSUME c \notin misled' PROVE \E data \in Contents : Downloads(q, data)
    <3>1. PICK data \in Contents : Downloads(p, data) /\ got = SubSeq(chunkData(data), 1, n)
      BY <1>5, <2>2
    <3>2. Downloads(q, data)
      BY <3>1 DEF Downloads
    <3> QED BY <3>2
  <2>3. DownloadTrue(c, q, misled')
    BY <1>7, <2>2 DEF DownloadTrue, Faults
  <2>4. UploadTrue(c, q, mempool', stored')
    BY <1>3 DEF UploadTrue
  <2> HIDE DEF p, q
  <2> QED BY <1>2, <1>4, <2>1, <2>3, <2>4, OthersStayTrue
<1>8. CASE ~(Len(chunk) > ChunkCap \/ Len(chunk) > Want(p.man, p.i)) /\ n < p.man.chunk_count
  <2>1. call' = [call EXCEPT ![c].i = n, ![c].chunks = got]
    BY <1>1, <1>8
  <2>2. Moves(c, "fetch", got, n, p.man, "none")
    BY <1>2, <1>3, <2>1, FetchedMoves DEF FilesInv
  <2> QED BY <1>7, <2>2
<1>9. CASE ~(Len(chunk) > ChunkCap \/ Len(chunk) > Want(p.man, p.i)) /\ ~(n < p.man.chunk_count)
  <2> DEFINE r == Verdict(p.man, got)
  <2>1. call' = [call EXCEPT ![c].i = n, ![c].chunks = got, ![c].pc = "done", ![c].res = r]
    BY <1>1, <1>9
  <2>2. c \notin misled' => r \notin Faults
    BY <1>5, <1>9 DEF Faults
  <2> HIDE DEF r
  <2>3. Moves(c, "done", got, n, p.man, r)
    BY <2>1, FetchedMoves DEF FilesInv
  <2> QED BY <1>7, <2>2, <2>3
<1> QED BY SMTT(60), <1>6, <1>8, <1>9

\* Nothing is stored and no call has started.
LEMMA HonestInvInit == Init => HonestInv
<1> SUFFICES ASSUME Init PROVE HonestInv
  OBVIOUS
<1>1. call = [c \in Calls |-> Idle] /\ file = None /\ stored = {}
  BY DEF Init
<1>2. \A c \in Calls : UploadTrue(c, Idle, mempool, stored) /\ DownloadTrue(c, Idle, misled)
  BY DEF Idle, UploadTrue, DownloadTrue
<1> HIDE DEF Idle
<1> QED BY <1>1, <1>2 DEF HonestInv, FileTrue, StoredTrue

\* Every step keeps what the chain, the storage node and the calls hold true.
LEMMA HonestInvStep ==
  ASSUME FilesInv, HonestInv, [Next]_vars
  PROVE  HonestInv'
<1>1. CASE UNCHANGED vars
  BY <1>1 DEF HonestInv, vars
<1>2. ASSUME NEW c \in Calls, Upload(c) PROVE HonestInv'
  <2>1. PICK data \in Contents, s \in Signing : StartWrite(c, "upload", ManifestOf(data), chunkData(data), s)
    BY <1>2 DEF Upload
  <2> QED BY <2>1, StartWriteTrue DEF Writes
<1>3. ASSUME NEW c \in Calls, Delete(c) \/ UnregisterStorageNode(c) PROVE HonestInv'
  <2>1. PICK s \in Signing : \E op \in {"delete", "unregister"} : StartWrite(c, op, None, <<>>, s)
    BY <1>3 DEF Delete, UnregisterStorageNode
  <2> QED BY <2>1, StartWriteTrue DEF Writes
<1> QED
  BY <1>1, <1>2, <1>3, DownloadStartTrue, SubmitTrue, LandTrue, ChunkStoredTrue, MetadataTrue,
     ChunkAnswersTrue, FailuresTrue
  DEF Next

\* Download never refuses an honest answer: when the manifest is the chain's
\* and every chunk the one stored under its content hash, the checks of
\* DownloadContext on sizes, lengths, Merkle root and content hash all pass,
\* for every content and every chunk size up to the cap.
THEOREM HonestDownloadsPass == Spec => []HonestIsAccepted
<1>1. FilesInv /\ HonestInv => HonestIsAccepted
  BY DEF HonestInv, DownloadTrue, HonestIsAccepted, Faults
<1> QED BY <1>1, FilesInvInit, FilesInvStep, HonestInvInit, HonestInvStep, PTL DEF Spec

\* An Upload that returns its manifest left every chunk on the storage node,
\* and the index of a ChunkUploadError counts the chunks that are stored,
\* whatever other calls did under the same key meanwhile.
THEOREM UploadsAreStored == Spec => []UploadIsTrue
<1>1. FilesInv /\ HonestInv => UploadIsTrue
  <2> SUFFICES ASSUME FilesInv, HonestInv, NEW c \in Calls,
                      call[c].op = "upload", call[c].res \in {"ok", "chunk"}
               PROVE  /\ FlattenSeq(call[c].chunks) = Content(call[c].man)
                      /\ call[c].res = "ok" => call[c].i = call[c].man.chunk_count
                      /\ \A j \in 0 .. call[c].i - 1 :
                           ChunksAt(StoreKey(call[c].man, j)) = {call[c].chunks[j + 1]}
    BY DEF UploadIsTrue
  <2> DEFINE p == call[c]
  <2>1. PICK data \in Contents : Uploads(c, p, mempool, stored, data)
    BY DEF HonestInv, UploadTrue
  <2>2. /\ p.man = ManifestOf(data) /\ p.chunks = chunkData(data) /\ checkFileShape(ManifestOf(data))
        /\ p.res = "ok" => p.i = Len(chunkData(data))
        /\ \A j \in 0 .. p.i - 1 : Piece(data, j) \in stored
    BY <2>1 DEF Uploads
  <2>3. FlattenSeq(p.chunks) = data
    BY <2>2, ChunksJoin
  <2>4. Content(p.man) = data
    BY <2>2, NoneIsNoManifest, ManifestOfData DEF Content
  <2>5. p.res = "ok" => p.i = p.man.chunk_count
    BY <2>2, KeyIs
  <2>6. ASSUME NEW j \in 0 .. p.i - 1 PROVE ChunksAt(StoreKey(p.man, j)) = {p.chunks[j + 1]}
    <3>1. StoredTrue(stored) /\ Piece(data, j) \in stored
      BY <2>2 DEF HonestInv
    <3> QED BY <2>2, <3>1, HeldIs
  <2> QED BY <2>3, <2>4, <2>5, <2>6
<1> QED BY <1>1, FilesInvInit, FilesInvStep, HonestInvInit, HonestInvStep, PTL DEF Spec
=============================================================================
