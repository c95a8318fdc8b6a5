---------------------------- MODULE Completeness ----------------------------
(***************************************************************************)
(* The completeness check of a block's events (completeness.go,            *)
(* completeness_fetch.go): VerifyBlockCompleteness reads the block's       *)
(* events commitment from the RPC node, the matched logs from the indexer, *)
(* and re-hashes the logs.                                                 *)
(*                                                                         *)
(* The RPC node is trusted for the commitments it reports but may answer   *)
(* about another subgrove or block; the indexer serves anything.  Keccak   *)
(* is the identity on the bytes hashed, which keep their layout: addresses *)
(* and topics of Width bytes, data of any number, and numbers of one,      *)
(* those of topics and of data bytes modulo Limit32.                       *)
(***************************************************************************)
EXTENDS Integers, Sequences, SequencesExt

CONSTANTS
  Committed,   \* the logs the chain committed to, by <<subgrove, block>>
  ServedLogs,  \* the matched logs an indexer may serve: address, topics, data,
               \* each hex of any number of bytes, or NotHex
  Width,       \* the bytes of an address and a topic
  Limit32,     \* the numbers a uint32 holds
  NotHex       \* what is no hex

VARIABLES
  asked,        \* the subgrove and block to verify, or <<>>
  step,         \* "idle", "anchor", "logs" or "done"
  commitment,   \* the commitment FetchEventsCommitment returned
  servedLogs,   \* what the indexer served
  complete      \* "", "true", "false" or "error"

completenessVars == <<asked, step, commitment, servedLogs, complete>>

\* What decodeHexBytes makes of a string.
Hexes == {NotHex} \cup Seq(0 .. 255)

\* The logs a served answer may hold: httpbody.Large caps the answer, far below
\* what a uint32 counts.
MatchedLogs ==
  {m \in [address : Hexes, topics : Seq(Hexes), data : Hexes] :
     Len(m.topics) < Limit32 /\ (m.data # NotHex => Len(m.data) < Limit32)}

\* Mutation: topics are not counted.
LogBytesUncounted(log) == log.address \o FlattenSeq(log.topics) \o <<Len(log.data) % Limit32>> \o log.data

LogBytes(log) ==
  log.address \o <<Len(log.topics) % Limit32>> \o FlattenSeq(log.topics)
    \o <<Len(log.data) % Limit32>> \o log.data

CanonicalEventSetHash(block, logs) ==
  <<block>> \o <<Len(logs)>> \o FlattenSeq([i \in DOMAIN logs |-> LogBytes(logs[i])])

VerifyServedEvents(hash, block, logs) == CanonicalEventSetHash(block, logs) = hash

parseMatchedLog(m) ==
  /\ NotHex \notin {m.address, m.data} \cup Range(m.topics)
  /\ Len(m.address) = Width
  /\ \A t \in Range(m.topics) : Len(t) = Width

parseMatchedLogs(logs) == \A m \in Range(logs) : parseMatchedLog(m)

ASSUME CompletenessConstants == Width \in Nat /\ Limit32 \in Nat \ {0}

ASSUME ServedAreLogs == ServedLogs \subseteq Seq(MatchedLogs)

\* The chain commits to logs, of block numbers, that a server can serve.
ASSUME CommittedAreLogs ==
  \A x \in DOMAIN Committed :
    /\ x[2] \in Nat
    /\ Committed[x] \in Seq(MatchedLogs)
    /\ parseMatchedLogs(Committed[x])

-----------------------------------------------------------------------------
(* The anchors an RPC node may answer with (external). *)

Anchors == {[of |-> x, commitment |-> CanonicalEventSetHash(x[2], Committed[x])] : x \in DOMAIN Committed}

CompletenessIdle ==
  asked = <<>> /\ step = "idle" /\ commitment = <<>> /\ servedLogs = <<>> /\ complete = ""

Return(r) == step' = "done" /\ complete' = r

VerifyBlockCompleteness(x) ==
  /\ step = "idle"
  /\ asked' = x
  /\ step' = "anchor"
  /\ UNCHANGED <<commitment, servedLogs, complete>>

\* FetchEventsCommitment fails: the request, an RPC error or a code in its
\* answer, or a value that does not decode or holds no 32-byte commitment.
AnchorFails ==
  /\ step = "anchor"
  /\ Return("error")
  /\ UNCHANGED <<asked, commitment, servedLogs>>

FetchEventsCommitment(anchor) ==
  /\ step = "anchor"
  /\ IF anchor.of # asked THEN Return("error") /\ UNCHANGED commitment
     ELSE /\ commitment' = anchor.commitment
          /\ step' = "logs"
          /\ UNCHANGED complete
  /\ UNCHANGED <<asked, servedLogs>>

\* FetchMatchedLogs fails: no indexer URL, the request, or its status.
LogsFail ==
  /\ step = "logs"
  /\ Return("error")
  /\ UNCHANGED <<asked, commitment, servedLogs>>

FetchMatchedLogs ==
  /\ step = "logs"
  /\ \E logs \in ServedLogs :
       /\ servedLogs' = logs
       /\ Return(IF ~parseMatchedLogs(logs) THEN "error"
                 ELSE IF VerifyServedEvents(commitment, asked[2], logs) THEN "true"
                 ELSE "false")
  /\ UNCHANGED <<asked, commitment>>

CompletenessNext ==
  \/ \E x \in DOMAIN Committed : VerifyBlockCompleteness(x)
  \/ AnchorFails
  \/ \E a \in Anchors : FetchEventsCommitment(a)
  \/ LogsFail
  \/ FetchMatchedLogs

CompletenessSpec == CompletenessIdle /\ [][CompletenessNext]_completenessVars

\* "It returns true only when the served event set is exactly the
\* filter-matched set the commitment binds", of the subgrove and block asked
\* for, and "a nil error with a false result means the served set did not
\* match the anchor": no other sequence of logs has the same bytes under the
\* hash ("length-prefixed, so no boundary is ambiguous").
CompleteIsExact ==
  complete \in {"true", "false"} => (complete = "true" <=> servedLogs = Committed[asked])
=============================================================================
