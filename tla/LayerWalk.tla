----------------------------- MODULE LayerWalk -----------------------------
(***************************************************************************)
(* The walk of a GroveDB proof's layers (verifyLayerProof in               *)
(* grovedb/verifier.go), one proven key a step.  A layer is [merk, lower]: *)
(* a Merk proof, and the layers below by key.  The calls of                *)
(* verifyLayerProof that have not returned are frames on a stack.          *)
(***************************************************************************)
EXTENDS Integers, Sequences, FiniteSets, SequencesExt

CONSTANT MerkResult(_)   \* ExecuteMerkProof: <<[root, kvs]>>, or <<>> for an error

VARIABLES
  frames,      \* the calls of verifyLayerProof, the innermost last
  results,     \* the key-values found so far
  layersRun,   \* history: the paths of the layers whose Merk proof was run
  calls,       \* history: how many were run
  verdict,     \* "" before the end, then "failed" or "verified"
  rootHash     \* the root the walk computed

walkVars == <<frames, results, layersRun, calls, verdict, rootHash>>

NullHash == <<"null">>
ValueHash(value) == <<"value", value>>
CombineHash(left, right) == <<"combine", left, right>>

WalkIdle ==
  /\ frames = <<>> /\ results = <<>> /\ layersRun = {} /\ calls = 0
  /\ verdict = "" /\ rootHash = NullHash

\* A frame: the layer's path and lower layers, the root its Merk proof has, the
\* keys that are left of those it proves, and the keys walked.
Frame(layer, path) ==
  LET merk == MerkResult(layer.merk)[1]
  IN  [path |-> path, lower |-> layer.lower, root |-> merk.root, left |-> merk.kvs, walked |-> {}]

Top == frames[Len(frames)]
KV == Head(Top.left)
HasLower == KV.key \in DOMAIN Top.lower

\* The innermost of these frames goes on to its next key.
Onward(fs) == [fs EXCEPT ![Len(fs)].left = Tail(@)]

Fails == frames' = <<>> /\ verdict' = "failed"

\* Mutation: a key proven twice walks its lower layer twice.
RepeatsNever(key, keys) == FALSE

\* The layer proves a key more than once.
Repeats(key, keys) == key \in keys

-----------------------------------------------------------------------------
\* verifyLayerProof of a layer at a path, called from the given frames.
Call(layer, path, callers) ==
  /\ layersRun' = layersRun \cup {path} /\ calls' = calls + 1
  /\ \/ MerkResult(layer.merk) = <<>> /\ Fails
     \/ /\ MerkResult(layer.merk) # <<>>
        /\ frames' = Append(callers, Frame(layer, path))
        /\ UNCHANGED verdict
  /\ UNCHANGED <<results, rootHash>>

Unused == frames = <<>> /\ calls = 0 /\ verdict = ""

\* The envelope does not decode, or is refused.
RefuseEnvelope == Unused /\ verdict' = "failed" /\ UNCHANGED <<frames, results, layersRun, calls, rootHash>>

verifyDecoded(layer) == Unused /\ Call(layer, <<>>, <<>>)

AtKey == frames # <<>> /\ Top.left # <<>>

\* A key proven without its value.
SkipDigest ==
  /\ AtKey /\ KV.value = <<>>
  /\ frames' = Onward(frames)
  /\ UNCHANGED <<results, layersRun, calls, verdict, rootHash>>

LeafValue ==
  /\ AtKey /\ KV.value # <<>> /\ ~HasLower
  /\ results' = Append(results, [path |-> Top.path, key |-> KV.key, value |-> KV.value[1]])
  /\ frames' = Onward(frames)
  /\ UNCHANGED <<layersRun, calls, verdict, rootHash>>

ProvenTwice ==
  /\ AtKey /\ KV.value # <<>> /\ HasLower /\ Repeats(KV.key, Top.walked)
  /\ Fails
  /\ UNCHANGED <<results, layersRun, calls, rootHash>>

Descend ==
  /\ AtKey /\ KV.value # <<>> /\ HasLower /\ ~Repeats(KV.key, Top.walked)
  /\ LET key == KV.key
     IN  Call(Top.lower[key], Append(Top.path, key),
              [frames EXCEPT ![Len(frames)].walked = @ \cup {key}])

LayerDone == frames # <<>> /\ Top.left = <<>>

Ascend ==
  /\ LayerDone /\ Len(frames) > 1
  /\ LET callers == SubSeq(frames, 1, Len(frames) - 1)
         proved == Head(callers[Len(callers)].left)
     IN  \/ /\ CombineHash(ValueHash(proved.value[1]), Top.root) = proved.hash
            /\ frames' = Onward(callers) /\ UNCHANGED verdict
         \/ /\ CombineHash(ValueHash(proved.value[1]), Top.root) # proved.hash
            /\ Fails
  /\ UNCHANGED <<results, layersRun, calls, rootHash>>

WalkEnds ==
  /\ LayerDone /\ Len(frames) = 1
  /\ frames' = <<>> /\ verdict' = "verified" /\ rootHash' = Top.root
  /\ UNCHANGED <<results, layersRun, calls>>

WalkStep == SkipDigest \/ LeafValue \/ ProvenTwice \/ Descend \/ Ascend \/ WalkEnds

\* The walk of any envelope, whatever its bytes and layers.
WalkSpec == WalkIdle /\ [][RefuseEnvelope \/ (\E layer : verifyDecoded(layer)) \/ WalkStep]_walkVars

-----------------------------------------------------------------------------
\* "A key proven twice would walk its lower layer per copy, doubling the work
\* with each layer of a short proof": whatever the bytes, the Merk proof of no
\* layer is run twice, so that no more are run than the envelope carries.
LayersRunOnce == calls = Cardinality(layersRun)
=============================================================================
