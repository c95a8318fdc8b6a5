-------------------------- MODULE ReadRegistrations --------------------------
(***************************************************************************)
(* What the chain (external) reads the JSON of a registration as, and that *)
(* the bincode a registration's signature hashes is of just that.          *)
(***************************************************************************)
EXTENDS SignedMessages

Chain == INSTANCE ChainRegistration

\* The fields the chain fills in; the signature is left out of what is signed.
Unsigned(j) ==
  IF At(j, "signature") = Missing THEN j
  ELSE IF bytes(At(j, "signature")) = Bad THEN j
  ELSE <<"obj", [j[2] EXCEPT !.signature = <<"arr", <<>>>>]>>

ChainMeans(j) == Chain!Meaning(Chain!RegisterSubgroveTx, Unsigned(j))

\* {"Variant": payload} written "Variant", for the variants named.
RECURSIVE Bare(_, _)
Bare(names, v) ==
  IF ~IsObject(v) THEN v
  ELSE IF \E n \in names : DOMAIN v[2] = {n}
    THEN <<"str", <<CHOOSE n \in names : DOMAIN v[2] = {n}>>>>
    ELSE <<"obj", [f \in DOMAIN v[2] |-> Bare(names, v[2][f])]>>

\* Variants without fields of the enums that have others with fields, and
\* those of the enums that have no others.
UnitVariants == {"EveryUpdate", "Never", "ConsensusExecution", "Indefinite", "VerifyOnly"}
Fieldless == {"AwsNitro", "IntelSgx", "AmdSev", "BftEquivalent", "CanonizedAccumulator"}

-----------------------------------------------------------------------------
\* RegisterSubgroveUnsignedBincode writes exactly the struct the chain decodes
\* the same JSON into, defaults included: read back as bincode of the chain's
\* type, its bytes give that struct and nothing is left over.  What the chain
\* refuses to read it refuses to write, but for two forms of an enum's
\* variant without fields.  Given a payload ({"Never": 5}), in an enum with
\* variants that have fields, it is written as if it had none (enumParts,
\* variant), though "a field the chain requires that is ... of the wrong type
\* is refused" (register_subgrove.go:24-25); {"AmdSev": null}, of an enum
\* without any, the chain would read and unitVariant refuses.
RegistrationReadsBack ==
  tx.kind \in {"RegisterSubgrove", "json"} =>
    LET b == registerSubgrove(tx.json)
        m == ChainMeans(Bare(UnitVariants, tx.json))
    IN  IF b = Bad THEN m = Chain!Wrong \/ Bare(Fieldless, tx.json) # tx.json
        ELSE m # Chain!Wrong /\ Chain!Read(Chain!RegisterSubgroveTx, b) = <<m[1], <<>>>>
=============================================================================
