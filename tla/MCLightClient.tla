---------------------------- MODULE MCLightClient ----------------------------
(***************************************************************************)
(* TLC instances of LightClient.                                           *)
(***************************************************************************)
EXTENDS LightClient, TLC

\* A block of a validator set of two, listed as signing by some of them.
MCBlock(chain, height, hash, next, signing) ==
    [chain |-> chain, height |-> height, time |-> height,
     validatorsHash |-> hash, nextValidatorsHash |-> next,
     validators |-> <<[address |-> "a", power |-> 2], [address |-> "b", power |-> 1]>>,
     signatures |-> [i \in DOMAIN signing |-> [flag |-> 2, address |-> signing[i]]]]

First == MCBlock("willow", 1, "v1", "v2", <<"a", "b">>)
Second == MCBlock("willow", 2, "v2", "v2", <<"a">>)

\* Later blocks that one of the checks refuses: its validators do not follow
\* the first block's, too few signed, another chain.
Unexpected == MCBlock("willow", 2, "v3", "v3", <<"a", "b">>)
TooFew == MCBlock("willow", 3, "v2", "v2", <<"b">>)
Foreign == MCBlock("other", 3, "v2", "v2", <<"a", "b">>)
Third == MCBlock("willow", 3, "v2", "v2", <<"a", "b">>)

MCFew == {First, Second, TooFew}
MCAll == {First, Second, Third, Unexpected, TooFew, Foreign}
MCPins == {First}
=============================================================================
