--------------------------- MODULE MCServedProofs ---------------------------
(***************************************************************************)
(* The four checks of what a server proves, side by side: a behaviour      *)
(* takes one of them, as a caller does.  They share no state.              *)
(***************************************************************************)
EXTENDS MCEthState, MCRlp, MCCompleteness, MCGroveDB

VARIABLE check    \* the check this behaviour is of

servedVars == <<check, ethVars, rlpVars, completenessVars, groveVars>>

Init ==
  /\ check \in {"eth", "rlp", "completeness", "grove"}
  /\ EthIdle /\ RlpIdle /\ CompletenessIdle /\ GroveIdle

EthStep == check = "eth" /\ EthNext /\ UNCHANGED <<check, rlpVars, completenessVars, groveVars>>
RlpStep == check = "rlp" /\ RlpNext /\ UNCHANGED <<check, ethVars, completenessVars, groveVars>>
CompletenessStep ==
  check = "completeness" /\ CompletenessNext /\ UNCHANGED <<check, ethVars, rlpVars, groveVars>>
GroveStep == check = "grove" /\ GroveNext /\ UNCHANGED <<check, ethVars, rlpVars, completenessVars>>

Spec == Init /\ [][EthStep \/ RlpStep \/ CompletenessStep \/ GroveStep]_servedVars
=============================================================================
