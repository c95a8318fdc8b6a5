---------------------------- MODULE FileRegister ----------------------------
(***************************************************************************)
(* What the file operations promise of one file key, without manifests,    *)
(* chunks, hashes or requests: the key is an atomic register.              *)
(*                                                                         *)
(* A write (an upload of some content, or a deletion) takes effect at one  *)
(* instant or never; once its caller was told "no", never.  A read returns *)
(* the whole content the register held at one instant of the read, or an   *)
(* error.                                                                  *)
(***************************************************************************)
CONSTANTS
  Calls,      \* the calls of file operations
  Contents,   \* what a file can hold
  None        \* no file under the key

VARIABLES
  current,    \* the content of the key, or None
  stage,      \* of each call: "idle", "reading", "writing" or "returned"
  intent,     \* the content a write puts under the key
  pending,    \* the writes that can still take effect
  seen,       \* what a read saw, or None
  answer,     \* what a write returned: "yes", "no" or "maybe" ("none" before)
  result      \* what a read returned: a content, or None for an error

regVars == <<current, stage, intent, pending, seen, answer, result>>

Init ==
  /\ current = None
  /\ stage = [c \in Calls |-> "idle"]
  /\ intent = [c \in Calls |-> None]
  /\ pending = {}
  /\ seen = [c \in Calls |-> None]
  /\ answer = [c \in Calls |-> "none"]
  /\ result = [c \in Calls |-> None]

BeginWrite(c, v) ==
  /\ stage[c] = "idle"
  /\ stage' = [stage EXCEPT ![c] = "writing"]
  /\ intent' = [intent EXCEPT ![c] = v]
  /\ pending' = pending \union {c}
  /\ UNCHANGED <<current, seen, answer, result>>

TakeEffect(c) ==
  /\ c \in pending
  /\ current' = intent[c]
  /\ pending' = pending \ {c}
  /\ UNCHANGED <<stage, intent, seen, answer, result>>

\* The chain refuses the write in its block.
Lapse(c) ==
  /\ c \in pending
  /\ pending' = pending \ {c}
  /\ UNCHANGED <<current, stage, intent, seen, answer, result>>

\* "no" is a promise that the write never takes effect; after "yes" and
\* "maybe" it may take effect later.
EndWrite(c, a) ==
  /\ stage[c] = "writing"
  /\ stage' = [stage EXCEPT ![c] = "returned"]
  /\ answer' = [answer EXCEPT ![c] = a]
  /\ \/ a = "no" /\ pending' = pending \ {c}
     \/ a = "maybe" /\ pending' \in {pending, pending \ {c}}
     \/ a = "yes" /\ pending' = pending
  /\ UNCHANGED <<current, intent, seen, result>>

\* A write refused before anything is sent.
RefuseWrite(c) ==
  /\ stage[c] = "idle"
  /\ stage' = [stage EXCEPT ![c] = "returned"]
  /\ answer' = [answer EXCEPT ![c] = "no"]
  /\ UNCHANGED <<current, intent, pending, seen, result>>

BeginRead(c) ==
  /\ stage[c] = "idle"
  /\ stage' = [stage EXCEPT ![c] = "reading"]
  /\ UNCHANGED <<current, intent, pending, seen, answer, result>>

\* The instant of the read.
Look(c) ==
  /\ stage[c] = "reading"
  /\ seen[c] = None
  /\ seen' = [seen EXCEPT ![c] = current]
  /\ UNCHANGED <<current, stage, intent, pending, answer, result>>

\* The content seen, or an error.
EndRead(c) ==
  /\ stage[c] = "reading"
  /\ stage' = [stage EXCEPT ![c] = "returned"]
  /\ result' \in {[result EXCEPT ![c] = seen[c]], [result EXCEPT ![c] = None]}
  /\ UNCHANGED <<current, intent, pending, seen, answer>>

Next ==
  \E c \in Calls :
    \/ \E v \in Contents \union {None} : BeginWrite(c, v)
    \/ TakeEffect(c) \/ Lapse(c) \/ RefuseWrite(c)
    \/ \E a \in {"yes", "no", "maybe"} : EndWrite(c, a)
    \/ BeginRead(c) \/ Look(c) \/ EndRead(c)

Spec == Init /\ [][Next]_regVars
=============================================================================
