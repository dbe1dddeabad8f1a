----------------------------- MODULE PipeProofs -----------------------------
(***************************************************************************)
(* What a pipe keeps, for every set of messages.                           *)
(***************************************************************************)
EXTENDS Pipe, TLAPS

LEMMA PipeTypes == PipeSpec => []PipeTypeOK
<1>1. PipeInit => PipeTypeOK
  BY DEF PipeInit, PipeTypeOK, Side
<1>2. ASSUME PipeTypeOK, [PipeNext]_pipeVars PROVE PipeTypeOK'
  <2>1. CASE UNCHANGED pipeVars
    BY <1>2, <2>1 DEF PipeTypeOK, pipeVars
  <2>2. CASE Die
    BY <1>2, <2>2 DEF PipeTypeOK, Die
  <2>3. ASSUME NEW s \in Side, Deliver(s) PROVE PipeTypeOK'
    <3>1. sent[Other(s)][Len(got[s]) + 1] \in Message
      BY <1>2, <2>3 DEF PipeTypeOK, Deliver, Other, Side
    <3> QED
      BY <1>2, <2>3, <3>1 DEF PipeTypeOK, Deliver
  <2>4. ASSUME NEW s \in Side, Leave(s) \/ End(s) PROVE PipeTypeOK'
    BY <1>2, <2>4 DEF PipeTypeOK, Leave, End
  <2>5. ASSUME NEW s \in Side, NEW m \in Message, Send(s, m) PROVE PipeTypeOK'
    BY <1>2, <2>5 DEF PipeTypeOK, Send
  <2> QED
    BY <1>2, <2>1, <2>2, <2>3, <2>4, <2>5 DEF PipeNext
<1> QED
  BY <1>1, <1>2, PTL DEF PipeSpec

\* Over a pipe no message is lost, repeated or overtaken: what a peer has
\* received is a prefix of what the other has sent.
THEOREM PipeInOrder == PipeSpec => []InOrder
<1>1. PipeInit => InOrder
  BY DEF PipeInit, InOrder, Side, Other
<1>2. ASSUME PipeTypeOK, InOrder, [PipeNext]_pipeVars PROVE InOrder'
  <2>1. CASE UNCHANGED pipeVars
    BY <1>2, <2>1 DEF InOrder, pipeVars
  <2>2. CASE Die
    BY <1>2, <2>2 DEF InOrder, Die
  <2>3. ASSUME NEW s \in Side, Deliver(s) PROVE InOrder'
    <3>1. sent' = sent /\ \A t \in Side \ {s} : got'[t] = got[t]
      BY <1>2, <2>3 DEF PipeTypeOK, Deliver
    <3>2. /\ Len(got'[s]) = Len(got[s]) + 1
          /\ got'[s][Len(got[s]) + 1] = sent[Other(s)][Len(got[s]) + 1]
          /\ \A i \in 1..Len(got[s]) : got'[s][i] = got[s][i]
      BY <1>2, <2>3 DEF PipeTypeOK, Deliver
    <3>3. Len(got[s]) \in Nat /\ Len(got[s]) + 1 <= Len(sent[Other(s)])
      BY <1>2, <2>3 DEF PipeTypeOK, Deliver
    <3>4. /\ Len(got'[s]) <= Len(sent'[Other(s)])
          /\ \A i \in 1..Len(got'[s]) : got'[s][i] = sent'[Other(s)][i]
      BY <1>2, <3>1, <3>2, <3>3 DEF InOrder
    <3> QED
      BY <1>2, <3>1, <3>4 DEF InOrder
  <2>4. ASSUME NEW s \in Side, Leave(s) \/ End(s) PROVE InOrder'
    BY <1>2, <2>4 DEF InOrder, Leave, End
  <2>5. ASSUME NEW s \in Side, NEW m \in Message, Send(s, m) PROVE InOrder'
    <3>1. got' = got /\ \A t \in Side : got[t] \in Seq(Message)
      BY <1>2, <2>5 DEF PipeTypeOK, Send
    <3>2. \A t \in Side : /\ Len(sent[t]) <= Len(sent'[t])
                          /\ Len(sent[t]) \in Nat /\ Len(sent'[t]) \in Nat
                          /\ \A i \in 1..Len(sent[t]) : sent'[t][i] = sent[t][i]
      BY <1>2, <2>5 DEF PipeTypeOK, Send
    <3>3. \A t \in Side : Other(t) \in Side
      BY DEF Other, Side
    <3> QED
      BY <1>2, <3>1, <3>2, <3>3 DEF InOrder
  <2> QED
    BY <1>2, <2>1, <2>2, <2>3, <2>4, <2>5 DEF PipeNext
<1> QED
  BY <1>1, <1>2, PipeTypes, PTL DEF PipeSpec
=============================================================================
