------------------------ MODULE WebSocketProxyProofs ------------------------
(***************************************************************************)
(* Proofs about WebSocketProxy, for every set of messages and any number   *)
(* of them: types, that the proxy is a pipe, and what a close frame means. *)
(***************************************************************************)
EXTENDS WebSocketProxy, TLAPS

\* The state keeps its types, and no copier is ahead of the peer it reads from
\* (all of webSocketProxy).
THEOREM TypeCorrect == Spec => []TypeOK
<1>1. Init => TypeOK
  BY DEF Init, TypeOK, Side
<1>2. TypeOK /\ [Next]_vars => TypeOK'
  <2> SUFFICES ASSUME TypeOK, [Next]_vars PROVE TypeOK'
    OBVIOUS
  <2>1. ASSUME Panic PROVE TypeOK'
    BY <2>1 DEF TypeOK, Panic, Cut, listing
  <2>2. CASE HandlerStep
    <3>1. CASE CheckInstalled
      BY <3>1 DEF TypeOK, CheckInstalled, Step, listing, peers
    <3>2. CASE Dial
      BY <3>2 DEF TypeOK, Dial, Step, listing, peers
    <3>3. CASE Upgrade
      BY <3>3 DEF TypeOK, Upgrade, Step, listing, peers
    <3>4. CASE Return
      BY <3>4 DEF TypeOK, Return, Step, listing, Cut
    <3> QED
      BY <2>1, <2>2, <3>1, <3>2, <3>3, <3>4 DEF HandlerStep, UpgradeFails
  <2>3. ASSUME RemoveComponent PROVE TypeOK'
    BY <2>3 DEF TypeOK, RemoveComponent, Side
  <2>8. ASSUME Untrack PROVE TypeOK'
    BY <2>8 DEF TypeOK, Untrack, peers
  <2>4. ASSUME NEW s \in Side, CopierStep(s) PROVE TypeOK'
    <3>1. CASE ReadMessage(s)
      BY <3>1 DEF TypeOK, ReadMessage, Copy, listing, peers
    <3>2. CASE ReadError(s)
      BY <3>2 DEF TypeOK, ReadError, Copy, listing, peers
    <3>3. CASE WriteMessage(s)
      <4>1. CASE Forward(s)
        <5>1. Other(s) \in Side /\ sent[s][nread[s]] \in Message
          BY <4>1 DEF TypeOK, Forward, Copy, Other, Side
        <5> QED
          BY <4>1, <5>1 DEF TypeOK, Forward, Copy, listing
      <4>2. CASE WriteLost(s)
        BY <4>2 DEF TypeOK, WriteLost, Copy, listing, peers
      <4>3. CASE WriteFails(s)
        BY <4>3 DEF TypeOK, WriteFails, Copy, listing, peers
      <4> QED
        BY <3>3, <4>1, <4>2, <4>3 DEF WriteMessage
    <3>4. CASE WriteClose(s)
      BY <3>4 DEF TypeOK, WriteClose, Copy, listing, Other, Side
    <3> QED
      BY <2>4, <3>1, <3>2, <3>3, <3>4 DEF CopierStep
  <2>5. ASSUME NEW s \in Side, NEW m \in Message, Send(s, m) PROVE TypeOK'
    BY <2>5 DEF TypeOK, Send, listing
  <2>6. ASSUME NEW s \in Side, NEW how \in {"closed", "broken"}, Leave(s, how)
        PROVE TypeOK'
    BY <2>6 DEF TypeOK, Leave, listing
  <2>7. CASE UNCHANGED vars
    BY <2>7 DEF TypeOK, vars, listing, peers
  <2> QED
    BY <2>1, <2>2, <2>3, <2>4, <2>5, <2>6, <2>7, <2>8 DEF Next, Crash
<1> QED
  BY <1>1, <1>2, PTL DEF Spec

(***************************************************************************)
(* The proxy is a pipe                                                     *)
(***************************************************************************)

LEMMA PipeInvInit == Init => PipeInv
BY DEF Init, PipeInv, Side, Other, Here, Gone

LEMMA PipeInvPanic ==
    ASSUME TypeOK, PipeInv, Panic PROVE PipeInv'
BY DEF TypeOK, PipeInv, Panic, Cut, Side, Other, Here, Gone, listing

LEMMA PipeInvHandler ==
    ASSUME TypeOK, PipeInv, HandlerStep PROVE PipeInv'
<1>1. CASE CheckInstalled
  BY <1>1 DEF TypeOK, PipeInv, CheckInstalled, Step, Side, Other, Here, Gone, listing, peers
<1>2. CASE Dial
  BY <1>2 DEF TypeOK, PipeInv, Dial, Step, Side, Other, Here, Gone, listing, peers
<1>3. CASE Upgrade
  BY <1>3 DEF TypeOK, PipeInv, Upgrade, Step, Side, Other, Here, Gone, listing, peers
<1>4. CASE Return
  BY <1>4 DEF TypeOK, PipeInv, Return, Step, Cut, Side, Other, Here, Gone, listing
<1> QED
  BY <1>1, <1>2, <1>3, <1>4, PipeInvPanic DEF HandlerStep, UpgradeFails

LEMMA PipeInvCopier ==
    ASSUME TypeOK, PipeInv, NEW s \in Side, CopierStep(s) PROVE PipeInv'
<1>1. CASE ReadMessage(s)
  BY <1>1 DEF TypeOK, PipeInv, ReadMessage, Copy, Side, Other, Here, Gone, listing, peers
<1>2. CASE ReadError(s)
  BY <1>2 DEF TypeOK, PipeInv, ReadError, Copy, Side, Other, Here, Gone, listing, peers
<1>3. CASE Forward(s)
  BY <1>3 DEF TypeOK, PipeInv, Forward, Copy, Side, Other, Here, Gone, listing
<1>4. CASE WriteLost(s)
  BY <1>4 DEF TypeOK, PipeInv, WriteLost, Copy, Side, Other, Here, Gone, listing, peers
<1>5. CASE WriteFails(s)
  BY <1>5 DEF TypeOK, PipeInv, WriteFails, Copy, Side, Other, Here, Gone, listing, peers
<1>6. CASE WriteClose(s)
  BY <1>6 DEF TypeOK, PipeInv, WriteClose, Copy, Side, Other, Here, Gone, listing
<1> QED
  BY <1>1, <1>2, <1>3, <1>4, <1>5, <1>6 DEF CopierStep, WriteMessage

LEMMA PipeInvPeers ==
    ASSUME TypeOK, PipeInv,
           \/ RemoveComponent
           \/ Untrack
           \/ \E s \in Side, m \in Message : Send(s, m)
           \/ \E s \in Side, how \in {"closed", "broken"} : Leave(s, how)
    PROVE  PipeInv'
<1>1. CASE RemoveComponent
  BY <1>1 DEF TypeOK, PipeInv, RemoveComponent, Side, Other, Here, Gone
<1>2. CASE Untrack
  BY <1>2 DEF PipeInv, Untrack, Here, Gone, peers
<1>3. ASSUME NEW s \in Side, NEW m \in Message, Send(s, m) PROVE PipeInv'
  BY <1>3 DEF TypeOK, PipeInv, Send, Side, Other, Here, Gone, listing
<1>4. ASSUME NEW s \in Side, NEW how \in {"closed", "broken"}, Leave(s, how)
      PROVE PipeInv'
  BY <1>4 DEF TypeOK, PipeInv, Leave, Side, Other, Here, Gone, listing
<1> QED
  BY <1>1, <1>2, <1>3, <1>4

LEMMA PipeInvCorrect == Spec => []PipeInv
<1>1. ASSUME TypeOK, PipeInv, [Next]_vars PROVE PipeInv'
  <2>1. CASE UNCHANGED vars
    BY <2>1, <1>1 DEF PipeInv, vars, Here, Gone, listing, peers
  <2> QED
    BY <1>1, <2>1, PipeInvPanic, PipeInvHandler, PipeInvCopier, PipeInvPeers
    DEF Next, Crash
<1> QED
  BY <1>1, PipeInvInit, TypeCorrect, PTL DEF Spec

LEMMA PipeStepPanic ==
    ASSUME TypeOK, Panic PROVE P!Die
BY DEF TypeOK, Panic, Cut, P!Die, P!Side, Side, Here, listing

LEMMA PipeStepCopier ==
    ASSUME TypeOK, PipeInv, NEW s \in Side, CopierStep(s)
    PROVE  [P!PipeNext]_P!pipeVars
<1>1. CASE ReadMessage(s) \/ ReadError(s) \/ WriteLost(s) \/ WriteFails(s)
  BY <1>1 DEF ReadMessage, ReadError, WriteLost, WriteFails, Here, listing, peers, P!pipeVars
<1>2. CASE Forward(s)
  <2> DEFINE to == Other(s)
  <2>1. to \in Side /\ Other(to) = s
    BY DEF Other, Side
  <2>2. told[to] = "nothing" /\ Len(got[to]) + 1 = nread[s]
    BY <1>2, <2>1 DEF TypeOK, PipeInv, Forward, Copy
  <2>3. P!Deliver(to)
    BY <1>2, <2>1, <2>2 DEF TypeOK, Forward, Here, Side, Other, P!Deliver, P!Side, P!Other
  <2> QED
    BY <2>1, <2>3 DEF P!PipeNext, P!Side, Side
<1>3. CASE WriteClose(s)
  <2> DEFINE to == Other(s)
  <2>1. to \in Side
    BY DEF Other, Side
  <2>2. CASE conn[to] = "open" /\ Here(to)
    <3>1. told[to] = "nothing" /\ Gone
      BY <1>3, <2>1, <2>2 DEF TypeOK, PipeInv, WriteClose, Copy
    <3>2. P!End(to)
      BY <1>3, <2>1, <2>2, <3>1
      DEF TypeOK, WriteClose, Copy, Gone, Here, Side, P!End, P!Side
    <3> QED
      BY <2>1, <3>2 DEF P!PipeNext, P!Side, Side
  <2>3. CASE ~(conn[to] = "open" /\ Here(to))
    BY <1>3, <2>3 DEF WriteClose, Here, P!pipeVars
  <2> QED
    BY <2>2, <2>3
<1> QED
  BY <1>1, <1>2, <1>3 DEF CopierStep, WriteMessage

LEMMA PipeStepHandler ==
    ASSUME TypeOK, PipeInv, HandlerStep PROVE [P!PipeNext]_P!pipeVars
<1>1. CASE CheckInstalled \/ Dial \/ Upgrade
  BY <1>1 DEF CheckInstalled, Dial, Upgrade, Here, listing, peers, P!pipeVars
<1>2. CASE UpgradeFails
  BY <1>2, PipeStepPanic DEF UpgradeFails, P!PipeNext
<1>3. CASE Return
  <2>1. CASE told["backend"] = "nothing"
    <3>1. Gone
      BY <1>3 DEF PipeInv, Return
    <3>2. P!End("backend")
      BY <1>3, <2>1, <3>1 DEF TypeOK, Return, Cut, Gone, Here, Side, P!End, P!Side
    <3> QED
      BY <3>2 DEF P!PipeNext, P!Side
  <2>2. CASE told["backend"] # "nothing"
    <3>1. told' = told
      BY <1>3, <2>2 DEF TypeOK, Return, Cut
    <3> QED
      BY <1>3, <3>1 DEF Return, Here, P!pipeVars
  <2> QED
    BY <2>1, <2>2
<1> QED
  BY <1>1, <1>2, <1>3 DEF HandlerStep

LEMMA PipeStepPeers ==
    ASSUME TypeOK,
           \/ RemoveComponent
           \/ Untrack
           \/ \E s \in Side, m \in Message : Send(s, m)
           \/ \E s \in Side, how \in {"closed", "broken"} : Leave(s, how)
    PROVE  [P!PipeNext]_P!pipeVars
<1>1. CASE RemoveComponent
  <2>1. CASE conn["backend"] # "none" /\ peer["backend"] = "here"
    <3>1. P!Leave("backend")
      BY <1>1, <2>1 DEF TypeOK, RemoveComponent, Side, Here, P!Leave, P!Side
    <3> QED
      BY <3>1 DEF P!PipeNext, P!Side
  <2>2. CASE ~(conn["backend"] # "none" /\ peer["backend"] = "here")
    <3>1. peer' = peer
      BY <1>1, <2>2 DEF TypeOK, RemoveComponent, Side
    <3> QED
      BY <1>1, <3>1 DEF RemoveComponent, Here, P!pipeVars
  <2> QED
    BY <2>1, <2>2
<1>2. CASE Untrack
  BY <1>2 DEF Untrack, Here, peers, P!pipeVars
<1>3. ASSUME NEW s \in Side, NEW m \in Message, Send(s, m)
      PROVE  P!PipeNext
  <2>1. P!Send(s, m)
    BY <1>3 DEF TypeOK, Send, Here, listing, Side, P!Send, P!Side
  <2> QED
    BY <2>1 DEF P!PipeNext, P!Side, Side
<1>4. ASSUME NEW s \in Side, NEW how \in {"closed", "broken"}, Leave(s, how)
      PROVE  P!PipeNext
  <2>1. P!Leave(s)
    BY <1>4 DEF TypeOK, Leave, Here, listing, Side, P!Leave, P!Side
  <2> QED
    BY <2>1 DEF P!PipeNext, P!Side, Side
<1> QED
  BY <1>1, <1>2, <1>3, <1>4

\* webSocketProxy is a pipe: messages arrive in order and once, and no peer is
\* hung up on while both are there (lines 150-178).
THEOREM PipeImplemented == Spec => ImplementsPipe
<1>1. Init => P!PipeInit
  <2> SUFFICES ASSUME Init PROVE P!PipeInit
    OBVIOUS
  <2>1. sent = [s \in P!Side |-> <<>>] /\ got = [s \in P!Side |-> <<>>]
    BY DEF Init, Side, P!Side
  <2>2. \A s \in Side : peer[s] = "here" /\ told[s] = "nothing"
    BY DEF Init
  <2>3. [s \in Side |-> Here(s)] = [s \in P!Side |-> TRUE]
    BY <2>2, Zenon DEF Here, Side, P!Side
  <2>4. [s \in Side |-> told[s] # "nothing"] = [s \in P!Side |-> FALSE]
    BY <2>2, Zenon DEF Side, P!Side
  <2> QED
    BY <2>1, <2>3, <2>4 DEF P!PipeInit
<1>2. ASSUME TypeOK, PipeInv, [Next]_vars PROVE [P!PipeNext]_P!pipeVars
  <2>1. CASE UNCHANGED vars
    BY <2>1 DEF vars, peers, Here, P!pipeVars
  <2>2. CASE Crash
    BY <1>2, <2>2, PipeStepPanic DEF Crash, P!PipeNext
  <2> QED
    BY <1>2, <2>1, <2>2, PipeStepHandler, PipeStepCopier, PipeStepPeers DEF Next
<1> QED
  BY <1>1, <1>2, TypeCorrect, PipeInvCorrect, PTL DEF Spec, ImplementsPipe, P!PipeSpec

(***************************************************************************)
(* What a close frame means                                                *)
(***************************************************************************)
Q == INSTANCE PipeProofs WITH
        present <- [s \in Side |-> Here(s)],
        ended <- [s \in Side |-> told[s] # "nothing"]

LEMMA Prefix == Spec => []P!InOrder
<1>1. P!PipeInit => Q!PipeInit
  BY DEF P!PipeInit, Q!PipeInit, P!Side, Q!Side
<1>2. [P!PipeNext]_P!pipeVars => [Q!PipeNext]_Q!pipeVars
  BY DEF P!PipeNext, P!Die, P!Deliver, P!Leave, P!End, P!Send, P!Side, P!Other, P!pipeVars,
         Q!PipeNext, Q!Die, Q!Deliver, Q!Leave, Q!End, Q!Send, Q!Side, Q!Other, Q!pipeVars
<1>3. Q!InOrder => P!InOrder
  BY DEF Q!InOrder, P!InOrder, Q!Side, P!Side, Q!Other, P!Other
<1> QED
  BY <1>1, <1>2, <1>3, Q!PipeInOrder, PipeImplemented, PTL
  DEF ImplementsPipe, P!PipeSpec, Q!PipeSpec

LEMMA CloseInvInit == Init => CloseInv
BY DEF Init, CloseInv, CloseIsComplete, Side, Other, Here

LEMMA CloseInvPanic ==
    ASSUME TypeOK, PipeInv, CloseInv, Panic PROVE CloseInv'
BY DEF TypeOK, PipeInv, CloseInv, CloseIsComplete, Panic, Cut, Side, Other, Here, listing

LEMMA CloseInvHandler ==
    ASSUME TypeOK, PipeInv, CloseInv, HandlerStep PROVE CloseInv'
<1> USE DEF TypeOK, PipeInv, CloseInv, CloseIsComplete, Side, Other, Here, listing
<1>1. CASE CheckInstalled
  BY <1>1 DEF CheckInstalled, Step, peers
<1>2. CASE Dial
  BY <1>2 DEF Dial, Step, peers
<1>3. CASE Upgrade
  BY <1>3 DEF Upgrade, Step, peers
<1>4. CASE Return
  BY <1>4 DEF Return, Step, Cut
<1> QED
  BY <1>1, <1>2, <1>3, <1>4, CloseInvPanic DEF HandlerStep, UpgradeFails

\* A reader that met the end of what a closed peer sent has passed all of it on.
LEMMA ReadErrorKnows ==
    ASSUME TypeOK, PipeInv, CloseInv, P!InOrder,
           NEW s \in Side, ReadError(s), Here(Other(s))
    PROVE  /\ ~Here(s)
           /\ \/ peer[s] = "broken" \/ copier[Other(s)] = "done"
              \/ got[Other(s)] = sent[s]
<1> DEFINE o == Other(s)
<1>1. o \in Side /\ Other(o) = s
  BY DEF Other, Side
<1>2. CASE peer[s] = "broken"
  BY <1>2 DEF Here
<1>3. CASE peer[s] = "closed" /\ nread[s] = Len(sent[s])
  <2>1. Len(got[o]) = Len(sent[s])
    BY <1>1, <1>3 DEF ReadError, Copy, PipeInv
  <2>2. \A i \in 1..Len(got[o]) : got[o][i] = sent[s][i]
    BY <1>1 DEF P!InOrder, P!Side, P!Other, Other, Side
  <2>3. got[o] \in Seq(Message) /\ sent[s] \in Seq(Message)
    BY <1>1 DEF TypeOK
  <2>4. got[o] = sent[s]
    BY <2>1, <2>2, <2>3
  <2> QED
    BY <1>3, <2>4 DEF Here
<1>4. CASE conn[s] = "shut"
  <2>1. copier[s] = "read" /\ pc # "dead"
    BY DEF ReadError, Copy, PipeInv
  <2>2. s = "backend" /\ o = "client" /\ pc = "returned"
    BY <1>4, <2>1 DEF PipeInv, Side, Other
  <2>3. ~Here(s)
    BY <2>2 DEF PipeInv, Gone, Side
  <2>4. "client" \in errs
    BY <2>1, <2>2 DEF TypeOK, CloseInv, Side
  <2>5. copier["client"] = "done"
    BY <2>1, <2>2, <2>4 DEF CloseInv, PipeInv, Side
  <2> QED
    BY <2>2, <2>3, <2>5
<1> QED
  BY <1>2, <1>3, <1>4 DEF ReadError

LEMMA CloseInvCopier ==
    ASSUME TypeOK, PipeInv, CloseInv, P!InOrder, NEW s \in Side, CopierStep(s)
    PROVE  CloseInv'
<1> USE DEF TypeOK, PipeInv, CloseInv, CloseIsComplete, Copy, Side, Other, Here, listing
<1>1. CASE ReadMessage(s)
  BY <1>1 DEF ReadMessage, peers
<1>2. CASE ReadError(s)
  <2>1. /\ copier[s] = "read" /\ copier' = [copier EXCEPT ![s] = "tell"]
        /\ errs' = errs \cup {s} /\ pc' = pc /\ conn' = conn
        /\ UNCHANGED <<peer, sent, got, told>>
    BY <1>2 DEF ReadError, peers
  <2>2. pc # "dead" /\ (~Here(s) \/ conn[s] = "shut")
    BY <1>2 DEF ReadError
  <2>3. Here(Other(s)) => /\ ~Here(s)
                          /\ \/ peer[s] = "broken" \/ copier[Other(s)] = "done"
                             \/ got[Other(s)] = sent[s]
    BY <1>2, ReadErrorKnows
  <2> QED
    BY <2>1, <2>2, <2>3
<1>3. CASE Forward(s)
  BY <1>3 DEF Forward
<1>4. CASE WriteLost(s)
  BY <1>4 DEF WriteLost, peers
<1>5. CASE WriteFails(s)
  BY <1>5 DEF WriteFails, peers
<1>6. CASE WriteClose(s)
  BY <1>6 DEF WriteClose
<1> QED
  BY <1>1, <1>2, <1>3, <1>4, <1>5, <1>6 DEF CopierStep, WriteMessage

LEMMA CloseInvPeers ==
    ASSUME TypeOK, PipeInv, CloseInv,
           \/ RemoveComponent
           \/ Untrack
           \/ \E s \in Side, m \in Message : Send(s, m)
           \/ \E s \in Side, how \in {"closed", "broken"} : Leave(s, how)
    PROVE  CloseInv'
<1> USE DEF TypeOK, CloseInv, CloseIsComplete, Side, Other, Here, listing
<1>1. CASE RemoveComponent
  BY <1>1 DEF RemoveComponent, PipeInv
<1>2. CASE Untrack
  BY <1>2 DEF Untrack, peers
<1>3. ASSUME NEW s \in Side, NEW m \in Message, Send(s, m) PROVE CloseInv'
  BY <1>3 DEF Send
<1>4. ASSUME NEW s \in Side, NEW how \in {"closed", "broken"}, Leave(s, how)
      PROVE CloseInv'
  BY <1>4 DEF Leave
<1> QED
  BY <1>1, <1>2, <1>3, <1>4

\* A peer that reads a close frame has received all that a peer that closed
\* properly had sent, unless its own write failed first (lines 150-172).
THEOREM CloseComplete == Spec => []CloseIsComplete
<1>1. ASSUME TypeOK, PipeInv, P!InOrder, CloseInv, [Next]_vars PROVE CloseInv'
  <2>1. CASE UNCHANGED vars
    BY <2>1, <1>1 DEF CloseInv, CloseIsComplete, vars, Here, listing, peers
  <2> QED
    BY <1>1, <2>1, CloseInvPanic, CloseInvHandler, CloseInvCopier, CloseInvPeers
    DEF Next, Crash
<1>2. CloseInv => CloseIsComplete
  BY DEF CloseInv
<1> QED
  BY <1>1, <1>2, CloseInvInit, TypeCorrect, PipeInvCorrect, Prefix, PTL DEF Spec
=============================================================================
