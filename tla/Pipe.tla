-------------------------------- MODULE Pipe --------------------------------
(***************************************************************************)
(* What a proxy of a two-way connection promises the two peers it joins:   *)
(* each gets what the other sends, in order and once, and neither is hung  *)
(* up on while both are there, unless the proxy itself dies.               *)
(***************************************************************************)
EXTENDS Naturals, Sequences

CONSTANT Message   \* what can be sent

VARIABLES
    sent,      \* side -> messages it has sent
    got,       \* side -> messages it has received
    present,   \* side -> it is still there
    ended      \* side -> it has been told that the connection is over

pipeVars == <<sent, got, present, ended>>

Side == {"client", "backend"}
Other(s) == IF s = "client" THEN "backend" ELSE "client"

PipeTypeOK ==
    /\ sent \in [Side -> Seq(Message)] /\ got \in [Side -> Seq(Message)]
    /\ present \in [Side -> BOOLEAN] /\ ended \in [Side -> BOOLEAN]

PipeInit ==
    /\ sent = [s \in Side |-> <<>>] /\ got = [s \in Side |-> <<>>]
    /\ present = [s \in Side |-> TRUE] /\ ended = [s \in Side |-> FALSE]

Send(s, m) ==
    /\ present[s] /\ ~ended[s]
    /\ sent' = [sent EXCEPT ![s] = Append(@, m)]
    /\ UNCHANGED <<got, present, ended>>

\* The next message of the other side arrives.
Deliver(s) ==
    LET next == Len(got[s]) + 1 IN
    /\ present[s] /\ ~ended[s]
    /\ next <= Len(sent[Other(s)])
    /\ got' = [got EXCEPT ![s] = Append(@, sent[Other(s)][next])]
    /\ UNCHANGED <<sent, present, ended>>

Leave(s) ==
    /\ present[s]
    /\ present' = [present EXCEPT ![s] = FALSE]
    /\ UNCHANGED <<sent, got, ended>>

End(s) ==
    /\ ~ended[s] /\ \E t \in Side : ~present[t]
    /\ ended' = [ended EXCEPT ![s] = TRUE]
    /\ UNCHANGED <<sent, got, present>>

\* The process that holds the connections dies.
Die ==
    /\ ended' = [s \in Side |-> TRUE]
    /\ UNCHANGED <<sent, got, present>>

PipeNext ==
    \/ Die
    \/ \E s \in Side : Deliver(s) \/ Leave(s) \/ End(s) \/ \E m \in Message : Send(s, m)

PipeSpec == PipeInit /\ [][PipeNext]_pipeVars

\* What a peer has received is what the other sent first.
InOrder ==
    \A s \in Side :
        /\ Len(got[s]) <= Len(sent[Other(s)])
        /\ \A i \in 1..Len(got[s]) : got[s][i] = sent[Other(s)][i]
=============================================================================
