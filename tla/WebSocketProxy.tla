--------------------------- MODULE WebSocketProxy ---------------------------
(***************************************************************************)
(* webSocketProxy: one web socket between a browser (the client) and a     *)
(* component (the backend) through the container manager.                  *)
(*                                                                         *)
(* The handler looks the component up, dials it, upgrades the client's     *)
(* connection and starts two goroutines; copier[s] reads from side s and   *)
(* writes to the other.  Each reports an error to a channel of its own;    *)
(* the handler takes the first and returns, which closes the connection to *)
(* the backend and leaves the client's open.  A panic in a goroutine, of   *)
(* this or any other request, ends the process with all its connections.   *)
(***************************************************************************)
EXTENDS Naturals, Sequences

CONSTANTS
    Message,   \* messages that peers send
    MaxSent    \* bound: messages a peer sends

ASSUME ProxyAssumption == MaxSent \in Nat

VARIABLES
    installed,  \* cm.InstalledComponents has the component
    up,         \* the component's service runs
    pc,         \* the handler
    conn,       \* side -> the proxy's end of that connection
    peer,       \* side -> "here", or gone with or without closing properly
    sent,       \* side -> messages the peer has sent
    nread,      \* side -> how many of them its copier has read
    got,        \* side -> messages the peer has received
    told,       \* side -> how the peer was told of the end, if it was
    copier,     \* side -> what the goroutine that reads from it does
    errs        \* sides whose error channel holds an error

listing == <<installed, up>>
peers == <<peer, sent, got, told>>
vars == <<listing, pc, conn, peers, nread, copier, errs>>

Side == {"client", "backend"}
Other(s) == IF s = "client" THEN "backend" ELSE "client"
Here(s) == peer[s] = "here"

TypeOK ==
    /\ installed \in BOOLEAN /\ up \in BOOLEAN
    /\ pc \in {"check", "dial", "upgrade", "copy", "returned", "refused", "dead"}
    /\ conn \in [Side -> {"none", "open", "shut"}]
    /\ peer \in [Side -> {"here", "closed", "broken"}]
    /\ sent \in [Side -> Seq(Message)]
    /\ got \in [Side -> Seq(Message)]
    /\ nread \in [Side -> Nat]
    /\ \A s \in Side :
          /\ nread[s] <= Len(sent[s])
          /\ copier[s] = "write" => nread[s] > 0
    /\ told \in [Side -> {"nothing", "frame", "cut"}]
    /\ copier \in [Side -> {"idle", "read", "write", "tell", "done"}]
    /\ errs \subseteq Side

\* A request of a client that passed auth.
Init ==
    /\ installed \in BOOLEAN /\ up \in BOOLEAN
    /\ pc = "check"
    /\ conn = [s \in Side |-> "none"] /\ peer = [s \in Side |-> "here"]
    /\ sent = [s \in Side |-> <<>>] /\ got = sent
    /\ nread = [s \in Side |-> 0]
    /\ told = [s \in Side |-> "nothing"]
    /\ copier = [s \in Side |-> "idle"] /\ errs = {}

\* A connection is cut: a peer that was told of the end already knows.
Cut(s) == IF told[s] = "nothing" THEN "cut" ELSE told[s]

Panic ==
    /\ pc' = "dead"
    /\ conn' = [s \in Side |-> IF conn[s] = "none" THEN "none" ELSE "shut"]
    /\ told' = [s \in Side |-> Cut(s)]
    /\ copier' = [s \in Side |-> "done"]
    /\ UNCHANGED <<listing, peer, sent, got, nread, errs>>

(***************************************************************************)
(* The handler                                                             *)
(***************************************************************************)
Step(from, to) == pc = from /\ pc' = to

CheckInstalled ==
    /\ Step("check", IF installed THEN "dial" ELSE "refused")
    /\ UNCHANGED <<listing, conn, peers, nread, copier, errs>>

\* The component may have gone, or not be listening yet.
Dial ==
    /\ \/ /\ up
          /\ Step("dial", "upgrade")
          /\ conn' = [conn EXCEPT !["backend"] = "open"]
       \/ /\ Step("dial", "refused")
          /\ UNCHANGED conn
    /\ UNCHANGED <<listing, peers, nread, copier, errs>>

Upgrade ==
    /\ Step("upgrade", "copy")
    /\ conn' = [conn EXCEPT !["client"] = "open"]
    /\ copier' = [s \in Side |-> "read"]
    /\ UNCHANGED <<listing, peers, nread, errs>>

\* The error is reported and the nil connection used: the goroutine panics.
UpgradeFails == pc = "upgrade" /\ Panic

\* Mutant of Return: select has a default case.
ReturnAtOnce ==
    /\ Step("copy", "returned")
    /\ conn' = [conn EXCEPT !["backend"] = "shut"]
    /\ told' = [told EXCEPT !["backend"] = Cut("backend")]
    /\ UNCHANGED <<listing, peer, sent, got, nread, copier, errs>>

\* The first error ends the handler, whose deferred call closes connBackend.
Return ==
    /\ errs # {}
    /\ Step("copy", "returned")
    /\ conn' = [conn EXCEPT !["backend"] = "shut"]
    /\ told' = [told EXCEPT !["backend"] = Cut("backend")]
    /\ UNCHANGED <<listing, peer, sent, got, nread, copier, errs>>

HandlerStep == CheckInstalled \/ Dial \/ Upgrade \/ UpgradeFails \/ Return

(***************************************************************************)
(* copy: from side s to the other                                          *)
(***************************************************************************)
Copy(s, from, to) == copier[s] = from /\ copier' = [copier EXCEPT ![s] = to]

\* Mutant of ReadMessage: it does not wait for a message.
ReadAhead(s) ==
    /\ Copy(s, "read", "write")
    /\ nread[s] <= Len(sent[s])
    /\ nread' = [nread EXCEPT ![s] = @ + 1]
    /\ UNCHANGED <<listing, pc, conn, peers, errs>>

\* What a peer sent before it left, or before the proxy closed its connection,
\* may still be read.
ReadMessage(s) ==
    /\ Copy(s, "read", "write")
    /\ nread[s] < Len(sent[s])
    /\ nread' = [nread EXCEPT ![s] = @ + 1]
    /\ UNCHANGED <<listing, pc, conn, peers, errs>>

\* Mutant of ReadError: a peer that has gone is noticed before its messages.
ReadErrorFirst(s) ==
    /\ Copy(s, "read", "tell")
    /\ ~Here(s) \/ conn[s] = "shut"
    /\ errs' = errs \cup {s}
    /\ UNCHANGED <<listing, pc, conn, peers, nread>>

\* Mutant of ReadError: the error channels have no buffer, and the handler
\* takes only one error.
ReadErrorUnbuffered(s) ==
    /\ Copy(s, "read", "tell")
    /\ pc = "copy" /\ errs = {}
    /\ \/ peer[s] = "closed" /\ nread[s] = Len(sent[s])
       \/ peer[s] = "broken"
       \/ conn[s] = "shut"
    /\ errs' = errs \cup {s}
    /\ UNCHANGED <<listing, pc, conn, peers, nread>>

\* The channel has room: each copier puts one error into it.
ReadError(s) ==
    /\ Copy(s, "read", "tell")
    /\ \/ peer[s] = "closed" /\ nread[s] = Len(sent[s])
       \/ peer[s] = "broken"
       \/ conn[s] = "shut"
    /\ errs' = errs \cup {s}
    /\ UNCHANGED <<listing, pc, conn, peers, nread>>

\* A message passed on.
Forward(s) ==
    LET to == Other(s) IN
    /\ conn[to] = "open" /\ Here(to)
    /\ Copy(s, "write", "read")
    /\ got' = [got EXCEPT ![to] = Append(@, sent[s][nread[s]])]
    /\ UNCHANGED <<listing, pc, conn, peer, sent, nread, told, errs>>

\* Writing to a peer that has gone may succeed, into the void, or fail.
WriteLost(s) ==
    /\ conn[Other(s)] = "open" /\ ~Here(Other(s))
    /\ Copy(s, "write", "read")
    /\ UNCHANGED <<listing, pc, conn, peers, nread, errs>>

WriteFails(s) ==
    /\ conn[Other(s)] = "shut" \/ ~Here(Other(s))
    /\ Copy(s, "write", "done")
    /\ errs' = errs \cup {s}
    /\ UNCHANGED <<listing, pc, conn, peers, nread>>

WriteMessage(s) == Forward(s) \/ WriteLost(s) \/ WriteFails(s)

\* Mutant of WriteClose: the error is reported, the peer not told.
QuietClose(s) ==
    /\ Copy(s, "tell", "done")
    /\ UNCHANGED <<listing, pc, conn, peers, nread, errs>>

\* The close frame is written after the error was reported: by then the handler
\* may have closed the connection.
WriteClose(s) ==
    LET to == Other(s) IN
    /\ Copy(s, "tell", "done")
    /\ told' = IF conn[to] = "open" /\ Here(to) THEN [told EXCEPT ![to] = "frame"]
                                              ELSE told
    /\ UNCHANGED <<listing, pc, conn, peer, sent, got, nread, errs>>

CopierStep(s) == ReadMessage(s) \/ ReadError(s) \/ WriteMessage(s) \/ WriteClose(s)

(***************************************************************************)
(* The peers, the component and the rest of the process                    *)
(***************************************************************************)
Send(s, m) ==
    /\ conn[s] # "none" /\ Here(s) /\ told[s] = "nothing"
    /\ Len(sent[s]) < MaxSent
    /\ sent' = [sent EXCEPT ![s] = Append(@, m)]
    /\ UNCHANGED <<listing, pc, conn, peer, got, told, nread, copier, errs>>

\* The peer closes the socket after what it has sent, or its connection breaks.
Leave(s, how) ==
    /\ Here(s) /\ (s = "client" \/ conn[s] # "none")
    /\ peer' = [peer EXCEPT ![s] = how]
    /\ UNCHANGED <<listing, pc, conn, sent, got, told, nread, copier, errs>>

\* Uninstall removes the service first, then the entry in the map.
RemoveComponent ==
    /\ up /\ up' = FALSE
    /\ peer' = [peer EXCEPT !["backend"] =
                    IF conn["backend"] # "none" /\ @ = "here" THEN "broken" ELSE @]
    /\ UNCHANGED <<installed, pc, conn, sent, got, told, nread, copier, errs>>

Untrack ==
    /\ installed /\ ~up /\ installed' = FALSE
    /\ UNCHANGED <<up, pc, conn, peers, nread, copier, errs>>

Crash == pc # "dead" /\ Panic

Next ==
    \/ HandlerStep \/ RemoveComponent \/ Untrack \/ Crash
    \/ \E s \in Side :
          \/ CopierStep(s)
          \/ \E m \in Message : Send(s, m)
          \/ \E how \in {"closed", "broken"} : Leave(s, how)

Spec == Init /\ [][Next]_vars

\* Goroutines are scheduled and every write returns; a browser answers a close
\* frame by closing.
Fairness ==
    /\ WF_vars(HandlerStep)
    /\ \A s \in Side : WF_vars(CopierStep(s))
    /\ WF_vars(told["client"] # "nothing" /\ Leave("client", "closed"))

FairSpec == Spec /\ Fairness

(***************************************************************************)
(* Properties                                                              *)
(***************************************************************************)

\* The proxy is a pipe between the two peers: each gets what the other sends, in
\* order and once, and the proxy hangs up on neither while both are there.
P == INSTANCE Pipe WITH
        present <- [s \in Side |-> Here(s)],
        ended <- [s \in Side |-> told[s] # "nothing"]

ImplementsPipe == P!PipeSpec

\* A peer that reads a close frame has received all that the other peer sent
\* before it closed the socket, unless a message of its own bounced off that
\* peer first: the handler then closes the connection to the backend with
\* messages unread, and the client is told of a normal closure all the same.
CloseIsComplete ==
    \A s \in Side :
        (told[s] = "frame" /\ Here(s) /\ peer[Other(s)] = "closed") =>
            got[s] = sent[Other(s)] \/ copier[s] = "done"

\* When a peer of an open pipe leaves, the other is told or has left as well.
LeavingIsTold ==
    \A s \in Side :
        (pc = "copy" /\ ~Here(s)) ~> (told[Other(s)] # "nothing" \/ ~Here(Other(s)))

\* Both goroutines end once a peer has left, so none is leaked, although the
\* handler takes one error only and never closes the client's connection.
CopiersEnd ==
    (pc = "copy" /\ \E s \in Side : ~Here(s)) ~>
        (\A s \in Side : copier[s] = "done")

(***************************************************************************)
(* The inductive invariants of the proofs                                  *)
(***************************************************************************)
Gone == \E s \in Side : ~Here(s)

\* Where a message is between the two peers, and that nobody hangs up before
\* somebody has left.
PipeInv ==
    /\ pc \in {"check", "dial", "upgrade", "refused"} =>
         \A s \in Side : copier[s] = "idle"
    /\ pc = "dead" => \A s \in Side : told[s] # "nothing" /\ copier[s] = "done"
    /\ conn["client"] = "shut" => pc = "dead"
    /\ conn["backend"] = "shut" => pc = "dead" \/ pc = "returned"
    /\ errs # {} \/ pc = "returned" => Gone
    /\ \A s \in Side :
         /\ copier[s] = "idle" => nread[s] = 0 /\ got[Other(s)] = <<>>
         /\ copier[s] = "read" /\ Here(Other(s)) => Len(got[Other(s)]) = nread[s]
         /\ copier[s] = "write" /\ Here(Other(s)) => Len(got[Other(s)]) + 1 = nread[s]
         /\ copier[s] = "tell" => Gone
         /\ copier[s] # "done" /\ told[Other(s)] # "nothing" =>
              conn[Other(s)] = "shut"

\* What a copier knows when it is about to write a close frame.
CloseInv ==
    /\ CloseIsComplete
    /\ pc = "returned" => errs # {}
    /\ \A s \in Side :
         /\ s \in errs => copier[s] \in {"tell", "done"}
         /\ copier[s] = "tell" => pc # "dead" /\ (~Here(s) \/ conn[s] = "shut")
         /\ told[s] = "frame" /\ Here(s) => ~Here(Other(s))
         /\ copier[s] = "tell" /\ Here(Other(s)) =>
              /\ ~Here(s)
              /\ \/ peer[s] = "broken" \/ copier[Other(s)] = "done"
                 \/ got[Other(s)] = sent[s]
=============================================================================
