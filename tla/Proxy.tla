-------------------------------- MODULE Proxy --------------------------------
(***************************************************************************)
(* The listener of one leased port (internal/resource/proxy.go): a loop    *)
(* accepts clients, each client has a goroutine that dials the target and  *)
(* starts two copiers, and close, called when the lease ends, may come at  *)
(* any point of all that.  The listening socket is open until close.  What *)
(* the ends say is counted in pieces, a piece being what one Read returns. *)
(***************************************************************************)
EXTENDS Naturals

CONSTANTS
    Clients,        \* connections to the leased port; each connects once
    MaxSent,        \* bound on the pieces one end sends
    AcceptMayFail,  \* whether Accept fails on an open listener (too many files)
    Resetting,      \* ends that may reset the connection
    Stalling        \* ends that may stop reading what is written to them

Sides == {"client", "target"}
Other(s) == IF s = "client" THEN "target" ELSE "client"
Sockets == Clients \X Sides

ASSUME ProxyAssumption ==
    /\ MaxSent \in Nat /\ AcceptMayFail \in BOOLEAN
    /\ Resetting \subseteq Sides /\ Stalling \subseteq Sides

VARIABLES
    serving,    \* the accept loop runs
    closed,     \* proxy.closed; the listener is closed with it
    phase,      \* of each connection
    open,       \* sockets this process has open
    broken,     \* of those, the ones whose peer has reset the connection
    ended,      \* sockets whose peer has finished sending
    copier,     \* the goroutine copying from a side of a connection
    sent,       \* pieces the peer on a side has sent
    passed      \* pieces from a side written to the other

vars == <<serving, closed, phase, open, broken, ended, copier, sent, passed>>
sockets == <<open, broken, ended>>
pieces == <<sent, passed>>

\* "queued" in the backlog, "arrived" from Accept and not yet registered,
\* then in the goroutine "forward", until that has returned.
Phases == {"away", "queued", "arrived", "dial", "copy", "gone"}
Copiers == {"off", "read", "write", "end"}

\* proxy.connections: registered, and not yet deleted by forward.
Connections == {c \in Clients : phase[c] \in {"dial", "copy"}}
Arrived == {c \in Clients : phase[c] = "arrived"}

\* A read or a write on the socket can succeed.
Usable(c, s) == <<c, s>> \in open \ broken
Unread(c, s) == sent[c][s] - passed[c][s]

Enter(c, p) == phase' = [phase EXCEPT ![c] = p]
Continue(c, s, p) == copier' = [copier EXCEPT ![c][s] = p]

-------------------------------------------------------------------------------
(* The accept loop *)

\* Mutant: forwards the client itself before it accepts the next.
AcceptInTurn(c) ==
    /\ serving /\ ~closed /\ Arrived \cup Connections = {}
    /\ phase[c] = "queued"
    /\ Enter(c, "arrived")
    /\ open' = open \cup {<<c, "client">>}
    /\ UNCHANGED <<serving, closed, broken, ended, copier, pieces>>

Accept(c) ==
    /\ serving /\ ~closed /\ Arrived = {}
    /\ phase[c] = "queued"
    /\ Enter(c, "arrived")
    /\ open' = open \cup {<<c, "client">>}
    /\ UNCHANGED <<serving, closed, broken, ended, copier, pieces>>

\* Any error ends the loop, that of a closed listener or another.
AcceptFails ==
    /\ serving /\ Arrived = {}
    /\ closed \/ AcceptMayFail
    /\ serving' = FALSE
    /\ UNCHANGED <<closed, phase, sockets, copier, pieces>>

\* Mutant: does not look at closed under the mutex.
RegisterAnyway(c) ==
    /\ phase[c] = "arrived"
    /\ Enter(c, "dial")
    /\ UNCHANGED <<serving, closed, sockets, copier, pieces>>

Register(c) ==
    /\ phase[c] = "arrived"
    /\ \/ /\ ~closed
          /\ Enter(c, "dial")
          /\ UNCHANGED <<serving, open>>
       \/ /\ closed
          /\ Enter(c, "gone")
          /\ open' = open \ {<<c, "client">>}
          /\ serving' = FALSE
    /\ UNCHANGED <<closed, broken, ended, copier, pieces>>

-------------------------------------------------------------------------------
(* forward, and the two io.Copy *)

\* The deferred calls: both sockets are closed, the client is deleted.
Return(c) ==
    /\ Enter(c, "gone")
    /\ open' = open \ ({c} \X Sides)
    /\ UNCHANGED <<serving, closed, broken, ended, copier, pieces>>

DialFails(c) == phase[c] = "dial" /\ Return(c)

Dial(c) ==
    /\ phase[c] = "dial"
    /\ Enter(c, "copy")
    /\ open' = open \cup {<<c, "target">>}
    /\ copier' = [copier EXCEPT ![c] = [s \in Sides |-> "read"]]
    /\ UNCHANGED <<serving, closed, broken, ended, pieces>>

Read(c, s) ==
    /\ copier[c][s] = "read" /\ Usable(c, s) /\ Unread(c, s) > 0
    /\ Continue(c, s, "write")
    /\ UNCHANGED <<serving, closed, phase, sockets, pieces>>

\* Mutant: takes the end of input for the end of what was sent.
ReadStops(c, s) ==
    /\ copier[c][s] = "read"
    /\ ~ Usable(c, s) \/ <<c, s>> \in ended
    /\ Continue(c, s, "end")
    /\ UNCHANGED <<serving, closed, phase, sockets, pieces>>

ReadEnds(c, s) ==
    /\ copier[c][s] = "read"
    /\ ~ Usable(c, s) \/ (<<c, s>> \in ended /\ Unread(c, s) = 0)
    /\ Continue(c, s, "end")
    /\ UNCHANGED <<serving, closed, phase, sockets, pieces>>

\* Mutant: writes the same piece again.
Rewrite(c, s) ==
    /\ copier[c][s] = "write" /\ Usable(c, Other(s))
    /\ passed' = [passed EXCEPT ![c][s] = @ + 1]
    /\ \E p \in {"read", "write"} : Continue(c, s, p)
    /\ UNCHANGED <<serving, closed, phase, sockets, sent>>

Write(c, s) ==
    /\ copier[c][s] = "write" /\ Usable(c, Other(s))
    /\ passed' = [passed EXCEPT ![c][s] = @ + 1]
    /\ Continue(c, s, "read")
    /\ UNCHANGED <<serving, closed, phase, sockets, sent>>

WriteFails(c, s) ==
    /\ copier[c][s] = "write" /\ ~ Usable(c, Other(s))
    /\ Continue(c, s, "end")
    /\ UNCHANGED <<serving, closed, phase, sockets, pieces>>

\* Mutant: waits for both directions.
FinishBoth(c) ==
    /\ phase[c] = "copy" /\ \A s \in Sides : copier[c][s] = "end"
    /\ Return(c)

\* The first direction to end ends the connection.
Finish(c) ==
    /\ phase[c] = "copy" /\ \E s \in Sides : copier[c][s] = "end"
    /\ Return(c)

-------------------------------------------------------------------------------
(* close *)

\* Mutant: leaves the accepted connections to themselves.
CloseListener ==
    /\ ~closed /\ closed' = TRUE
    /\ phase' = [c \in Clients |-> IF phase[c] = "queued" THEN "gone" ELSE phase[c]]
    /\ UNCHANGED <<serving, sockets, copier, pieces>>

\* One critical section: the flag, the listener with its backlog, the clients.
Close ==
    /\ ~closed /\ closed' = TRUE
    /\ phase' = [c \in Clients |-> IF phase[c] = "queued" THEN "gone" ELSE phase[c]]
    /\ open' = open \ (Connections \X {"client"})
    /\ UNCHANGED <<serving, broken, ended, copier, pieces>>

-------------------------------------------------------------------------------
(* The two ends *)

Connect(c) ==
    /\ phase[c] = "away" /\ ~closed
    /\ Enter(c, "queued")
    /\ UNCHANGED <<serving, closed, sockets, copier, pieces>>

Send(c, s) ==
    /\ Usable(c, s) /\ <<c, s>> \notin ended /\ sent[c][s] < MaxSent
    /\ sent' = [sent EXCEPT ![c][s] = @ + 1]
    /\ UNCHANGED <<serving, closed, phase, sockets, copier, passed>>

\* The end has no more to send, but still reads.
EndInput(c, s) ==
    /\ Usable(c, s) /\ <<c, s>> \notin ended
    /\ ended' = ended \cup {<<c, s>>}
    /\ UNCHANGED <<serving, closed, phase, open, broken, copier, pieces>>

Reset(c, s) ==
    /\ s \in Resetting /\ Usable(c, s)
    /\ broken' = broken \cup {<<c, s>>}
    /\ UNCHANGED <<serving, closed, phase, open, ended, copier, pieces>>

-------------------------------------------------------------------------------
Init ==
    /\ serving = TRUE /\ closed = FALSE
    /\ phase = [c \in Clients |-> "away"]
    /\ open = {} /\ broken = {} /\ ended = {}
    /\ copier = [c \in Clients |-> [s \in Sides |-> "off"]]
    /\ sent = [c \in Clients |-> [s \in Sides |-> 0]]
    /\ passed = [c \in Clients |-> [s \in Sides |-> 0]]

Copy(c, s) == Read(c, s) \/ ReadEnds(c, s) \/ Write(c, s) \/ WriteFails(c, s)

Forward(c) ==
    \/ Dial(c) \/ DialFails(c) \/ Finish(c)
    \/ \E s \in Sides : Copy(c, s)

Serve == AcceptFails \/ \E c \in Clients : Accept(c) \/ Register(c)

Peers ==
    \E c \in Clients :
        \/ Connect(c)
        \/ \E s \in Sides : Send(c, s) \/ EndInput(c, s) \/ Reset(c, s)

Next == Serve \/ Close \/ Peers \/ \E c \in Clients : Forward(c)

Spec == Init /\ [][Next]_vars

\* Goroutines run, a dial ends within its 10 seconds, Accept returns when there
\* is a client or the listener is closed, and a write returns unless its reader
\* may stall.  Nothing is assumed of the two ends, nor of close being called.
Fairness ==
    /\ WF_vars(\E c \in Clients : Accept(c))
    /\ WF_vars(closed /\ AcceptFails)
    /\ \A c \in Clients :
          /\ WF_vars(Register(c))
          /\ WF_vars(Dial(c) \/ DialFails(c))
          /\ WF_vars(Finish(c))
          /\ \A s \in Sides :
                /\ WF_vars(Read(c, s)) /\ WF_vars(ReadEnds(c, s))
                /\ WF_vars(WriteFails(c, s))
                /\ Other(s) \notin Stalling => WF_vars(Write(c, s))

FairSpec == Spec /\ Fairness

-------------------------------------------------------------------------------
(* Properties *)

Typed ==
    /\ serving \in BOOLEAN /\ closed \in BOOLEAN
    /\ phase \in [Clients -> Phases]
    /\ open \subseteq Sockets /\ broken \subseteq Sockets /\ ended \subseteq Sockets
    /\ copier \in [Clients -> [Sides -> Copiers]]
    /\ sent \in [Clients -> [Sides -> 0 .. MaxSent]]
    /\ passed \in [Clients -> [Sides -> 0 .. MaxSent]]

\* Every variable keeps its type, and no copier has passed on more than the end it reads
\* from has sent: io.Copy writes nothing on one side but what it read on the other.
TypeOK ==
    /\ Typed
    /\ \A c \in Clients, s \in Sides : passed[c][s] <= sent[c][s]

\* Once close has returned no client connection is open, whatever it was doing
\* then, except one that Accept had already returned and serve is about to drop.
ClosedDropsClients ==
    closed => \A c \in Clients : <<c, "client">> \in open => c \in Arrived

\* After close nothing more is read from a client and nothing reaches one.  (A
\* piece already read may still be written to the target.)
ClosedCarriesNothing ==
    [][closed => \A c \in Clients :
          /\ passed'[c]["target"] = passed[c]["target"]
          /\ copier[c]["client"] # "write" => copier'[c]["client"] # "write"]_vars

\* A connection over for all: forward has returned, or the client never got so
\* far, and no goroutine and no socket is left.
Over(c) ==
    /\ phase[c] \in {"away", "gone"}
    /\ \A s \in Sides : <<c, s>> \notin open /\ copier[c][s] \in {"off", "end"}

\* Close ends every goroutine of the proxy, however long its ends are silent.
CloseEndsForwarding == closed ~> (~serving /\ \A c \in Clients : Over(c))

\* A client is not left in the backlog: it is accepted or refused.
BacklogIsServed == \A c \in Clients : phase[c] = "queued" ~> phase[c] # "queued"

\* Nothing of a connection was cut off by close, by a peer, or by the dial.
Undisturbed(c) ==
    /\ phase[c] = "gone" /\ ~closed
    /\ \A s \in Sides : <<c, s>> \notin broken

\* A target that answers and then ends its input has its whole answer
\* delivered, as long as the client has not ended its own input.
AnswerIsDelivered ==
    \A c \in Clients :
        Undisturbed(c) /\ <<c, "client">> \notin ended => Unread(c, "target") = 0

==============================================================================
