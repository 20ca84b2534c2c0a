----------------------------- MODULE ProxyProofs -----------------------------
(***************************************************************************)
(* What holds of a leased port's proxy for any number of clients and any   *)
(* amount of data, with Accept failing, peers resetting and peers stalling.*)
(***************************************************************************)
EXTENDS Proxy, TLAPS

\* A copier holds at most the one piece it has read.
PassedWithinSent ==
    \A c \in Clients, s \in Sides :
        /\ passed[c][s] <= sent[c][s]
        /\ copier[c][s] = "write" => passed[c][s] < sent[c][s]

\* Which sockets and goroutines a connection has in each phase.
SocketsOfPhase ==
    \A c \in Clients :
        /\ <<c, "client">> \in open => phase[c] \in {"arrived", "dial", "copy"}
        /\ ~closed /\ phase[c] \in {"arrived", "dial", "copy"} => <<c, "client">> \in open
        /\ <<c, "target">> \in open <=> phase[c] = "copy"
        /\ phase[c] = "copy" => \A s \in Sides : copier[c][s] # "off"
        /\ \A s \in Sides : copier[c][s] # "off" => phase[c] \in {"copy", "gone"}

\* Before it is dialled a target has sent nothing.
SilentBeforeDial ==
    \A c \in Clients : copier[c]["target"] = "off" => sent[c]["target"] = 0

Untouched(c) ==
    /\ ~closed /\ <<c, "client">> \notin ended
    /\ \A s \in Sides : <<c, s>> \notin broken

\* With both ends well the copier of the client's side goes on, and that of
\* the target's side ends only when there is nothing left to copy.
AnswerInTime ==
    \A c \in Clients : Untouched(c) =>
        /\ phase[c] = "copy" => copier[c]["client"] # "end"
        /\ phase[c] = "gone" => copier[c]["target"] \in {"off", "end"}
        /\ copier[c]["target"] = "end" =>
              Unread(c, "target") = 0 /\ <<c, "target">> \in ended

IInv ==
    /\ Typed
    /\ PassedWithinSent /\ SocketsOfPhase /\ SilentBeforeDial /\ AnswerInTime
    /\ ClosedDropsClients

-------------------------------------------------------------------------------
LEMMA SideFacts ==
    /\ "client" \in Sides /\ "target" \in Sides
    /\ Other("client") = "target" /\ Other("target") = "client"
    /\ \A s \in Sides : Other(s) \in Sides /\ (s = "client" \/ s = "target")
  BY DEF Sides, Other

\* Updating a table of tables at one place.
LEMMA Updated ==
    ASSUME NEW S, NEW T, NEW V, NEW f \in [S -> [T -> V]],
           NEW a \in S, NEW b \in T, NEW v \in V
    PROVE  /\ [f EXCEPT ![a][b] = v] \in [S -> [T -> V]]
           /\ \A x \in S, y \in T :
                 [f EXCEPT ![a][b] = v][x][y] = IF x = a /\ y = b THEN v ELSE f[x][y]
  OBVIOUS

LEMMA InitIInv == Init => IInv
  <1> SUFFICES ASSUME Init PROVE IInv
    OBVIOUS
  <1>1. /\ \A c \in Clients : phase[c] = "away"
        /\ \A c \in Clients, s \in Sides : copier[c][s] = "off" /\ sent[c][s] = 0
                                           /\ passed[c][s] = 0
    BY DEF Init
  <1>2. Typed
    <2>1. [s \in Sides |-> "off"] \in [Sides -> Copiers]
      BY DEF Copiers
    <2>2. [s \in Sides |-> 0] \in [Sides -> 0 .. MaxSent]
      BY ProxyAssumption
    <2> QED BY <2>1, <2>2 DEF Init, Typed, Phases
  <1>3. PassedWithinSent /\ SilentBeforeDial /\ AnswerInTime
    BY <1>1, SideFacts DEF PassedWithinSent, SilentBeforeDial, AnswerInTime
  <1>4. SocketsOfPhase /\ ClosedDropsClients
    BY <1>1 DEF Init, SocketsOfPhase, ClosedDropsClients
  <1> QED BY <1>2, <1>3, <1>4 DEF IInv

LEMMA PhaseTyped ==
    ASSUME Typed, NEW c \in Clients, NEW p \in Phases, Enter(c, p)
    PROVE  /\ phase' \in [Clients -> Phases]
           /\ \A d \in Clients : phase'[d] = IF d = c THEN p ELSE phase[d]
  BY DEF Typed, Enter

LEMMA CopierTyped ==
    ASSUME Typed, NEW c \in Clients, NEW s \in Sides, NEW p \in Copiers, Continue(c, s, p)
    PROVE  /\ copier' \in [Clients -> [Sides -> Copiers]]
           /\ \A d \in Clients, t \in Sides :
                 copier'[d][t] = IF d = c /\ t = s THEN p ELSE copier[d][t]
  <1>1. copier \in [Clients -> [Sides -> Copiers]] /\ copier' = [copier EXCEPT ![c][s] = p]
    BY DEF Typed, Continue
  <1> QED BY <1>1, Updated

\* What is written on one side was sent on the other.
LEMMA PassedTyped ==
    ASSUME IInv, NEW c \in Clients, NEW s \in Sides, Write(c, s)
    PROVE  /\ passed[c][s] + 1 <= sent[c][s]
           /\ passed' \in [Clients -> [Sides -> 0 .. MaxSent]]
           /\ \A d \in Clients, t \in Sides :
                 passed'[d][t] = IF d = c /\ t = s THEN passed[c][s] + 1 ELSE passed[d][t]
  <1>1. passed[c][s] \in 0 .. MaxSent /\ sent[c][s] \in 0 .. MaxSent
    BY DEF IInv, Typed
  <1>2. passed[c][s] < sent[c][s]
    BY DEF IInv, PassedWithinSent, Write
  <1>3. passed[c][s] + 1 <= sent[c][s] /\ passed[c][s] + 1 \in 0 .. MaxSent
    BY <1>1, <1>2, ProxyAssumption
  <1>4. passed' = [passed EXCEPT ![c][s] = passed[c][s] + 1]
    BY DEF Write
  <1>5. passed \in [Clients -> [Sides -> 0 .. MaxSent]]
    BY DEF IInv, Typed
  <1> DEFINE n == passed[c][s] + 1
  <1>6. n \in 0 .. MaxSent /\ passed' = [passed EXCEPT ![c][s] = n]
    BY <1>3, <1>4
  <1> HIDE DEF n
  <1>7. /\ passed' \in [Clients -> [Sides -> 0 .. MaxSent]]
        /\ \A d \in Clients, t \in Sides :
              passed'[d][t] = IF d = c /\ t = s THEN n ELSE passed[d][t]
    BY <1>5, <1>6, Updated
  <1> QED BY <1>3, <1>7 DEF n

LEMMA SentTyped ==
    ASSUME Typed, NEW c \in Clients, NEW s \in Sides, Send(c, s)
    PROVE  /\ sent' \in [Clients -> [Sides -> 0 .. MaxSent]]
           /\ \A d \in Clients, t \in Sides :
                 sent'[d][t] = IF d = c /\ t = s THEN sent[c][s] + 1 ELSE sent[d][t]
  <1>1. sent[c][s] \in 0 .. MaxSent /\ sent[c][s] < MaxSent
    BY DEF Typed, Send
  <1>2. sent[c][s] + 1 \in 0 .. MaxSent
    BY <1>1, ProxyAssumption
  <1>3. sent' = [sent EXCEPT ![c][s] = sent[c][s] + 1]
    BY DEF Send
  <1>4. sent \in [Clients -> [Sides -> 0 .. MaxSent]]
    BY DEF Typed
  <1> DEFINE n == sent[c][s] + 1
  <1>5. n \in 0 .. MaxSent /\ sent' = [sent EXCEPT ![c][s] = n]
    BY <1>2, <1>3
  <1> HIDE DEF n
  <1>6. /\ sent' \in [Clients -> [Sides -> 0 .. MaxSent]]
        /\ \A d \in Clients, t \in Sides :
              sent'[d][t] = IF d = c /\ t = s THEN n ELSE sent[d][t]
    BY <1>4, <1>5, Updated
  <1> QED BY <1>6 DEF n

\* Dialling starts the two copiers.
LEMMA DialTyped ==
    ASSUME Typed, NEW c \in Clients, Dial(c)
    PROVE  /\ copier' \in [Clients -> [Sides -> Copiers]]
           /\ \A d \in Clients, t \in Sides :
                 copier'[d][t] = IF d = c THEN "read" ELSE copier[d][t]
  <1>1. [s \in Sides |-> "read"] \in [Sides -> Copiers]
    BY DEF Copiers
  <1> QED BY <1>1 DEF Typed, Dial

LEMMA StepTypeOK ==
    ASSUME IInv, [Next]_vars
    PROVE  Typed'
  <1>1. Typed
    BY DEF IInv
  <1>3. ASSUME NEW c \in Clients,
               Connect(c) \/ Accept(c) \/ Register(c) \/ DialFails(c) \/ Finish(c)
        PROVE  Typed'
    <2>1. phase' \in [Clients -> Phases]
      <3>1. \E p \in Phases : Enter(c, p)
        BY <1>3 DEF Connect, Accept, Register, DialFails, Finish, Return, Phases
      <3> QED BY <1>1, <3>1, PhaseTyped
    <2>2. <<c, "client">> \in Sockets
      BY SideFacts DEF Sockets
    <2>3. open' \subseteq Sockets
      BY <1>1, <1>3, <2>2
      DEF Typed, Connect, Accept, Register, DialFails, Finish, Return, sockets
    <2> QED BY <1>1, <1>3, <2>1, <2>3
            DEF Typed, Connect, Accept, Register, DialFails, Finish, Return, sockets, pieces
  <1>4. ASSUME NEW c \in Clients, Dial(c) PROVE Typed'
    <2>1. <<c, "target">> \in Sockets /\ "copy" \in Phases
      BY SideFacts DEF Sockets, Phases
    <2> QED BY <1>1, <1>4, <2>1, DialTyped, PhaseTyped DEF Typed, Dial, pieces
  <1>5. ASSUME NEW c \in Clients, NEW s \in Sides,
               Read(c, s) \/ ReadEnds(c, s) \/ WriteFails(c, s)
        PROVE  Typed'
    <2>1. \E p \in Copiers : Continue(c, s, p)
      BY <1>5 DEF Read, ReadEnds, WriteFails, Copiers
    <2> QED BY <1>1, <1>5, <2>1, CopierTyped
            DEF Typed, Read, ReadEnds, WriteFails, sockets, pieces
  <1>6. ASSUME NEW c \in Clients, NEW s \in Sides, Write(c, s) PROVE Typed'
    <2>1. Continue(c, s, "read") /\ "read" \in Copiers
      BY <1>6 DEF Write, Copiers
    <2> QED BY <1>1, <1>6, <2>1, CopierTyped, PassedTyped DEF Typed, Write, sockets
  <1>7. ASSUME NEW c \in Clients, NEW s \in Sides, Send(c, s) PROVE Typed'
    BY <1>1, <1>7, SentTyped DEF Typed, Send, sockets
  <1>8. ASSUME NEW c \in Clients, NEW s \in Sides, EndInput(c, s) \/ Reset(c, s)
        PROVE  Typed'
    BY <1>1, <1>8 DEF Typed, EndInput, Reset, Sockets, pieces
  <1>9. ASSUME Close PROVE Typed'
    BY <1>1, <1>9 DEF Typed, Close, Phases, pieces
  <1>10. ASSUME AcceptFails \/ UNCHANGED vars PROVE Typed'
    BY <1>1, <1>10 DEF Typed, AcceptFails, vars, sockets, pieces
  <1> QED BY <1>3, <1>4, <1>5, <1>6, <1>7, <1>8, <1>9, <1>10
          DEF Next, Serve, Peers, Forward, Copy

-------------------------------------------------------------------------------
(* The inductive step, one lemma for each of the other conjuncts *)

LEMMA Counts ==
    ASSUME Typed, NEW c \in Clients, NEW s \in Sides
    PROVE  passed[c][s] \in Nat /\ sent[c][s] \in Nat
  BY ProxyAssumption DEF Typed

\* The steps that leave the pieces and the copiers as they are.
Elsewhere ==
    \/ AcceptFails \/ Close \/ UNCHANGED vars
    \/ \E c \in Clients :
          \/ Connect(c) \/ Accept(c) \/ Register(c) \/ DialFails(c) \/ Finish(c)
          \/ \E s \in Sides : EndInput(c, s) \/ Reset(c, s)

LEMMA ElsewhereKeeps ==
    ASSUME Elsewhere
    PROVE  UNCHANGED <<copier, sent, passed>>
  BY DEF Elsewhere, AcceptFails, Close, vars, Connect, Accept, Register, DialFails, Finish,
     Return, EndInput, Reset, pieces

LEMMA StepCases ==
    ASSUME [Next]_vars
    PROVE  \/ Elsewhere
           \/ \E c \in Clients : Dial(c)
           \/ \E c \in Clients, s \in Sides : Copy(c, s) \/ Send(c, s)
  BY DEF Next, Serve, Peers, Forward, Elsewhere

LEMMA StepPassedWithinSent ==
    ASSUME IInv, [Next]_vars
    PROVE  PassedWithinSent'
  <1> SUFFICES ASSUME NEW d \in Clients, NEW t \in Sides
               PROVE  /\ passed'[d][t] <= sent'[d][t]
                      /\ copier'[d][t] = "write" => passed'[d][t] < sent'[d][t]
    BY DEF PassedWithinSent
  <1>1. /\ Typed /\ passed[d][t] \in Nat /\ sent[d][t] \in Nat
        /\ passed[d][t] <= sent[d][t]
        /\ copier[d][t] = "write" => passed[d][t] < sent[d][t]
    BY Counts DEF IInv, PassedWithinSent
  <1>2. CASE Elsewhere
    BY <1>1, <1>2, ElsewhereKeeps
  <1>3. ASSUME NEW c \in Clients, Dial(c)
        PROVE  sent' = sent /\ passed' = passed
               /\ (copier'[d][t] = "write" => copier[d][t] = "write")
    BY <1>1, <1>3, DialTyped DEF Dial, pieces
  <1>4. ASSUME NEW c \in Clients, NEW s \in Sides, Read(c, s)
        PROVE  /\ sent' = sent /\ passed' = passed
               /\ copier'[d][t] = "write" => passed[d][t] < sent[d][t]
    <2>1. Continue(c, s, "write") /\ "write" \in Copiers /\ Unread(c, s) > 0
          /\ sent' = sent /\ passed' = passed
      BY <1>4 DEF Read, Copiers, pieces
    <2>2. copier'[d][t] = IF d = c /\ t = s THEN "write" ELSE copier[d][t]
      BY <1>1, <2>1, CopierTyped
    <2>3. d = c /\ t = s => passed[d][t] < sent[d][t]
      BY <1>1, <2>1 DEF Unread
    <2> QED BY <1>1, <2>1, <2>2, <2>3
  <1>5. ASSUME NEW c \in Clients, NEW s \in Sides, ReadEnds(c, s) \/ WriteFails(c, s)
        PROVE  sent' = sent /\ passed' = passed
               /\ (copier'[d][t] = "write" => copier[d][t] = "write")
    <2>1. Continue(c, s, "end") /\ "end" \in Copiers
      BY <1>5 DEF ReadEnds, WriteFails, Copiers
    <2>2. sent' = sent /\ passed' = passed
      BY <1>5 DEF ReadEnds, WriteFails, pieces
    <2> QED BY <1>1, <2>1, <2>2, CopierTyped
  <1>6. ASSUME NEW c \in Clients, NEW s \in Sides, Write(c, s)
        PROVE  /\ passed'[d][t] <= sent'[d][t]
               /\ copier'[d][t] = "write" => passed'[d][t] < sent'[d][t]
    <2>1. Continue(c, s, "read") /\ "read" \in Copiers /\ sent' = sent
      BY <1>6 DEF Write, Copiers
    <2>2. copier'[d][t] = IF d = c /\ t = s THEN "read" ELSE copier[d][t]
      BY <1>1, <2>1, CopierTyped
    <2>3. /\ passed[c][s] + 1 <= sent[c][s]
          /\ passed'[d][t] = IF d = c /\ t = s THEN passed[c][s] + 1 ELSE passed[d][t]
      BY <1>6, PassedTyped
    <2> QED BY <1>1, <2>1, <2>2, <2>3
  <1>7. ASSUME NEW c \in Clients, NEW s \in Sides, Send(c, s)
        PROVE  /\ passed'[d][t] <= sent'[d][t]
               /\ copier'[d][t] = "write" => passed'[d][t] < sent'[d][t]
    <2>1. copier' = copier /\ passed' = passed
      BY <1>7 DEF Send
    <2>2. sent'[d][t] \in {sent[d][t], sent[d][t] + 1}
      BY <1>1, <1>7, SentTyped
    <2> QED BY <1>1, <2>1, <2>2
  <1> QED BY <1>1, <1>2, <1>3, <1>4, <1>5, <1>6, <1>7, StepCases DEF Copy

LEMMA StepSilentBeforeDial ==
    ASSUME IInv, [Next]_vars
    PROVE  SilentBeforeDial'
  <1> SUFFICES ASSUME NEW d \in Clients, copier'[d]["target"] = "off"
               PROVE  sent'[d]["target"] = 0
    BY DEF SilentBeforeDial
  <1> USE SideFacts
  <1>1. Typed /\ (copier[d]["target"] = "off" => sent[d]["target"] = 0)
    BY DEF IInv, SilentBeforeDial
  <1>2. CASE Elsewhere
    BY <1>1, <1>2, ElsewhereKeeps
  <1>3. ASSUME NEW c \in Clients, Dial(c) PROVE sent'[d]["target"] = 0
    BY <1>1, <1>3, DialTyped DEF Dial, pieces
  <1>4. ASSUME NEW c \in Clients, NEW s \in Sides, Copy(c, s)
        PROVE  sent'[d]["target"] = 0
    <2>1. sent' = sent
      BY <1>4 DEF Copy, Read, ReadEnds, Write, WriteFails, pieces
    <2>2. \E p \in {"read", "write", "end"} : Continue(c, s, p)
      BY <1>4 DEF Copy, Read, ReadEnds, Write, WriteFails
    <2>3. copier[d]["target"] = "off"
      BY <1>1, <2>2, CopierTyped DEF Copiers
    <2> QED BY <1>1, <2>1, <2>3
  <1>5. ASSUME NEW c \in Clients, NEW s \in Sides, Send(c, s)
        PROVE  sent'[d]["target"] = 0
    <2>1. copier' = copier
      BY <1>5 DEF Send
    <2>2. ~ (c = d /\ s = "target")
      <3>1. <<c, s>> \in open
        BY <1>5 DEF Send, Usable
      <3>2. <<d, "target">> \in open => copier[d]["target"] # "off"
        BY DEF IInv, SocketsOfPhase
      <3> QED BY <2>1, <3>1, <3>2
    <2> QED BY <1>1, <1>5, <2>1, <2>2, SentTyped
  <1> QED BY <1>2, <1>3, <1>4, <1>5, StepCases

\* What SocketsOfPhase says of one connection.
Sound(c) ==
    /\ <<c, "client">> \in open => phase[c] \in {"arrived", "dial", "copy"}
    /\ ~closed /\ phase[c] \in {"arrived", "dial", "copy"} => <<c, "client">> \in open
    /\ <<c, "target">> \in open <=> phase[c] = "copy"
    /\ phase[c] = "copy" => \A s \in Sides : copier[c][s] # "off"
    /\ \A s \in Sides : copier[c][s] # "off" => phase[c] \in {"copy", "gone"}

\* A connection is not disturbed by what happens to another.
LEMMA OthersKeep ==
    ASSUME Typed, NEW c \in Clients, NEW d \in Clients, c # d,
           Connect(c) \/ Accept(c) \/ Register(c) \/ Dial(c) \/ DialFails(c) \/ Finish(c)
           \/ \E s \in Sides : Copy(c, s)
    PROVE  /\ phase'[d] = phase[d] /\ closed' = closed
           /\ \A s \in Sides : /\ <<d, s>> \in open' <=> <<d, s>> \in open
                               /\ copier'[d][s] = copier[d][s]
  <1>1. phase'[d] = phase[d] /\ closed' = closed
    BY DEF Typed, Connect, Accept, Register, Dial, DialFails, Finish, Return, Enter,
       Copy, Read, ReadEnds, Write, WriteFails
  <1>2. ASSUME NEW s \in Sides PROVE <<d, s>> \in open' <=> <<d, s>> \in open
    BY DEF Connect, Accept, Register, Dial, DialFails, Finish, Return,
       Copy, Read, ReadEnds, Write, WriteFails, sockets
  <1>3. ASSUME NEW s \in Sides PROVE copier'[d][s] = copier[d][s]
    <2>1. CASE \E t \in Sides : Copy(c, t)
      <3>1. PICK t \in Sides : Copy(c, t)
        BY <2>1
      <3>2. \E p \in {"read", "write", "end"} : Continue(c, t, p)
        BY <3>1 DEF Copy, Read, ReadEnds, Write, WriteFails
      <3> QED BY <3>2, CopierTyped DEF Copiers
    <2>2. CASE Dial(c)
      BY <2>2, DialTyped
    <2>3. CASE ~ Dial(c) /\ ~ \E t \in Sides : Copy(c, t)
      BY <2>3 DEF Connect, Accept, Register, DialFails, Finish, Return
    <2> QED BY <2>1, <2>2, <2>3
  <1> QED BY <1>1, <1>2, <1>3

LEMMA StepSocketsOfPhase ==
    ASSUME IInv, [Next]_vars
    PROVE  SocketsOfPhase'
  <1> SUFFICES ASSUME NEW d \in Clients PROVE Sound(d)'
    BY DEF SocketsOfPhase, Sound
  <1> USE SideFacts
  <1>1. Typed /\ Sound(d)
    BY DEF IInv, SocketsOfPhase, Sound
  <1>2. ASSUME NEW c \in Clients, c # d,
               Connect(c) \/ Accept(c) \/ Register(c) \/ Dial(c) \/ DialFails(c) \/ Finish(c)
               \/ \E s \in Sides : Copy(c, s)
        PROVE  Sound(d)'
    BY <1>1, <1>2, OthersKeep DEF Sound
  <1>3. CASE Connect(d)
    <2>1. phase'[d] = "queued"
      BY <1>1, <1>3, PhaseTyped DEF Connect, Phases
    <2> QED BY <1>1, <1>3, <2>1 DEF Connect, Sound, sockets
  <1>4. CASE Accept(d)
    <2>1. phase'[d] = "arrived"
      BY <1>1, <1>4, PhaseTyped DEF Accept, Phases
    <2> QED BY <1>1, <1>4, <2>1 DEF Accept, Sound
  <1>5. CASE Register(d)
    <2>1. CASE closed
      <3>1. phase'[d] = "gone"
        BY <1>1, <1>5, <2>1, PhaseTyped DEF Register, Phases
      <3> QED BY <1>1, <1>5, <2>1, <3>1 DEF Register, Sound
    <2>2. CASE ~closed
      <3>1. phase'[d] = "dial"
        BY <1>1, <1>5, <2>2, PhaseTyped DEF Register, Phases
      <3> QED BY <1>1, <1>5, <2>2, <3>1 DEF Register, Sound
    <2> QED BY <2>1, <2>2
  <1>6. CASE DialFails(d) \/ Finish(d)
    <2>1. Return(d) /\ phase[d] \in {"dial", "copy"}
      BY <1>6 DEF DialFails, Finish
    <2>2. phase'[d] = "gone"
      BY <1>1, <2>1, PhaseTyped DEF Return, Phases
    <2>3. \A s \in Sides : <<d, s>> \notin open'
      BY <2>1 DEF Return
    <2> QED BY <1>1, <2>1, <2>2, <2>3 DEF Return, Sound
  <1>7. CASE Dial(d)
    <2>1. phase'[d] = "copy" /\ phase[d] = "dial"
      BY <1>1, <1>7, PhaseTyped DEF Dial, Phases
    <2>2. \A s \in Sides : copier'[d][s] = "read"
      BY <1>1, <1>7, DialTyped
    <2> QED BY <1>1, <1>7, <2>1, <2>2 DEF Dial, Sound
  <1>8. ASSUME NEW t \in Sides, Copy(d, t) PROVE Sound(d)'
    <2>1. PICK p \in {"read", "write", "end"} : Continue(d, t, p)
      BY <1>8 DEF Copy, Read, ReadEnds, Write, WriteFails
    <2>2. \A s \in Sides : copier'[d][s] = IF s = t THEN p ELSE copier[d][s]
      BY <1>1, <2>1, CopierTyped DEF Copiers
    <2>3. copier[d][t] # "off"
      BY <1>8 DEF Copy, Read, ReadEnds, Write, WriteFails
    <2>4. phase' = phase /\ open' = open /\ closed' = closed
      BY <1>8 DEF Copy, Read, ReadEnds, Write, WriteFails, sockets
    <2> QED BY <1>1, <2>1, <2>2, <2>3, <2>4 DEF Sound
  <1>9. CASE Close
    <2>1. phase'[d] = IF phase[d] = "queued" THEN "gone" ELSE phase[d]
      BY <1>9 DEF Close
    <2>2. <<d, "target">> \in open' <=> <<d, "target">> \in open
      BY <1>9 DEF Close
    <2>3. <<d, "client">> \in open' => <<d, "client">> \in open
      BY <1>9 DEF Close
    <2> QED BY <1>1, <1>9, <2>1, <2>2, <2>3 DEF Close, Sound
  <1>10. ASSUME NEW c \in Clients, NEW s \in Sides,
                Send(c, s) \/ EndInput(c, s) \/ Reset(c, s)
         PROVE  Sound(d)'
    BY <1>1, <1>10 DEF Send, EndInput, Reset, Sound, sockets
  <1>11. CASE AcceptFails \/ UNCHANGED vars
    BY <1>1, <1>11 DEF AcceptFails, vars, Sound, sockets
  <1> QED BY <1>2, <1>3, <1>4, <1>5, <1>6, <1>7, <1>8, <1>9, <1>10, <1>11
          DEF Next, Serve, Peers, Forward

\* Registering looks at closed under the mutex that close holds.
LEMMA StepClosedDropsClients ==
    ASSUME IInv, [Next]_vars
    PROVE  ClosedDropsClients'
  <1> SUFFICES ASSUME closed', NEW d \in Clients, <<d, "client">> \in open'
               PROVE  phase'[d] = "arrived"
    BY DEF ClosedDropsClients, Arrived
  <1>1. /\ Typed
        /\ closed /\ <<d, "client">> \in open => phase[d] = "arrived"
        /\ <<d, "client">> \in open => phase[d] \in {"arrived", "dial", "copy"}
    BY DEF IInv, ClosedDropsClients, Arrived, SocketsOfPhase
  <1>2. CASE Close
    BY <1>1, <1>2 DEF Close, Connections
  <1>3. ASSUME NEW c \in Clients, Accept(c) PROVE FALSE
    BY <1>3 DEF Accept
  <1>4. ASSUME NEW c \in Clients, Register(c) \/ DialFails(c) \/ Finish(c)
        PROVE  phase'[d] = "arrived"
    <2>1. closed /\ c # d
      <3>1. closed
        BY <1>4 DEF Register, DialFails, Finish, Return
      <3>2. <<c, "client">> \notin open'
        BY <1>4, <3>1, SideFacts DEF Register, DialFails, Finish, Return
      <3> QED BY <3>1, <3>2
    <2>2. phase'[d] = phase[d] /\ <<d, "client">> \in open
      BY <1>1, <1>4, <2>1, OthersKeep, SideFacts
    <2> QED BY <1>1, <2>1, <2>2
  <1>5. ASSUME NEW c \in Clients, Dial(c) PROVE phase'[d] = "arrived"
    <2>1. <<d, "client">> \in open /\ closed
      BY <1>5 DEF Dial
    <2>2. phase[d] = "arrived" /\ phase[c] = "dial"
      BY <1>1, <1>5, <2>1 DEF Dial
    <2> QED BY <1>1, <1>5, <2>2 DEF Dial, Enter, Typed
  <1>6. ASSUME NEW c \in Clients, NEW s \in Sides,
               Copy(c, s) \/ Send(c, s) \/ EndInput(c, s) \/ Reset(c, s)
        PROVE  phase'[d] = "arrived"
    BY <1>1, <1>6 DEF Copy, Read, ReadEnds, Write, WriteFails, Send, EndInput, Reset, sockets
  <1>7. ASSUME NEW c \in Clients, Connect(c) PROVE FALSE
    BY <1>7 DEF Connect
  <1>8. CASE AcceptFails \/ UNCHANGED vars
    BY <1>1, <1>8 DEF AcceptFails, vars, sockets
  <1> QED BY <1>2, <1>3, <1>4, <1>5, <1>6, <1>7, <1>8 DEF Next, Serve, Peers, Forward

\* What AnswerInTime says of one connection.
InTime(c) ==
    /\ phase[c] = "copy" => copier[c]["client"] # "end"
    /\ phase[c] = "gone" => copier[c]["target"] \in {"off", "end"}
    /\ copier[c]["target"] = "end" => Unread(c, "target") = 0 /\ <<c, "target">> \in ended

\* Nothing repairs a connection that was touched.
LEMMA UntouchedBefore ==
    ASSUME [Next]_vars, NEW c \in Clients, Untouched(c)'
    PROVE  Untouched(c)
  <1>1. ASSUME NEW d \in Clients, Forward(d)
        PROVE  UNCHANGED <<closed, ended, broken>>
    BY <1>1 DEF Forward, Dial, DialFails, Finish, Return, Copy, Read, ReadEnds, Write,
       WriteFails, sockets
  <1>2. ASSUME Serve PROVE UNCHANGED <<closed, ended, broken>>
    BY <1>2 DEF Serve, AcceptFails, Accept, Register, sockets
  <1>3. ASSUME Close PROVE ~closed /\ ended' = ended /\ broken' = broken
    BY <1>3 DEF Close, sockets
  <1>4. ASSUME Peers \/ UNCHANGED vars
        PROVE  closed' = closed /\ ended \subseteq ended' /\ broken \subseteq broken'
    BY <1>4 DEF Peers, Connect, Send, EndInput, Reset, vars, sockets
  <1> QED BY <1>1, <1>2, <1>3, <1>4 DEF Untouched, Next

LEMMA StepAnswerInTime ==
    ASSUME IInv, [Next]_vars
    PROVE  AnswerInTime'
  <1> SUFFICES ASSUME NEW d \in Clients, Untouched(d)' PROVE InTime(d)'
    BY DEF AnswerInTime, InTime
  <1> USE SideFacts
  <1>1. Typed /\ Sound(d) /\ Untouched(d) /\ ~closed'
    BY UntouchedBefore DEF IInv, SocketsOfPhase, Sound, Untouched
  <1>2. InTime(d)
    BY <1>1 DEF IInv, AnswerInTime, InTime
  <1>3. ASSUME NEW c \in Clients, c # d,
               Connect(c) \/ Accept(c) \/ Register(c) \/ Dial(c) \/ DialFails(c) \/ Finish(c)
               \/ \E s \in Sides : Copy(c, s)
        PROVE  InTime(d)'
    <2>1. Unread(d, "target")' = Unread(d, "target") /\ ended' = ended
      <3>1. CASE \E s \in Sides : Write(c, s)
        BY <1>1, <1>3, <3>1, PassedTyped DEF Write, Unread, sockets
      <3>2. CASE ~ \E s \in Sides : Write(c, s)
        BY <1>3, <3>2 DEF Connect, Accept, Register, Dial, DialFails, Finish, Return, Copy,
           Read, ReadEnds, WriteFails, Unread, sockets, pieces
      <3> QED BY <3>1, <3>2
    <2> QED BY <1>1, <1>2, <1>3, <2>1, OthersKeep DEF InTime
  <1>4. CASE Connect(d) \/ Accept(d) \/ Register(d)
    <2>1. phase'[d] \in {"queued", "arrived", "dial"}
      BY <1>1, <1>4, PhaseTyped DEF Connect, Accept, Register, Untouched, Phases
    <2>2. copier' = copier /\ sent' = sent /\ passed' = passed /\ ended' = ended
      BY <1>4 DEF Connect, Accept, Register, sockets, pieces
    <2> QED BY <1>2, <2>1, <2>2 DEF InTime, Unread
  <1>5. CASE DialFails(d) \/ Finish(d)
    <2>1. copier' = copier /\ sent' = sent /\ passed' = passed /\ ended' = ended
      BY <1>5 DEF DialFails, Finish, Return, pieces
    <2>2. copier[d]["target"] \in {"off", "end"}
      <3>1. CASE DialFails(d)
        BY <1>1, <3>1 DEF DialFails, Sound
      <3>2. CASE Finish(d)
        BY <1>2, <3>2 DEF Finish, InTime
      <3> QED BY <1>5, <3>1, <3>2
    <2>3. phase'[d] = "gone"
      BY <1>1, <1>5, PhaseTyped DEF DialFails, Finish, Return, Phases
    <2> QED BY <1>2, <2>1, <2>2, <2>3 DEF InTime, Unread
  <1>6. CASE Dial(d)
    <2>1. \A s \in Sides : copier'[d][s] = "read"
      BY <1>1, <1>6, DialTyped
    <2>2. phase'[d] = "copy"
      BY <1>1, <1>6, PhaseTyped DEF Dial, Phases
    <2> QED BY <2>1, <2>2 DEF InTime
  <1>7. ASSUME NEW s \in Sides, Copy(d, s) PROVE InTime(d)'
    <2>1. phase' = phase /\ open' = open /\ broken' = broken /\ ended' = ended /\ sent' = sent
      BY <1>7 DEF Copy, Read, ReadEnds, Write, WriteFails, sockets, pieces
    <2>2. \A p \in Copiers : Continue(d, s, p) =>
             \A t \in Sides : copier'[d][t] = IF t = s THEN p ELSE copier[d][t]
      BY <1>1, CopierTyped
    <2>3. copier[d][s] \in {"read", "write"}
      BY <1>7 DEF Copy, Read, ReadEnds, Write, WriteFails
    <2>4. phase[d] = "copy" =>
             /\ Usable(d, "client") /\ Usable(d, "target")
      BY <1>1 DEF Sound, Untouched, Usable
    <2>5. phase[d] \in {"copy", "gone"}
      BY <1>1, <2>3 DEF Sound
    <2>6. CASE s = "client"
      <3>1. passed'[d]["target"] = passed[d]["target"]
        <4>1. CASE Write(d, s)
          BY <2>6, <4>1, PassedTyped
        <4>2. CASE ~ Write(d, s)
          BY <1>7, <4>2 DEF Copy, Read, ReadEnds, WriteFails, pieces
        <4> QED BY <4>1, <4>2
      <3>2. Unread(d, "target")' = Unread(d, "target")
        BY <2>1, <3>1 DEF Unread
      <3>3. \E p \in Copiers : Continue(d, s, p) /\ (phase[d] = "copy" => p # "end")
        BY <1>1, <1>7, <2>4, <2>6
        DEF Copy, Read, ReadEnds, Write, WriteFails, Copiers, Untouched
      <3>4. copier'[d]["target"] = copier[d]["target"]
            /\ (phase[d] = "copy" => copier'[d]["client"] # "end")
        BY <2>2, <2>6, <3>3
      <3> QED BY <1>2, <2>1, <3>2, <3>4 DEF InTime
    <2>7. CASE s = "target"
      <3>1. phase[d] = "copy"
        BY <1>2, <2>3, <2>5, <2>7 DEF InTime
      <3>2. \E p \in Copiers : /\ Continue(d, s, p)
                               /\ p = "end" => ReadEnds(d, s)
        BY <1>7, <2>4, <2>7, <3>1 DEF Copy, Read, ReadEnds, Write, WriteFails, Copiers
      <3>3. copier'[d]["client"] = copier[d]["client"]
            /\ (copier'[d]["target"] = "end" => ReadEnds(d, s))
        BY <2>2, <2>7, <3>2
      <3>4. ReadEnds(d, s) => Unread(d, "target")' = 0 /\ <<d, "target">> \in ended
        BY <2>4, <2>7, <3>1 DEF ReadEnds, Unread, pieces
      <3> QED BY <1>2, <2>1, <3>1, <3>3, <3>4 DEF InTime
    <2> QED BY <2>6, <2>7
  <1>8. ASSUME NEW c \in Clients, NEW s \in Sides, Send(c, s) PROVE InTime(d)'
    <2>1. copier' = copier /\ phase' = phase /\ ended' = ended /\ passed' = passed
      BY <1>8 DEF Send, sockets
    <2>2. <<d, "target">> \in ended => sent'[d]["target"] = sent[d]["target"]
      BY <1>1, <1>8, SentTyped DEF Send
    <2> QED BY <1>2, <2>1, <2>2 DEF InTime, Unread
  <1>9. ASSUME NEW c \in Clients, NEW s \in Sides, EndInput(c, s) \/ Reset(c, s)
        PROVE  InTime(d)'
    <2>1. copier' = copier /\ phase' = phase /\ ended \subseteq ended'
          /\ passed' = passed /\ sent' = sent
      BY <1>9 DEF EndInput, Reset, pieces
    <2> QED BY <1>2, <2>1 DEF InTime, Unread
  <1>10. CASE AcceptFails \/ UNCHANGED vars
    BY <1>2, <1>10 DEF AcceptFails, vars, sockets, pieces, InTime, Unread
  <1>11. CASE Close
    BY <1>1, <1>11 DEF Close
  <1> QED BY <1>3, <1>4, <1>5, <1>6, <1>7, <1>8, <1>9, <1>10, <1>11
          DEF Next, Serve, Peers, Forward

-------------------------------------------------------------------------------
LEMMA StepIInv == IInv /\ [Next]_vars => IInv'
  <1> SUFFICES ASSUME IInv, [Next]_vars PROVE IInv'
    OBVIOUS
  <1>1. Typed' /\ PassedWithinSent' /\ SocketsOfPhase' /\ SilentBeforeDial'
    BY StepTypeOK, StepPassedWithinSent, StepSocketsOfPhase, StepSilentBeforeDial
  <1>2. AnswerInTime' /\ ClosedDropsClients'
    BY StepAnswerInTime, StepClosedDropsClients
  <1> QED BY <1>1, <1>2 DEF IInv

\* The invariant everything else is read off from.
THEOREM Invariance == Spec => []IInv
  BY InitIInv, StepIInv, PTL DEF Spec

\* Every variable of the proxy keeps its type, and no copier has passed on more than the end
\* it reads from has sent, for any number of clients and pieces.
THEOREM ProxyTypeCorrect == Spec => []TypeOK
  <1>1. IInv => TypeOK
    BY DEF IInv, PassedWithinSent, TypeOK
  <1> QED BY <1>1, Invariance, PTL

\* Close leaves no client open but the one that serve is about to drop.
THEOREM CloseDropsEveryClient == Spec => []ClosedDropsClients
  BY Invariance, PTL DEF IInv

LEMMA AnswerFromInvariant ==
    ASSUME IInv
    PROVE  AnswerIsDelivered
  <1> SUFFICES ASSUME NEW c \in Clients, Undisturbed(c), <<c, "client">> \notin ended
               PROVE  Unread(c, "target") = 0
    BY DEF AnswerIsDelivered
  <1> USE SideFacts
  <1>1. Untouched(c) /\ phase[c] = "gone"
    BY DEF Undisturbed, Untouched
  <1>2. copier[c]["target"] \in {"off", "end"}
    BY <1>1 DEF IInv, AnswerInTime
  <1>3. CASE copier[c]["target"] = "end"
    BY <1>1, <1>3 DEF IInv, AnswerInTime
  <1>4. CASE copier[c]["target"] = "off"
    <2>1. sent[c]["target"] = 0 /\ passed[c]["target"] <= sent[c]["target"]
      BY <1>4 DEF IInv, SilentBeforeDial, PassedWithinSent
    <2>2. passed[c]["target"] \in Nat
      BY Counts DEF IInv
    <2> QED BY <2>1, <2>2 DEF Unread
  <1> QED BY <1>2, <1>3, <1>4

\* Nothing of an answer is lost between two well ends, whatever the other
\* connections, the accept loop and the order of the copiers do.
THEOREM AnswersAreDelivered == Spec => []AnswerIsDelivered
  BY Invariance, AnswerFromInvariant, PTL

\* After close no piece is read from a client and none reaches one.
LEMMA ClosedStep ==
    ASSUME IInv, [Next]_vars, closed, NEW c \in Clients
    PROVE  /\ passed'[c]["target"] = passed[c]["target"]
           /\ copier[c]["client"] # "write" => copier'[c]["client"] # "write"
  <1> USE SideFacts
  <1>1. Typed
    BY DEF IInv
  <1>2. \A d \in Clients, s \in Sides : copier[d][s] # "off" => ~ Usable(d, "client")
    BY DEF IInv, ClosedDropsClients, Arrived, SocketsOfPhase, Usable
  <1>3. CASE Elsewhere
    BY <1>3, ElsewhereKeeps
  <1>4. ASSUME NEW d \in Clients, Dial(d)
        PROVE  passed' = passed /\ (copier[c]["client"] # "write" => copier'[c]["client"] # "write")
    BY <1>1, <1>4, DialTyped DEF Dial, pieces
  <1>5. ASSUME NEW d \in Clients, NEW s \in Sides, Copy(d, s)
        PROVE  /\ passed'[c]["target"] = passed[c]["target"]
               /\ copier[c]["client"] # "write" => copier'[c]["client"] # "write"
    <2>1. copier[d][s] # "off"
      BY <1>5 DEF Copy, Read, ReadEnds, Write, WriteFails
    <2>2. ~ Usable(d, "client")
      BY <1>2, <2>1
    <2>3. passed'[c]["target"] = passed[c]["target"]
      <3>1. CASE Write(d, s)
        <4>1. s = "client"
          BY <2>2, <3>1 DEF Write
        <4> QED BY <3>1, <4>1, PassedTyped
      <3>2. CASE ~ Write(d, s)
        BY <1>5, <3>2 DEF Copy, Read, ReadEnds, WriteFails, pieces
      <3> QED BY <3>1, <3>2
    <2>4. \E p \in Copiers : Continue(d, s, p) /\ (s = "client" => p # "write")
      BY <1>5, <2>2 DEF Copy, Read, ReadEnds, Write, WriteFails, Copiers
    <2>5. copier[c]["client"] # "write" => copier'[c]["client"] # "write"
      BY <1>1, <2>4, CopierTyped
    <2> QED BY <2>3, <2>5
  <1>6. ASSUME NEW d \in Clients, NEW s \in Sides, Send(d, s)
        PROVE  passed' = passed /\ copier' = copier
    BY <1>6 DEF Send
  <1> QED BY <1>3, <1>4, <1>5, <1>6, StepCases

\* Once the proxy is closed no step reads a piece from a client or brings one to a client,
\* for connections whose dial succeeds only afterwards as well.
THEOREM CloseCarriesNothing == Spec => ClosedCarriesNothing
  <1>1. IInv /\ [Next]_vars =>
          [closed => \A c \in Clients :
              /\ passed'[c]["target"] = passed[c]["target"]
              /\ copier[c]["client"] # "write" => copier'[c]["client"] # "write"]_vars
    BY ClosedStep
  <1> QED BY <1>1, Invariance, PTL DEF Spec, ClosedCarriesNothing

==============================================================================
