--------------------------- MODULE Session_proofs ---------------------------
(***************************************************************************)
(* Proofs about Session for any number of clients, any scripts, and any    *)
(* number of times the simulator is stopped or killed and started again.   *)
(***************************************************************************)
EXTENDS Session, TLAPS

(* A client in one of these states has not connected.                      *)
Before == {"idle", "asked", "refused"}

States == Before \cup {"connecting", "sending", "session", "lost", "aborted", "done", "failed"}

(***************************************************************************)
(* The strengthening: a client connects once, so that its connection is    *)
(* either in the backlog, once, or has been taken from it.                 *)
(***************************************************************************)
Queued(c) == \E i \in 1..Len(backlog) : backlog[i] = c

Typed ==
    /\ cpc \in [Clients -> States]
    /\ backlog \in Seq(Clients)
    /\ conn \in Clients \cup {None}

NotYetQueued == \A c \in Clients : cpc[c] \in Before => ~Queued(c) /\ c \notin served

QueuedOnce == \A i, j \in 1..Len(backlog) : backlog[i] = backlog[j] => i = j

QueuedUnserved == \A i \in 1..Len(backlog) : backlog[i] \notin served

IInv == Typed /\ NotYetQueued /\ QueuedOnce /\ QueuedUnserved /\ BusyWhileOpen

-----------------------------------------------------------------------------
(* A step that leaves the connections alone and sends no client back.      *)
LEMMA OtherStep ==
    ASSUME IInv,
           UNCHANGED <<backlog, conn, served, used>>,
           cpc' \in [Clients -> States],
           \A c \in Clients : cpc'[c] \in Before => cpc[c] \in Before
    PROVE  IInv'
BY DEF IInv, Typed, NotYetQueued, QueuedOnce, QueuedUnserved, Queued, BusyWhileOpen

(* The invariant holds before any client has asked.                        *)
LEMMA InitIInv == Init => IInv
<1> SUFFICES ASSUME Init PROVE IInv
    OBVIOUS
<1>1. Len(backlog) = 0 /\ served = {} /\ conn = None /\ used = FALSE
    BY DEF Init
<1>2. Typed
    BY DEF Init, Typed, States, Before
<1>3. 1..Len(backlog) = {}
    BY <1>1
<1> QED
    BY <1>1, <1>2, <1>3
    DEF IInv, NotYetQueued, QueuedOnce, QueuedUnserved, Queued, BusyWhileOpen

(* The connection of a client that has had the answer "free".              *)
LEMMA ReadAnswerStep ==
    ASSUME IInv, NEW c \in Clients, NEW a \in {0, 1}, ReadAnswer(c, a)
    PROVE  IInv'
<1>1. CASE a = 0 /\ alive
    <2>1. /\ cpc[c] = "asked"
          /\ cpc' = [cpc EXCEPT ![c] = "connecting"]
          /\ backlog' = Append(backlog, c)
          /\ UNCHANGED <<conn, served, used>>
        BY <1>1 DEF ReadAnswer, Connect, devVars
    <2>2. backlog \in Seq(Clients) /\ ~Queued(c) /\ c \notin served
        BY <2>1 DEF IInv, Typed, NotYetQueued, Before
    <2>3. /\ Len(backlog') = Len(backlog) + 1
          /\ \A i \in 1..Len(backlog) : backlog'[i] = backlog[i]
          /\ backlog'[Len(backlog) + 1] = c
          /\ backlog' \in Seq(Clients)
          /\ Len(backlog) \in Nat
        BY <2>1, <2>2
    <2>4. Typed'
        BY <2>1, <2>3 DEF IInv, Typed, States
    <2>5. \A i \in 1..Len(backlog') : i = Len(backlog) + 1 \/ i \in 1..Len(backlog)
        BY <2>3
    <2>6. NotYetQueued'
        <3> SUFFICES ASSUME NEW x \in Clients, cpc'[x] \in Before
                     PROVE  ~Queued(x)' /\ x \notin served'
            BY DEF NotYetQueued
        <3>1. x # c /\ cpc[x] \in Before
            BY <2>1 DEF IInv, Typed, Before
        <3>2. ~Queued(x) /\ x \notin served
            BY <3>1 DEF IInv, NotYetQueued
        <3> QED BY <2>1, <2>3, <2>5, <3>1, <3>2 DEF Queued
    <2>7. QueuedOnce'
        <3> SUFFICES ASSUME NEW i \in 1..Len(backlog'), NEW j \in 1..Len(backlog'),
                            backlog'[i] = backlog'[j]
                     PROVE  i = j
            BY DEF QueuedOnce
        <3> QED BY <2>2, <2>3, <2>5 DEF IInv, QueuedOnce, Queued
    <2>8. QueuedUnserved' /\ BusyWhileOpen'
        BY <2>1, <2>2, <2>3, <2>5 DEF IInv, QueuedUnserved, BusyWhileOpen
    <2> QED BY <2>4, <2>6, <2>7, <2>8 DEF IInv
<1>2. CASE ~(a = 0 /\ alive)
    <2>1. /\ UNCHANGED <<backlog, conn, served, used>>
          /\ cpc[c] = "asked"
          /\ cpc' = [cpc EXCEPT ![c] = "connecting"] \/ cpc' = [cpc EXCEPT ![c] = "refused"]
        BY <1>2 DEF ReadAnswer, Connect, devVars
    <2>2. cpc' \in [Clients -> States]
        BY <2>1 DEF IInv, Typed, States, Before
    <2>3. \A x \in Clients : cpc'[x] \in Before => cpc[x] \in Before
        BY <2>1 DEF IInv, Typed, Before
    <2> QED BY <2>1, <2>2, <2>3, OtherStep
<1> QED
    BY <1>1, <1>2

(* Everything else a client does, or that happens to it.                   *)
LEMMA ClientStep ==
    ASSUME IInv, NEW c \in Clients,
           \/ Ask(c) \/ OnConnect(c) \/ ProcessLine(c) \/ WriteKills(c)
           \/ ReadResponse(c) \/ ReadJunk(c) \/ ReadBehindJunk(c) \/ ReadHangup(c)
           \/ Timeout(c)
    PROVE  IInv'
<1>1. UNCHANGED <<backlog, conn, served, used>>
    BY DEF Ask, OnConnect, ProcessLine, WriteKills, ReadResponse, ReadJunk, ReadBehindJunk,
           ReadHangup, Timeout, lisVars, devVars
<1>2. PICK s \in States : cpc' = [cpc EXCEPT ![c] = s] /\ (s \in Before => cpc[c] \in Before)
    BY DEF Ask, OnConnect, ProcessLine, WriteKills, ReadResponse, ReadJunk, ReadBehindJunk,
           ReadHangup, Timeout, NowAt, AfterRead, States, Before
<1>3. cpc' \in [Clients -> States]
    BY <1>2 DEF IInv, Typed
<1>4. \A x \in Clients : cpc'[x] \in Before => cpc[x] \in Before
    BY <1>2 DEF IInv, Typed
<1> QED
    BY <1>1, <1>3, <1>4, OtherStep

(* The head of the backlog has not had a session, and is not in it again.  *)
LEMMA PopStep ==
    ASSUME IInv, NEW c \in Clients, Incoming(c), backlog' = Tail(backlog), cpc' = cpc
    PROVE  /\ c \notin served /\ cpc[c] \notin Before
           /\ cpc' \in [Clients -> States] /\ backlog' \in Seq(Clients)
           /\ \A x \in Clients : Queued(x)' => Queued(x) /\ x # c
           /\ QueuedOnce'
           /\ \A i \in 1..Len(backlog') : backlog'[i] \notin served /\ backlog'[i] # c
<1>1. backlog \in Seq(Clients) /\ backlog # <<>> /\ backlog[1] = c
    BY DEF IInv, Typed, Incoming
<1>2. /\ Len(backlog) \in Nat /\ Len(backlog) >= 1
      /\ Len(backlog') = Len(backlog) - 1
      /\ backlog' \in Seq(Clients)
      /\ \A i \in 1..Len(backlog') : backlog'[i] = backlog[i + 1]
    BY <1>1
<1>3. Queued(c) /\ c \notin served
    BY <1>1, <1>2 DEF Queued, IInv, QueuedUnserved
<1>4. cpc[c] \notin Before
    BY <1>3 DEF IInv, NotYetQueued
<1>5. \A i \in 1..Len(backlog') : i + 1 \in 1..Len(backlog) /\ i + 1 # 1 /\ backlog'[i] = backlog[i + 1]
    BY <1>2
<1>6. \A i \in 1..Len(backlog') : backlog'[i] # c
    BY <1>1, <1>2, <1>5 DEF IInv, QueuedOnce
<1>7. \A x \in Clients : Queued(x)' => Queued(x) /\ x # c
    BY <1>5, <1>6 DEF Queued
<1>8. QueuedOnce'
    <2> SUFFICES ASSUME NEW i \in 1..Len(backlog'), NEW j \in 1..Len(backlog'),
                        backlog'[i] = backlog'[j]
                 PROVE  i = j
        BY DEF QueuedOnce
    <2>1. i + 1 = j + 1
        BY <1>5 DEF IInv, QueuedOnce
    <2> QED BY <2>1, <1>2
<1>9. \A i \in 1..Len(backlog') : backlog'[i] \notin served
    BY <1>5 DEF IInv, QueuedUnserved
<1> QED
    BY <1>2, <1>3, <1>4, <1>6, <1>7, <1>8, <1>9 DEF IInv, Typed

(* An accepted client had no session, and nobody else has one.             *)
LEMMA AcceptStep ==
    ASSUME IInv, NEW c \in Clients, AcceptConnection(c)
    PROVE  IInv' /\ conn = None /\ c \notin served /\ conn' = c /\ served' = served \cup {c}
<1>1. /\ Incoming(c) /\ ~used /\ backlog' = Tail(backlog) /\ cpc' = cpc
      /\ used' = TRUE /\ conn' = c /\ served' = served \cup {c}
    BY DEF AcceptConnection, cliVars
<1>2. conn = None
    BY <1>1 DEF IInv, BusyWhileOpen
<1>3. Typed' /\ QueuedOnce'
    BY <1>1, PopStep DEF Typed
<1>4. NotYetQueued'
    BY <1>1, PopStep DEF NotYetQueued, IInv
<1>5. QueuedUnserved'
    BY <1>1, PopStep DEF QueuedUnserved
<1>6. BusyWhileOpen'
    BY <1>1, ClientsAssumption DEF BusyWhileOpen
<1> QED
    BY <1>1, <1>2, <1>3, <1>4, <1>5, <1>6, PopStep DEF IInv

(* A client that is turned away leaves the backlog for good.               *)
LEMMA TurnAwayStep ==
    ASSUME IInv, NEW c \in Clients, TurnAway(c)
    PROVE  IInv' /\ UNCHANGED <<conn, served>>
<1>1. /\ Incoming(c) /\ backlog' = Tail(backlog) /\ cpc' = cpc
      /\ UNCHANGED <<conn, served, used>>
    BY DEF TurnAway, cliVars, devVars
<1>2. Typed' /\ QueuedOnce'
    BY <1>1, PopStep DEF Typed, IInv
<1>3. NotYetQueued'
    BY <1>1, PopStep DEF NotYetQueued, IInv
<1>4. QueuedUnserved' /\ BusyWhileOpen'
    BY <1>1, PopStep DEF QueuedUnserved, BusyWhileOpen, IInv
<1> QED
    BY <1>1, <1>2, <1>3, <1>4 DEF IInv

(* The simulator ends: by a signal or at the end of its time.              *)
LEMMA GoneStep ==
    ASSUME IInv, Gone
    PROVE  IInv' /\ conn' = None /\ served' = served
<1>1. /\ backlog' = <<>> /\ conn' = None /\ used' = FALSE /\ served' = served /\ cpc' = cpc
    BY DEF Gone, cliVars
<1>2. 1..Len(backlog') = {} /\ backlog' \in Seq(Clients)
    BY <1>1
<1>3. Typed' /\ NotYetQueued' /\ QueuedOnce' /\ QueuedUnserved' /\ BusyWhileOpen'
    BY <1>1, <1>2
    DEF IInv, Typed, NotYetQueued, QueuedOnce, QueuedUnserved, Queued, BusyWhileOpen
<1> QED
    BY <1>1, <1>3 DEF IInv

(* Behind the close callback nobody is connected, the device is free.      *)
LEMMA CloseStep ==
    ASSUME IInv, OnClose
    PROVE  IInv' /\ conn' = None /\ served' = served
<1>1. /\ conn' = None /\ used' = FALSE /\ UNCHANGED <<backlog, served, cpc>>
    BY DEF OnClose, cliVars, lisVars
<1> QED
    BY <1>1
    DEF IInv, Typed, NotYetQueued, QueuedOnce, QueuedUnserved, Queued, BusyWhileOpen

(* Steps that change neither the clients nor who is connected.             *)
LEMMA QuietStep ==
    ASSUME IInv,
           \/ \E c \in Clients : Reset(c) \/ AnswerOpen(c) \/ ServerRead(c) \/ ServerEof(c)
           \/ Start
           \/ UNCHANGED vars
    PROVE  IInv' /\ UNCHANGED <<conn, served>>
<1>1. UNCHANGED <<backlog, conn, served, used, cpc>>
    <2>1. ASSUME NEW c \in Clients, Reset(c) \/ AnswerOpen(c)
          PROVE  UNCHANGED <<backlog, conn, served, used, cpc>>
        BY <2>1 DEF Reset, AnswerOpen, cliVars, lisVars, devVars
    <2>2. ASSUME NEW c \in Clients, ServerRead(c) \/ ServerEof(c)
          PROVE  UNCHANGED <<backlog, conn, served, used, cpc>>
        BY <2>2 DEF ServerRead, ServerEof, cliVars, lisVars
    <2>3. CASE Start
        BY <2>3 DEF Start, cliVars, lisVars, devVars
    <2>4. CASE UNCHANGED vars
        BY <2>4 DEF vars, cliVars, lisVars, devVars
    <2> QED BY <2>1, <2>2, <2>3, <2>4
<1>2. cpc' \in [Clients -> States]
    BY <1>1 DEF IInv, Typed
<1> QED
    BY <1>1, <1>2, OtherStep

-----------------------------------------------------------------------------
(* What a step does to the connection: it is opened for a client that had  *)
(* none before, or closed, or left as it is.                               *)
Opens(c) ==
    /\ conn = None /\ conn' = c
    /\ c \notin served /\ served' = served \cup {c}

Closes == conn' = None /\ served' = served

SessionStep == (\E c \in Clients : Opens(c)) \/ Closes \/ UNCHANGED <<conn, served>>

(* Every step preserves the invariant and is a session step.               *)
LEMMA StepIInv == ASSUME IInv, [Next]_vars PROVE IInv' /\ SessionStep
<1>1. ASSUME NEW c \in Clients, Client(c) \/ Timeout(c)
      PROVE  IInv' /\ UNCHANGED <<conn, served>>
    <2>1. UNCHANGED <<conn, served>>
        BY <1>1 DEF Client, Ask, ReadAnswer, OnConnect, ProcessLine, WriteKills, ReadResponse,
               ReadJunk, ReadBehindJunk, ReadHangup, Timeout, devVars
    <2>2. IInv'
        BY <1>1, ReadAnswerStep, ClientStep DEF Client
    <2> QED BY <2>1, <2>2
<1>2. ASSUME NEW c \in Clients, AcceptConnection(c) \/ TurnAway(c)
      PROVE  IInv' /\ SessionStep
    BY <1>2, AcceptStep, TurnAwayStep DEF SessionStep, Opens
<1>3. ASSUME NEW c \in Clients, Reset(c) \/ AnswerOpen(c) \/ ServerRead(c) \/ ServerEof(c)
      PROVE  IInv' /\ UNCHANGED <<conn, served>>
    BY <1>3, QuietStep
<1>4. ASSUME Stop \/ \E c \in Clients : WriteKillsSimulator(c)
      PROVE  IInv' /\ Closes
    <2>1. Gone
        BY <1>4 DEF Stop, WriteKillsSimulator
    <2> QED BY <2>1, GoneStep DEF Closes
<1>5. CASE OnClose
    BY <1>5, CloseStep DEF SessionStep, Closes
<1>6. CASE Start \/ UNCHANGED vars
    BY <1>6, QuietStep DEF SessionStep
<1> QED
    BY <1>1, <1>2, <1>3, <1>4, <1>5, <1>6 DEF Next, Simulator, SessionStep

(* In every reachable state the device is in use exactly while a           *)
(* connection is open, and a client is in the backlog once at most, only   *)
(* behind its connect, and never after it has been served: on_udp_cli_read *)
(* stops receiving, so a client connects once.                             *)
THEOREM InductiveInvariant == Spec => []IInv
<1>1. Init => IInv
    BY InitIInv
<1>2. IInv /\ [Next]_vars => IInv'
    BY StepIInv
<1> QED
    BY <1>1, <1>2, PTL DEF Spec

(* flg_used tells exactly whether a connection is open, for any number of  *)
(* clients and whatever ends the simulator.                                *)
THEOREM BusyMatchesConnection == Spec => []BusyWhileOpen
<1>1. IInv => BusyWhileOpen
    BY DEF IInv
<1> QED
    BY <1>1, InductiveInvariant, PTL

(* At any time one client has the device; it got it when nobody had it,    *)
(* and no client gets it a second time.                                    *)
THEOREM OneSessionEach == Spec => [][SessionStep]_<<conn, served>>
<1>1. IInv /\ [Next]_vars => [SessionStep]_<<conn, served>>
    BY StepIInv
<1> QED
    BY <1>1, InductiveInvariant, PTL DEF Spec
=============================================================================
