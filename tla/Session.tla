------------------------------- MODULE Session -------------------------------
(***************************************************************************)
(* Several edio24cli processes and one edio24sim process.  A client asks   *)
(* over UDP whether the device is free, connects over TCP, writes all the  *)
(* commands of its script and counts the responses; the simulator gives    *)
(* the device to one connection at a time and keeps what it has received   *)
(* and not yet processed in one buffer for all of them.  The simulator may *)
(* be stopped, or be killed by SIGPIPE, and be started again.              *)
(*                                                                         *)
(* libuv is modelled from how the two programs use it: a callback is one   *)
(* action; the kernel completes a TCP connection before the simulator      *)
(* accepts it; uv_close runs its callback later; and a listener whose      *)
(* callback returns without uv_accept stops accepting for good.  Neither   *)
(* program ignores SIGPIPE, which a write raises on a connection that has  *)
(* been reset.                                                             *)
(***************************************************************************)
EXTENDS Framing, FiniteSets, SequencesExt

CONSTANTS
    Clients, None,
    Scripts,     \* what the command files of the clients may be
    CmdSize,     \* CmdSize[k]: the size of the packet of a command
    Cap,         \* sizeof g_edio24svr.buffer
    RandFail,    \* the simulator was started with flg_randfail
    MayTimeout,  \* the clients were started with a timeout
    MaxStarts    \* bound: times the simulator is started; 1: nobody stops it

(***************************************************************************)
(* "write" and "bulk", a write with a long payload, are answered by a      *)
(* response without data; "read" by one with data, whose header is never   *)
(* written; for "sleep" there is no packet at all.                         *)
(***************************************************************************)
Requests == {"write", "bulk", "read"}
Commands == Requests \cup {"sleep"}

ASSUME ClientsAssumption == None \notin Clients
ASSUME ScriptsAssumption == Scripts \subseteq [Clients -> Seq(Commands)]
PacketSize == {n \in Nat : n >= MinLen}

ASSUME SizeAssumption == CmdSize \in [Requests -> PacketSize]
ASSUME RoomAssumption == Cap \in Nat /\ Cap >= MinLen
ASSUME FlagsAssumption == {RandFail, MayTimeout} \subseteq BOOLEAN
ASSUME StartsAssumption == MaxStarts \in Nat \ {0}

VARIABLES
    script,    \* fn_conf: the command file of every client
    cpc,       \* where every client stands
    nreq,      \* num_requests
    nresp,     \* num_responds
    stuck,     \* the head of the client's buffer is not a packet
    answers,   \* the "open" answers sent to every client and not lost
    asked,     \* the clients whose "open" request is under way
    backlog,   \* connections the kernel has completed
    held,      \* the connection libuv accepted and the callback did not take
    alive,     \* the simulator runs
    starts,    \* how often it has been started
    used,      \* flg_used
    conn,      \* the client at the other end of the open connection
    closing,   \* uv_close was called on it
    buffer,    \* g_edio24svr.buffer[0 .. sz_data - 1]
    up, down,  \* bytes to the simulator, responses to the client
    broken,    \* the clients whose connection has been reset
    hungup,    \* the clients whose connection the simulator has closed
    served,    \* the clients a connection was opened for
    ran        \* the commands executed in every client's session

cliVars == <<cpc, nreq, nresp, stuck>>
udpVars == <<asked, answers>>
lisVars == <<backlog, held>>
simVars == <<alive, starts>>
devVars == <<used, conn, closing, served>>
tcpVars == <<up, down, broken>>
rxVars  == <<buffer, hungup, ran>>

vars == <<script, cliVars, udpVars, simVars, lisVars, devVars, tcpVars, rxVars>>

Init ==
    /\ script \in Scripts
    /\ cpc = [c \in Clients |-> "idle"]
    /\ nreq = [c \in Clients |-> 0]
    /\ nresp = [c \in Clients |-> 0]
    /\ stuck = [c \in Clients |-> FALSE]
    /\ answers = [c \in Clients |-> {}]
    /\ asked = {}
    /\ backlog = <<>>
    /\ held = None
    /\ alive = TRUE
    /\ starts = 1
    /\ used = FALSE
    /\ conn = None
    /\ closing = FALSE
    /\ buffer = <<>>
    /\ up = [c \in Clients |-> <<>>]
    /\ down = [c \in Clients |-> <<>>]
    /\ broken = {}
    /\ hungup = {}
    /\ served = {}
    /\ ran = [c \in Clients |-> <<>>]

-----------------------------------------------------------------------------
(* The client. *)

Exited(c) == cpc[c] \in {"done", "failed", "aborted"}

HasClosed(c) == Exited(c) \/ cpc[c] = "lost"

(* main_cli: one "open" datagram is sent. *)
Ask(c) ==
    /\ cpc[c] = "idle"
    /\ cpc' = [cpc EXCEPT ![c] = "asked"]
    /\ asked' = asked \cup {c}
    /\ UNCHANGED <<script, nreq, nresp, stuck, answers, simVars, lisVars, devVars, tcpVars, rxVars>>

(***************************************************************************)
(* on_udp_cli_read: connect if the answer is 0; stop receiving anyhow.     *)
(* Without a simulator the connection is refused, which nobody looks at.   *)
(***************************************************************************)
Connect(c) ==
    /\ cpc' = [cpc EXCEPT ![c] = "connecting"]
    /\ backlog' = IF alive THEN Append(backlog, c) ELSE backlog
    /\ hungup' = IF alive THEN hungup ELSE hungup \cup {c}
    /\ broken' = IF alive THEN broken ELSE broken \cup {c}

ReadAnswer(c, a) ==
    /\ cpc[c] = "asked"
    /\ a \in answers[c]
    /\ IF a = 0
         THEN Connect(c)
         ELSE /\ cpc' = [cpc EXCEPT ![c] = "refused"]
              /\ UNCHANGED <<backlog, hungup, broken>>
    /\ UNCHANGED <<script, nreq, nresp, stuck, udpVars, simVars, held, devVars, up, down,
                   buffer, ran>>

(* The packets of the first n lines: one for every line but a sleep.       *)
Sent(c, n) == Cardinality({i \in 1..n : script[c][i] # "sleep"})

(* The packet of line i; the packets of a client are numbered.             *)
PacketOf(c, i) ==
    [id |-> <<c, Sent(c, i)>>, size |-> CmdSize[script[c][i]], kind |-> "ok",
     reply |-> script[c][i]]

Requested(c) == Len(script[c])

(* on_tcp_cli_connect, whatever its status: every line of the file is      *)
(* processed before uv_read_start.                                         *)
NowAt(c, n) == IF n < Requested(c) THEN "sending" ELSE "session"

OnConnect(c) ==
    /\ cpc[c] = "connecting"
    /\ cpc' = [cpc EXCEPT ![c] = NowAt(c, 0)]
    /\ UNCHANGED <<script, nreq, nresp, stuck, udpVars, simVars, lisVars, devVars, tcpVars, rxVars>>

(***************************************************************************)
(* process_command: the next line of the file is turned into a packet,     *)
(* written and counted.  A sleep is written as a buffer of no bytes, and   *)
(* counted.                                                                *)
(***************************************************************************)
ProcessLine(c) ==
    /\ cpc[c] = "sending"
    /\ nreq' = [nreq EXCEPT ![c] = @ + 1]
    /\ cpc' = [cpc EXCEPT ![c] = NowAt(c, nreq[c] + 1)]
    /\ LET i == nreq[c] + 1
           lost == script[c][i] = "sleep" \/ c \in broken
       IN  up' = IF lost THEN up ELSE [up EXCEPT ![c] = @ \o Bytes(PacketOf(c, i))]
    /\ UNCHANGED <<script, nresp, stuck, udpVars, simVars, lisVars, devVars, down, broken, rxVars>>

(* A write on a connection that has been reset raises SIGPIPE, the second  *)
(* at the latest: the first may fail, which the client takes for the end.  *)
WriteKills(c) ==
    /\ cpc[c] = "sending"
    /\ c \in broken
    /\ cpc' = [cpc EXCEPT ![c] = "aborted"]
    /\ UNCHANGED <<script, nreq, nresp, stuck, udpVars, simVars, lisVars, devVars, tcpVars, rxVars>>

(* Broken: one response too few will do. *)
EnoughOneEarly(c) == nresp'[c] + 1 >= nreq[c]

(* Broken: one response too many is waited for. *)
EnoughOneLate(c) == nresp'[c] > nreq[c]

(* The check at the end of on_tcp_cli_read. *)
Enough(c) == nresp'[c] >= nreq[c]

AfterRead(c) == cpc' = [cpc EXCEPT ![c] = IF Enough(c) THEN "done" ELSE "session"]

(* Broken: the response counted is not removed from the buffer. *)
ReadResponseKeeps(c) ==
    /\ cpc[c] = "session"
    /\ down[c] # <<>>
    /\ ~stuck[c]
    /\ Head(down[c]) = "response"
    /\ nresp' = [nresp EXCEPT ![c] = @ + 1]
    /\ AfterRead(c)
    /\ UNCHANGED <<script, nreq, stuck, udpVars, simVars, lisVars, devVars, tcpVars, rxVars>>

(* on_tcp_cli_read: a response at the head of the buffer is counted. *)
ReadResponse(c) ==
    /\ cpc[c] = "session"
    /\ down[c] # <<>>
    /\ ~stuck[c]
    /\ Head(down[c]) = "response"
    /\ nresp' = [nresp EXCEPT ![c] = @ + 1]
    /\ down' = [down EXCEPT ![c] = Tail(@)]
    /\ AfterRead(c)
    /\ UNCHANGED <<script, nreq, stuck, udpVars, simVars, lisVars, devVars, up, broken, rxVars>>

(***************************************************************************)
(* Bytes the simulator never wrote are read as a header.  If what follows  *)
(* adds up it is counted as one response, whatever responses it swallows;  *)
(* if not it stays at the head of the buffer.                              *)
(***************************************************************************)
ReadJunk(c) ==
    /\ cpc[c] = "session"
    /\ down[c] # <<>>
    /\ ~stuck[c]
    /\ Head(down[c]) = "junk"
    /\ \/ /\ stuck' = [stuck EXCEPT ![c] = TRUE]
          /\ UNCHANGED <<nresp, down>>
       \/ /\ nresp' = [nresp EXCEPT ![c] = @ + 1]
          /\ \E n \in 1..Len(down[c]) :
               down' = [down EXCEPT ![c] = SubSeq(@, n + 1, Len(@))]
          /\ UNCHANGED stuck
    /\ AfterRead(c)
    /\ UNCHANGED <<script, nreq, udpVars, simVars, lisVars, devVars, up, broken, rxVars>>

(* Behind a head that is not a packet nothing is looked at any more. *)
ReadBehindJunk(c) ==
    /\ cpc[c] = "session"
    /\ down[c] # <<>>
    /\ stuck[c]
    /\ down' = [down EXCEPT ![c] = Tail(@)]
    /\ UNCHANGED nresp
    /\ AfterRead(c)
    /\ UNCHANGED <<script, nreq, stuck, udpVars, simVars, lisVars, devVars, up, broken, rxVars>>

(* nread < 0: the client closes its end and goes on waiting; if it had     *)
(* enough responses it would close twice, which libuv does not survive.    *)
ReadHangup(c) ==
    /\ cpc[c] = "session"
    /\ c \in hungup
    /\ down[c] = <<>> \/ c \in broken
    /\ UNCHANGED nresp
    /\ cpc' = [cpc EXCEPT ![c] = IF Enough(c) THEN "aborted" ELSE "lost"]
    /\ UNCHANGED <<script, nreq, stuck, udpVars, simVars, lisVars, devVars, tcpVars, rxVars>>

(* idle_cb: the time is over, whatever the client is waiting for; but the  *)
(* loop does not run while the lines are processed.                        *)
Timeout(c) ==
    /\ MayTimeout
    /\ cpc[c] \notin {"idle", "sending"}
    /\ ~Exited(c)
    /\ cpc' = [cpc EXCEPT ![c] = "failed"]
    /\ UNCHANGED <<script, nreq, nresp, stuck, udpVars, simVars, lisVars, devVars, tcpVars, rxVars>>

-----------------------------------------------------------------------------
(* The network: datagrams are lost when nobody handles them and duplicated *)
(* when they are handled twice; bytes that arrive at a closed socket reset *)
(* the connection, and some of those still on their way are lost.          *)

Reset(c) ==
    /\ c \notin broken
    /\ broken' = broken \cup {c}
    /\ \/ /\ HasClosed(c)
          /\ down[c] # <<>>
          /\ down' = [down EXCEPT ![c] = <<>>]
          /\ \E n \in 0..Len(up[c]) : up' = [up EXCEPT ![c] = SubSeq(@, 1, n)]
       \/ /\ c \in hungup
          /\ up[c] # <<>>
          /\ up' = [up EXCEPT ![c] = <<>>]
          /\ UNCHANGED down
    /\ UNCHANGED <<script, cliVars, udpVars, simVars, lisVars, devVars, rxVars>>

-----------------------------------------------------------------------------
(* The simulator. *)

(* on_udp_srv_read: 0 is "free"; flg_randfail may turn it into "busy". *)
AnswerOpen(c) ==
    /\ alive
    /\ c \in asked
    /\ \E a \in {0, 1} :
         /\ IF used THEN a = 1 ELSE a = 0 \/ RandFail
         /\ answers' = [answers EXCEPT ![c] = @ \cup {a}]
    /\ UNCHANGED <<script, cliVars, asked, simVars, lisVars, devVars, tcpVars, rxVars>>

(* The kernel hands libuv the next connection, if libuv still asks. *)
Incoming(c) == held = None /\ backlog # <<>> /\ Head(backlog) = c

(* Broken: flg_used is not looked at. *)
AcceptWhenBusy(c) ==
    /\ Incoming(c)
    /\ used' = TRUE
    /\ conn' = c
    /\ served' = served \cup {c}
    /\ backlog' = Tail(backlog)
    /\ UNCHANGED <<script, cliVars, udpVars, simVars, held, closing, tcpVars, rxVars>>

(* on_tcp_svr_accept: the device is free. *)
AcceptConnection(c) ==
    /\ Incoming(c)
    /\ ~used
    /\ used' = TRUE
    /\ conn' = c
    /\ served' = served \cup {c}
    /\ backlog' = Tail(backlog)
    /\ UNCHANGED <<script, cliVars, udpVars, simVars, held, closing, tcpVars, rxVars>>

(* "device busy": the callback returns and the connection is not taken. *)
TurnAway(c) ==
    /\ Incoming(c)
    /\ used
    /\ held' = c
    /\ backlog' = Tail(backlog)
    /\ UNCHANGED <<script, cliVars, udpVars, simVars, devVars, tcpVars, rxVars>>

Cell == [pkt : [id : Clients \X Nat, size : PacketSize, kind : {"ok"}, reply : Requests],
         pos : Nat]

(* If the header at the head of the buffer is a mixture of two packets its *)
(* count may ask for more data or not: mixed.                              *)
Refuses(buf, mixed) ==
    /\ Len(buf) >= MinLen
    /\ IF HeaderWhole(buf) THEN Len(buf) >= Claimed(buf) /\ ~Intact(buf) ELSE mixed

Response(p) == IF p.reply = "read" THEN "junk" ELSE "response"

(* The loop of edio24svr_process_data: it takes out every packet it can,   *)
(* and writes one response for each.                                       *)
Drain[b \in Seq(Cell)] ==
    IF Accepts(b)
      THEN LET r == Drain[DropFrame(b)]
           IN  [buf |-> r.buf, ids |-> <<b[1].pkt.id>> \o r.ids,
                out |-> <<Response(b[1].pkt)>> \o r.out]
      ELSE [buf |-> b, ids |-> <<>>, out |-> <<>>]

(* A packet at the head that is refused is answered by a buffer of junk.   *)
Process(buf, mixed) ==
    LET r == Drain[buf]
    IN  [r EXCEPT !.out = IF Refuses(r.buf, mixed) THEN Append(@, "junk") ELSE @]

(* Broken: nothing is copied unless all of it fits. *)
CopySizeAllOrNothing(buf, rest) == IF Len(rest) + Len(buf) > Cap THEN 0 ELSE Len(rest)

(* Broken: the room left is not looked at. *)
CopySizePastEnd(buf, rest) == Len(rest)

CopySize(buf, rest) == IF Len(rest) + Len(buf) > Cap THEN Cap - Len(buf) ELSE Len(rest)

(* The loop of on_tcp_svr_read: as much as there is room for is copied,    *)
(* and what can be processed is, until all is copied or there is no room.  *)
CopyLoop[x \in Seq(Cell) \X Seq(Cell) \X BOOLEAN] ==
    LET n == CopySize(x[1], x[2])
        p == Process(x[1] \o SubSeq(x[2], 1, n), x[3])
        r == CopyLoop[<<p.buf, SubSeq(x[2], n + 1, Len(x[2])), x[3]>>]
    IN  IF n > 0
          THEN [buf |-> r.buf, ids |-> p.ids \o r.ids, out |-> p.out \o r.out,
                stalled |-> r.stalled]
          ELSE [buf |-> x[1], ids |-> <<>>, out |-> <<>>, stalled |-> x[2] # <<>>]

(* The whole callback; a mixed header can claim more than there was before *)
(* the new data and not more than there is now.                            *)
ReadCallback(chunk, before, after) ==
    LET p == Process(buffer, before)
        r == CopyLoop[<<p.buf, chunk, after>>]
    IN  [r EXCEPT !.ids = p.ids \o @, !.out = p.out \o @]

ReadResults(chunk) == {ReadCallback(chunk, before, after) : before, after \in BOOLEAN}

ServerRead(c) ==
    /\ conn = c
    /\ ~closing
    /\ \E n \in 1..Len(up[c]) : \E r \in ReadResults(SubSeq(up[c], 1, n)) :
         /\ buffer' = r.buf
         /\ ran' = [ran EXCEPT ![c] = @ \o r.ids]
         /\ down' = IF c \in broken THEN down ELSE [down EXCEPT ![c] = @ \o r.out]
         /\ closing' = r.stalled
         /\ hungup' = IF r.stalled THEN hungup \cup {c} ELSE hungup
         /\ up' = [up EXCEPT ![c] = SubSeq(@, n + 1, Len(@))]
    /\ UNCHANGED <<script, cliVars, udpVars, simVars, lisVars, used, conn, served, broken>>

(* Broken: the device is free before the connection is closed. *)
ServerEofFreesAtOnce(c) ==
    /\ conn = c
    /\ ~closing
    /\ HasClosed(c)
    /\ up[c] = <<>>
    /\ closing' = TRUE
    /\ used' = FALSE
    /\ hungup' = hungup \cup {c}
    /\ UNCHANGED <<script, cliVars, udpVars, simVars, lisVars, conn, served, tcpVars, buffer, ran>>

(* Broken: the connection is not closed. *)
ServerEofForgets(c) ==
    /\ conn = c
    /\ ~closing
    /\ HasClosed(c)
    /\ up[c] = <<>>
    /\ hungup' = hungup \cup {c}
    /\ UNCHANGED <<script, cliVars, udpVars, simVars, lisVars, devVars, tcpVars, buffer, ran>>

(* nread < 0: the other end has closed. *)
ServerEof(c) ==
    /\ conn = c
    /\ ~closing
    /\ HasClosed(c)
    /\ up[c] = <<>>
    /\ closing' = TRUE
    /\ hungup' = hungup \cup {c}
    /\ UNCHANGED <<script, cliVars, udpVars, simVars, lisVars, used, conn, served, tcpVars, buffer, ran>>

(* on_tcp_svr_close *)
OnClose ==
    /\ closing
    /\ closing' = FALSE
    /\ used' = FALSE
    /\ conn' = None
    /\ UNCHANGED <<script, cliVars, udpVars, simVars, lisVars, served, tcpVars, rxVars>>

(***************************************************************************)
(* The simulator ends: the kernel closes every connection and the listener *)
(* with the connections that wait, and all that was in memory is gone.     *)
(***************************************************************************)
Connected == (ToSet(backlog) \cup {held, conn}) \ {None}

Gone ==
    /\ alive' = FALSE
    /\ backlog' = <<>>
    /\ held' = None
    /\ used' = FALSE
    /\ conn' = None
    /\ closing' = FALSE
    /\ buffer' = <<>>
    /\ hungup' = hungup \cup Connected
    /\ UNCHANGED <<script, cliVars, udpVars, starts, served, tcpVars, ran>>

(* idle_cb or on_sigint_received. *)
Stop == alive /\ starts < MaxStarts /\ Gone

(* A response is written to a connection that has been reset: SIGPIPE.     *)
WriteKillsSimulator(c) ==
    /\ conn = c
    /\ ~closing
    /\ c \in broken
    /\ \E n \in 1..Len(up[c]) : \E r \in ReadResults(SubSeq(up[c], 1, n)) : r.out # <<>>
    /\ Gone

(* main_svr: g_edio24svr is cleared. *)
Start ==
    /\ ~alive
    /\ starts < MaxStarts
    /\ alive' = TRUE
    /\ starts' = starts + 1
    /\ UNCHANGED <<script, cliVars, udpVars, lisVars, devVars, tcpVars, rxVars>>

-----------------------------------------------------------------------------
Client(c) ==
    \/ Ask(c)
    \/ \E a \in {0, 1} : ReadAnswer(c, a)
    \/ OnConnect(c) \/ ProcessLine(c) \/ WriteKills(c)
    \/ ReadResponse(c) \/ ReadJunk(c) \/ ReadBehindJunk(c) \/ ReadHangup(c)

Simulator ==
    \/ \E c \in Clients : AcceptConnection(c) \/ TurnAway(c)
    \/ \E c \in Clients : ServerRead(c) \/ WriteKillsSimulator(c) \/ ServerEof(c)
    \/ OnClose

Next ==
    \/ \E c \in Clients : Client(c) \/ Timeout(c) \/ Reset(c) \/ AnswerOpen(c)
    \/ Simulator \/ Stop \/ Start

Spec == Init /\ [][Next]_vars

(* Every event loop runs the callbacks it has; idle_cb watches the time.   *)
FairSpec ==
    /\ Spec
    /\ WF_vars(Simulator)
    /\ \A c \in Clients : WF_vars(Client(c)) /\ WF_vars(Timeout(c))

(* No datagram is lost, as on the loopback interface.                      *)
LosslessSpec ==
    FairSpec /\ \A c \in Clients : WF_vars(AnswerOpen(c) /\ answers[c] = {})

-----------------------------------------------------------------------------
(* Every variable stays in its domain; the buffer all connections share    *)
(* never holds more than its size.                                         *)
TypeOK ==
    /\ script \in Scripts
    /\ cpc \in [Clients -> {"idle", "asked", "refused", "connecting", "sending", "session",
                            "lost", "aborted", "done", "failed"}]
    /\ nreq \in [Clients -> Nat]
    /\ nresp \in [Clients -> Nat]
    /\ stuck \in [Clients -> BOOLEAN]
    /\ answers \in [Clients -> SUBSET {0, 1}]
    /\ asked \subseteq Clients
    /\ backlog \in Seq(Clients)
    /\ held \in Clients \cup {None}
    /\ alive \in BOOLEAN
    /\ starts \in 1..MaxStarts
    /\ used \in BOOLEAN
    /\ conn \in Clients \cup {None}
    /\ closing \in BOOLEAN
    /\ buffer \in Seq(Cell)
    /\ Len(buffer) <= Cap
    /\ up \in [Clients -> Seq(Cell)]
    /\ down \in [Clients -> Seq({"response", "junk"})]
    /\ broken \subseteq Clients
    /\ hungup \subseteq Clients
    /\ served \subseteq Clients
    /\ ran \in [Clients -> Seq(Clients \X Nat)]

(* flg_used tells exactly whether a connection is open: it is set before   *)
(* uv_accept and cleared by a callback that runs later, and in between the *)
(* connection is still the one being closed.                               *)
BusyWhileOpen == used <=> conn # None

(* The simulator serves one session at a time, and in it only commands of  *)
(* the client it belongs to, in the order of its script, each once: what   *)
(* an earlier client left behind in the shared buffer is never executed in *)
(* the name of a later one.                                                *)
Device == INSTANCE ExclusiveDevice WITH holder <- conn, executed <- ran

ServesExclusively == Device!DeviceSpec

(* A response the client has counted, or will, answers a command that was  *)
(* executed: num_responds never runs ahead of the device.                  *)
OneResponsePerCommand == \A c \in Clients : nresp[c] + Len(down[c]) <= Len(ran[c])

(* A client that exits with status 0 has had its whole script executed.    *)
DoneMeansExecuted == \A c \in Clients :
    cpc[c] = "done" => Len(ran[c]) = Sent(c, Requested(c))

(* A client whose connection was taken, that has something to send and     *)
(* reads no data back, gets all its responses and exits with status 0.     *)
ServedClientFinishes == \A c \in Clients :
    (c \in served /\ ToSet(script[c]) = {"write"}) ~> (cpc[c] = "done")

(* If nobody stops the simulator or runs out of time, and every packet     *)
(* fits its buffer, no process dies of a signal: none writes to a          *)
(* connection the other end has closed with data unread, and no client     *)
(* closes its handle twice.                                                *)
NobodyKilled == alive /\ \A c \in Clients : cpc[c] # "aborted"

(* Every session comes to an end, whatever the client does, if the clients *)
(* have a timeout: the device is never left in use by nobody.              *)
DeviceReleased == \A c \in Clients : (conn = c) ~> (conn # c)

(* "1 -- if the service in busy": while flg_used is 0 a client that        *)
(* connects is served.                                                     *)
FreeMeansServing == ~used => held = None

(* "a center buffer for this TCP connection": what is in the buffer came   *)
(* over the connection that is open.                                       *)
BufferOfThisConnection ==
    conn # None => \A i \in 1..Len(buffer) : buffer[i].pkt.id[1] = conn

(* num_requests is "the total number of requests sent".                    *)
CountsRequestsSent == \A c \in Clients :
    cpc[c] = "session" => nreq[c] = Sent(c, Requested(c))
=============================================================================
