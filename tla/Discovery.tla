------------------------------ MODULE Discovery ------------------------------
(***************************************************************************)
(* edio24cli -d: one datagram is broadcast, every device that gets it      *)
(* answers with a datagram that describes it, and the client prints what   *)
(* it reads.  flg_used plays no part: a device in use answers as well.     *)
(*                                                                         *)
(* libuv reads datagrams until the socket has none left, calls the         *)
(* callback once for each, and then once more without an address.          *)
(***************************************************************************)
EXTENDS Naturals, Sequences

CONSTANTS
    Devices,
    RandFail,    \* the simulators that were started with flg_randfail
    MayTimeout   \* the client was started with a timeout

VARIABLES
    cpc,       \* where the client stands
    reading,   \* libuv is in the middle of a batch of datagrams
    requests,  \* the devices the request is on its way to
    answers,   \* the devices whose answer is on its way
    socket,    \* the answers that have arrived and are not read yet
    printed    \* the devices the client has printed, in order

vars == <<cpc, reading, requests, answers, socket, printed>>

Init ==
    /\ cpc = "start"
    /\ reading = FALSE
    /\ requests = {}
    /\ answers = {}
    /\ socket = <<>>
    /\ printed = <<>>

(* main_cli sends the request; on_udp_cli_send starts the receiving. *)
Discover ==
    /\ cpc = "start"
    /\ cpc' = "listening"
    /\ requests' = Devices
    /\ UNCHANGED <<reading, answers, socket, printed>>

(* on_udp_srv_read; a simulator that is forced to fail sends nothing. *)
AnswerDiscovery(d) ==
    /\ d \in requests
    /\ requests' = requests \ {d}
    /\ \/ answers' = answers \cup {d}
       \/ d \in RandFail /\ UNCHANGED answers
    /\ UNCHANGED <<cpc, reading, socket, printed>>

(* A datagram gets lost. *)
Lose(d) ==
    /\ d \in requests \cup answers
    /\ requests' = requests \ {d}
    /\ answers' = answers \ {d}
    /\ UNCHANGED <<cpc, reading, socket, printed>>

Arrive(d) ==
    /\ d \in answers
    /\ answers' = answers \ {d}
    /\ socket' = Append(socket, d)
    /\ UNCHANGED <<cpc, reading, requests, printed>>

(* on_udp_cli_read with edio24_cli_verify_udp: the client goes on reading. *)
ReadAnswer ==
    /\ cpc = "listening"
    /\ socket # <<>>
    /\ reading' = TRUE
    /\ socket' = Tail(socket)
    /\ printed' = Append(printed, Head(socket))
    /\ UNCHANGED <<cpc, requests, answers>>

(* The last call of a batch, without an address, gets to uv_udp_recv_stop. *)
ReadNothing ==
    /\ cpc = "listening"
    /\ reading
    /\ socket = <<>>
    /\ reading' = FALSE
    /\ cpc' = "deaf"
    /\ UNCHANGED <<requests, answers, socket, printed>>

(* idle_cb; a client without a timeout never ends. *)
Timeout ==
    /\ MayTimeout
    /\ cpc \in {"listening", "deaf"}
    /\ ~reading
    /\ cpc' = "failed"
    /\ UNCHANGED <<reading, requests, answers, socket, printed>>

Next ==
    \/ Discover \/ ReadAnswer \/ ReadNothing \/ Timeout
    \/ \E d \in Devices : AnswerDiscovery(d) \/ Lose(d) \/ Arrive(d)

Spec == Init /\ [][Next]_vars

-----------------------------------------------------------------------------
(* "Discovery devices": no answer that reaches the client while it runs is *)
(* left unread for good.                                                   *)
HearsEveryDevice == cpc = "deaf" => socket = <<>>
=============================================================================
