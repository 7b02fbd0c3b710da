--------------------------- MODULE ExclusiveDevice ---------------------------
(***************************************************************************)
(* What the device promises its clients: one session at a time, one        *)
(* session per client, and within a session exactly the commands of the    *)
(* client it belongs to, in the order that client sent them.               *)
(***************************************************************************)
EXTENDS Naturals, Sequences

CONSTANTS Clients, None

VARIABLES
    holder,   \* the client whose session it is, or None
    served,   \* the clients that have had their session
    executed  \* for every client the commands executed in its session

deviceVars == <<holder, served, executed>>

DeviceInit ==
    /\ holder = None
    /\ served = {}
    /\ executed = [c \in Clients |-> <<>>]

Acquire(c) ==
    /\ holder = None
    /\ c \notin served
    /\ holder' = c
    /\ served' = served \cup {c}
    /\ UNCHANGED executed

(* One or more commands; command n of client c is <<c, n>>. *)
Execute(c) ==
    /\ holder = c
    /\ Len(executed'[c]) > Len(executed[c])
    /\ executed' = [executed EXCEPT ![c] = [n \in 1..Len(executed'[c]) |-> <<c, n>>]]
    /\ UNCHANGED <<holder, served>>

Release(c) ==
    /\ holder = c
    /\ holder' = None
    /\ UNCHANGED <<served, executed>>

DeviceNext == \E c \in Clients : Acquire(c) \/ Execute(c) \/ Release(c)

DeviceSpec == DeviceInit /\ [][DeviceNext]_deviceVars
=============================================================================
