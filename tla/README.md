# Models and proofs of libedio24

This directory holds TLA+ models of the repository: the library that builds and
reads the packets of the E-DIO24 protocol (`src/libedio24.c`), the client that
runs a script of commands (`utils/edio24cli.c`), the simulator of the device
(`utils/edio24sim.c`), the program that writes command scripts for a rack of
devices (`utils/gencctcmd.c`) and the search it uses (`utils/utils.c`). TLC
checks them on small instances; what matters most is also proved with TLAPS for
all values of the constants.

Paths below are relative to the repository. `PROJECT.json` lists the components,
the runs, the lines every definition models, the hazards, the findings, the
mutants and the theorems.

## 1. The system

| Component | State | Operations | Interacts by |
| --- | --- | --- | --- |
| Packet library, `src/libedio24.c` | none of its own; the callers' frame counter and buffers | `edio24_pkt_create_cmd_*`, `edio24_pkt_create_respond`, `edio24_pkt_verify`, `edio24_pkt_read_*`, `edio24_svr_process_tcp`, `edio24_cli_verify_tcp`, the two for UDP | calls; results through `sz_processed`, `sz_needed_in`, `sz_needed_out`, `sz_out` |
| Simulator, `utils/edio24sim.c` | `flg_used`, `flg_randfail`, `buffer[65]` and `sz_data`, one for all connections | libuv callbacks: UDP read, TCP accept, read, close, idle (timeout), SIGINT | UDP "open" and "discover", TCP stream |
| Client, `utils/edio24cli.c` | `frame`, `num_requests`, `num_responds`, `buffer[1031]` and `sz_data` | callbacks: UDP send and read, TCP connect, read, write end, idle, SIGINT; `process_command` for every line of a script | the same |
| `utils/gencctcmd.c` | two lists read from files, the argument of the last `-c` | reading a list, printing scripts and queries, one per option | files and standard output; the scripts are input of the client |
| Utilities, `utils/utils.c` | none | lines of a file, binary search, hexadecimal text and MAC addresses | calls and a callback for each line or comparison |
| Wireshark description, `wireshark/` | none | describes the packet layout | none |

A session: the client sends an "open" datagram; the simulator answers 0 (free)
or 1 (`flg_used`, or at random with `flg_randfail`). On 0 the client connects
over TCP and, in the connect callback, turns every line of the script into a
packet and writes it. The simulator reads the stream into its buffer, answers
the packets it finds, and goes on until the connection ends. The client counts
responses, and closes and exits when it has as many as it counted requests, or
when its timeout is over. With `-d` the client broadcasts one request and prints
the answers instead.

The hard parts:

- **The stream is cut anywhere.** A read may end inside a header; the buffer is
  smaller than a packet may be; what is left of one packet is moved to the front.
- **Three return values and four out-parameters** decide whether the loop goes
  on, what is removed from the buffer and what is sent.
- **Two flags of availability**, `flg_used` and libuv's listening handle, that
  change in different callbacks; "free" may be stale when the client uses it.
- **One buffer for all connections**, while connections end at any point, and a
  simulator that may be stopped or killed by a signal in the middle of one.
- **Counting as the end of a session**, with lines that count and get no answer,
  answers that cannot be read and timeouts.
- **Bytes and their edges**: wrapping checksums, counts of two bytes, ranges of
  memory, buffers whose old contents are sent.
- **Scripts cut off in the middle**, while the outputs they drive keep their
  state: a latch that stays open follows the next script.
- **Options that act in the order they are given** on lists that grow, fail to
  grow, are read again and are cleaned by functions with assertions.
- **A search on unsigned indexes**, on lists nobody has sorted.

What makes each component correct: the receive path handles the packets sent, in
order, each once, and always gives control back; the simulator serves one client
at a time and only with that client's commands; the client stops exactly when
its script has been executed; a packet that was built is accepted and a damaged
one is refused; an attenuator holds the value it was last set to and takes no
other on the way; a script goes to the device of its cluster; a search compares
elements only, ends, and answers right on a sorted list.

## 2. The modules

| Module | Models |
| --- | --- |
| `Framing` | how both ends find one packet in a buffer: need more, reject, accept, remove |
| `PacketPipe` | abstract: packets numbered 1, 2, 3 ... handled in order, each once |
| `RecvBuffer` | `on_tcp_svr_read` and `edio24svr_process_data` (`role = "sim"`), `on_tcp_cli_read` and `edio24cli_process_data` (`role = "cli"`), one action per branch |
| `ExclusiveDevice` | abstract: one session at a time, only the holder's commands, in order |
| `Session` | several clients, one simulator, UDP, TCP, libuv; one action per callback, and one per line of a script |
| `Packet` | the packets byte by byte: builders, checksum, readers, the two handlers |
| `Exchange` | requests made one after the other, by the library or for a line of a script, answered from the simulator's output buffer |
| `Discovery` | `edio24cli -d` and several devices |
| `Lookup`, `SortedList` | abstract: the answers a search may give |
| `Bsearch` | `pf_bsearch_r`, one action per turn of the loop |
| `CctScript` | the argument parser of `gencctcmd` and the lines it writes for a device |
| `Rack` | those scripts executed line by line on a device, its switches and its attenuators |
| `Gencctcmd` | the program: options, lists, files, queries |
| `Induction` | no part of the program: induction and recursion over data, in the form the provers can use |
| `*_proofs` | the theorems about `RecvBuffer`, `Session`, `Exchange`, `Bsearch`, `Rack`, `Gencctcmd`; `SessionStream_proofs` those about `Session` that depend on its bytes |
| `MC*` | the sets TLC uses |

`RecvBuffer` and `Session` extend `Framing`; `RecvBuffer` is shown to implement
`PacketPipe`, `Session` to implement `ExclusiveDevice`, `Bsearch` to implement
`SortedList`. `Exchange` extends `Packet`. `Rack` and `Gencctcmd` extend
`CctScript`; `Gencctcmd` uses the answers `Bsearch` is shown to give (`Lookup`)
in place of its turns. Definitions marked "Broken" are wrong on purpose: each is
a mistake some property must notice, and no specification uses them.

### Receive path

`buffer` is `buffer[0 .. sz_data - 1]`, `chunk` the part of the current read
that is not copied yet, `wire` what libuv has not read yet. A byte is a record
of its packet and its place in it, so the model can say what no byte of the
program can: that a header is made of bytes of one packet. `pc` is the place in
the callback: `process` at the `while(1)` of the process function, `copy` at the
copy loop, `poll` between two callbacks, `closed` when the handle is closed.
`outcap` is the length of the output buffer of the current call and starts anew
with it. `role`, chosen at the start, says which of the two programs it is. The
checksum and the `switch` are abstracted to the kind of a packet ("ok",
"illegal", "fatal"); `Packet` has them in full. The buffer is empty at first, as
it is for the first connection of a simulator and the only one of a client; what
later connections find in it is the subject of `Session`.

### Session

libuv runs one callback at a time, so one callback is one action: `ServerRead`
is all of `on_tcp_svr_read`, its two loops written as recursive functions:
`Drain` is the loop of `edio24svr_process_data`, `CopyLoop` the one around it.
`Sent` counts the lines of a script that become packets. The client's connect
callback is the exception: it writes line by line while the simulator, another
process, already reads, and is therefore `OnConnect` and then one `ProcessLine`
per line, with nothing of the same client in between. Bytes are those of
`Framing`; a packet carries the number of its command in its client's script, so
that executing a command of somebody else would be seen. A header put together
from two packets (possible here: the buffer outlives the connection) has a count
nobody chose, and both what it may ask for are tried. That such a mixture also
has a right checksum, one time in 256, is not modelled; a simulator that shares
its buffer between connections has no protection against it.

What libuv and the network do is modelled from the way the programs use them:

- a listening handle whose callback returns without `uv_accept` is not polled
  any more (`held`); `uv_close` runs its callback later (`closing`, `OnClose`);
- an answer to a datagram may never come (`AnswerOpen` does not happen), be
  repeated or be contradicted (it happens twice);
- bytes that reach a closed end reset the connection, and some of what is on its
  way is lost (`Reset`);
- neither program ignores SIGPIPE. A process that writes to a connection that
  has been reset is killed: `WriteKillsSimulator`, after which every connection
  is closed (`Gone`), and `WriteKills` for a client. The programs do this: a
  client that leaves with two or more commands unanswered takes the simulator
  down;
- without a simulator the connect is refused, but `on_tcp_cli_connect` does not
  look at the status and writes the commands all the same: the connection is in
  `broken` from the start, and the client dies of SIGPIPE; with an empty script
  it gets to `ReadHangup` with enough responses and closes its handle twice,
  which libuv answers with an assertion ("aborted");
- the simulator may be stopped (`Stop`: SIGINT or its timeout) and started again
  (`Start`), up to `MaxStarts` times; what it kept in memory is gone, what the
  clients hold is not.

### Packets

`Packet` has the numbers of the code: codes, offsets, ranges, the wrap of
`unsigned char`. The simulator's response is written as the code does it:
`edio24_pkt_create_respond` is passed `sizeof(buffer_out)`, the size of a
pointer, and so refuses to write any response with two bytes of data or more;
the header is then what the output buffer held before. `Fills` are two things
`malloc` may leave there. `Sums` are the values the checksum loop goes through.
Reads of the two data arguments are always inside the
packet for the requests this client makes.

`Parsed` is `process_command`: which words are known, and which numbers reach
the builder. The text of numbers is not modelled.

### Discovery

libuv hands over all datagrams the socket has and then calls the callback once
more with no address and `nread = 0` (`ReadNothing`). In `on_udp_cli_read` that
call falls through to `uv_udp_recv_stop`, after which the client is "deaf". The
64 bytes of an answer are not looked into.

### Search

`ileft`, `iright` and `i` are the variables of the C function, counted as there;
sums and differences wrap at `SizeT`. The callback compares with the element at
the index it is given; an index past the end gives any key, as reading there is
undefined. Lists need not be sorted.

### gencctcmd and the rack

An argument is a sequence of tokens, and `Scan` the states the loop of
`parse_values_atten` goes through, with its oddity of stepping over the
character behind a number; `Parse` is what it returns. `SetAtten` and `SetPower`
print a text and parse it again, as `do_setatten` and `do_setpower` do; `Listed`
is the loop that prints the list of boards. `Shifted` is the value shifted
right, pin by pin, and `Number2` reads the bits of an attenuator as a number
again. `Blocks` are the groups of lines an option writes for one device;
`AttenLines` and `PowerLines` the `DConfigW`, `DOutW` and `Sleep` lines of a
group, a word of the device being a set of pins. In `Rack` a script is executed
one line per step (`Execute`, `Complete`) and may be cut off behind any line
(`Interrupt`), as a session between client and device may; the next script finds
the pins as they are. `want` is what the scripts promise, kept beside the
registers: the value of the last block completed for an attenuator, unknown
after an interruption that concerns it.

`Gencctcmd` is `main`: an option is handled in one action, but reading a file
takes one per line, each of which may fail to get memory (`failed`), and the
query `-b` one per name looked up. `lst` are the lists with the room they have
(`max`), `lines` the lines of the file read last, kept for the properties. A row
is what it is looked up by, its first column; the other columns of its text are
left out. The boards have the even numbers, so that other names can be anywhere
between them. A column is copied into a buffer of its reader, 100 bytes for the
name of a board and 200 for the address of an I/O device, and a "long" row has
one that does not fit: the scripts then pass over the cluster (`HasAddress`),
while the comparison in the search of `-b` asserts that it fits. `GetBoard` has
this as a failure of its own beside the answers of the search: which rows a
search compares is left to `Bsearch`, so a list with a long row and one that is
not may go either way. `Kept` and `Only` walk along a list as the loops over the
bits of a mask do.

## 3. Runs

Runs that pass:

| Run | Question | Bounds | Distinct states |
| --- | --- | --- | --- |
| `recv` | packets of every kind and size, both programs: in order, once, none forgotten, nothing behind a rejected one, callback returns | 3 packets of 3, 6 and 7 bytes, buffer of 6, replies smaller and larger than the output buffer | 128 712 |
| `session_finish` | status 0 means executed, counts do not run ahead, nobody is killed, whoever is served finishes | 2 clients, scripts of up to two lines, empty ones and reads too, random refusals | 27 636 |
| `session_faults` | flags, exclusive service, release, with resets, SIGPIPE, timeouts, lost datagrams, oversize packets | 2 clients, 3 pairs of scripts, one restart | 123 532 |
| `exchange_single` | the real packet layout: framing, checksum, ranges, responses | any first request, then two of eight others over the reused buffer; one byte damaged to 0, 1 or 255 at any place | 1 627 514 |
| `bsearch` | compares elements, halves, ends, answers as promised | every list of up to 6 of 4 keys, `size_t` of 4 bits | 77 582 |
| `gencctcmd` | rows, devices of clusters, queries, assertions, end | every sequence of up to 4 of 17 options, 2 clusters of 2 boards, lists with room for 2 rows at first, rows too long among them | 96 433 |
| `rack` | settings hold, no value nobody asked for, latches, power | ports of 4 pins, 8 scripts in any order and number, cut off anywhere | 156 887 |

Why these bounds are enough to be interesting. The decisions of the receive path
depend on a packet being smaller than the room left, as large as the buffer or
larger, and on a header being complete or not. `MinLen = 3` makes a header of
two bytes that a read can cut; a buffer of six holds two small packets, or one
and part of the next, so every branch of both loops is taken. `Session` has a
buffer of five and packets of 3, 4 and 6 bytes. Three packets let one be in the
buffer, one in the read and one on the wire. Two clients are enough for one to
have the device while the other asks, connects, or comes after it; one restart
for a client of the first simulator to meet the second. `Sequels` keeps the
requests behind the first to those whose answers differ in length and in what
they leave in the output buffer. Six elements give the search lists of odd and
even length and three turns, and the widths keep `Plus(ileft, iright)` below
the wrap, as the theorem requires. Three rows make a list of two grow. Four
pins are the two boards of two attenuators that `do_setatten` sets; the state
of the rack is finite, so the run covers any number of scripts. The proofs
remove these bounds for the properties listed in section 4.

Deadlock is not checked: a finished session, a closed connection, an ended
program and a used-up bound are ends the system really has.

Runs that show where the code departs from what the repository says of it
(`findings` in `PROJECT.json` quotes the lines); each was also seen by running
the programs:

| Run | What it shows |
| --- | --- |
| `session_blocked` | a connection made while the device is busy stops the listener: "free" is announced and nobody is served again |
| `session_stale` | a closed connection's bytes are in front of the next one's |
| `session_sleep` | `Sleep` counts as a request, so such a script ends by timeout only |
| `exchange_reply` | the answer to `DIn` cannot be read by the client |
| `discovery` | the client reads one batch of answers and then listens no more |

Other departures are in the models, because the code is so, without a run of
their own:

- `RecvBuffer!ProcessRejects`: after a fatal return value the connection stays
  open ("user should kill this connection", `src/libedio24.c:1382`), and for a
  rejected packet the whole output buffer is sent, though nothing was written to
  it (`:1377`).
- `RecvBuffer!Stall`: a packet of more than 65 bytes, legal by
  `src/libedio24.c:72`, stalls the simulator; the client throws the rest of the
  read away and goes on reading.
- `Packet!InRange`: byte 15 of the configuration memory, addresses 0 to 0xf by
  `src/libedio24.c:445`, cannot be read.
- `Packet!Command`: the firmware request is a blink request
  (`src/libedio24.c:356` and `:382`).
- `Packet!RoomChecked`: a write of 92 bytes or more is longer than the buffer it
  is built in (`utils/edio24cli.c:390`).
- `Exchange!Parsed`: `Reset` asks for the status, `SettingsMemoryR 0x12 0x39`
  asks for 0x12 bytes at address 0, `BootloaderMemoryR` always for none.
- `Session!WriteKillsSimulator`, `WriteKills`, `ReadHangup`: the deaths listed
  above; `NobodyKilled` holds only where nobody leaves early.
- `Gencctcmd!CleanHolds`, `GetBoard`: an assertion fails when no row of a file
  could be stored and the list is cleaned (`utils/gencctcmd.c:437`), when `-b`
  meets an empty list (`:1217`), and when its search compares a name longer than
  100 bytes (`:900`).
- `CctScript!Parse`: what was read in front of an error is executed by callers
  that ignore the return value.

### Fairness

`RecvBuffer`: weak fairness of `Callback`, since `uv_run` runs a callback that
is ready. `Session`: weak fairness of `Simulator` and of each `Client`, which
are processes with an event loop each, and of each `Timeout`, since `idle_cb`
runs in every turn of the loop. `LosslessSpec` adds that an open request nobody
has answered is answered, which holds on the loopback interface; only
`session_finish` is checked with it. Nothing is assumed about `Reset`, `Stop`
and `Start`, and nothing about the peer of a receive path: it may stop writing
at any point. `Bsearch` and `Gencctcmd`: weak fairness of `Next`, a function
that is called, or a program that is started, runs. `Discovery`, `Exchange` and
`Rack` state safety only.

## 4. Proofs

| Module | Theorem | Shows |
| --- | --- | --- |
| `RecvBuffer_proofs` | `TypeCorrect` | `TypeOK` |
| | `InductiveInvariant` | `IInv` |
| | `HandledInOrder` | `InOrder` |
| | `AlwaysInSync` | `InSync` |
| | `NothingIsLeftBehind` | `NothingLeftBehind` |
| | `RejectedForGood` | `RejectBlocks` |
| | `StallOnlyWhenHopeless` | `StallIsHopeless` |
| | `PipeImplemented` | `ImplementsPipe` |
| `Session_proofs` | `InductiveInvariant` | `IInv` |
| | `BusyMatchesConnection` | `BusyWhileOpen` |
| | `OneSessionEach` | a session begins only when none is open, and for a client that has had none |
| `SessionStream_proofs` | `InductiveBytes` | `IInv`, `SInv` |
| | `TypeCorrect` | `TypeOK` |
| | `ImplementsExclusiveDevice` | `ServesExclusively` |
| | `InductiveSession` | `TInv`, if `Fitting` |
| | `ResponsesAnswerCommands` | `OneResponsePerCommand`, if `Fitting` |
| | `DoneIsExecuted` | `DoneMeansExecuted`, if `Fitting` |
| | `NoSignal` | `NobodyKilled`, if `Fitting` and `MaxStarts = 1` |
| `Exchange_proofs` | `OnlyRequestsSent` | `IInv` |
| | `TypeCorrect` | `TypeOK` |
| | `BuiltIsAccepted` | `AcceptsWhatIsBuilt` |
| | `DamageIsRefused` | `DamageRefused` |
| | `ShortRepliesAccepted` | `ShortRepliesMatch` |
| | `NeverWaitsForTheNext` | `NeverWaitsTooLong` |
| | `NoReadPastTheEnd` | `ReadsStayInside` |
| `Bsearch_proofs` | `TypeCorrect` | `TypeOK` |
| | `OnlyElementsCompared` | `ComparesElements` |
| | `LogarithmicSearch` | `Halves` |
| | `SortedListImplemented` | `ImplementsSortedList` |
| `Rack_proofs` | `TypeCorrect` | `TypeOK` |
| | `HeldAsSet` | `HoldsWhatWasSet` |
| | `ClosedWhenKnown` | `LatchesClosed` |
| | `NoForeignValue` | `ChangesAsAsked` |
| | `OneLineSwitches` | `PowerSwitchedAtOnce` |
| | `PowerSwitched` | `PowerAsAsked` |
| | `SettingsAddUp` | `CombinedValueSet`, if `W >= 4` |
| `Gencctcmd_proofs` | `TypeCorrect` | `TypeOK` |
| | `NoOtherAbort` | `AbortsWithReason` |
| | `InductiveQueries` | `IInv`, `QInv` |
| | `ListsAsInFiles` | `RowsAsInFile` |
| | `SectionsToTheirDevices` | `DeviceOfCluster` |
| | `BoardsPrinted` | `BoardsAsAsked` |

They rest on the assumptions named in the modules, on the hypotheses shown in
the table, and on nothing else.

**Induction.** The loops of the code that a step runs to their end (checksum,
parser, the two loops of the read callback, the loops over lists) are recursive
functions here, and what they compute for every input needs induction. The
induction theorems of the library take a predicate as a parameter, which none of
the provers can instantiate. `Induction` states the same for sets: a set of
naturals that holds 0 and every successor is all of them, which follows from the
library's theorem that the proper subsets of finite sets are well founded. From
it come induction on the size of an element (`SizeInduction`), induction over the
turns of a loop (`LoopInduction`), and that a recursion that descends, or a loop,
defines a function (`Recursion`, `LoopDefined`): in TLA+ a recursive definition
is a `CHOOSE` of a function and equals its body only where one exists. The lemmas
named `...Def` in the other modules use these for one function each. Functions of
the community modules that are defined with an operator parameter stay unknown
to the provers; where the model folded or selected with them it has recursive
functions of its own (`Packet!Sums`, `Gencctcmd!Kept` and `Only`).

**Receive path**, for every size of buffer, packets, reads and replies, both
programs and any number of packets, given that a packet has and a buffer holds
at least `MinLen` bytes. None of the properties is inductive: that the head of
the buffer is the head of a packet after `DropFrame` depends on what follows it
there, and what is copied behind it depends on the read and on the wire. `IInv`
therefore speaks about `buffer \o chunk \o wire` as one stream: it is made of
whole packets with consecutive numbers, starting with the first one not handled
and ending with the last one sent; once bytes have been thrown away this holds
of the buffer, which by then is full and stuck behind its head. `Read`,
`CopyChunk` and `Stall` move the borders in the stream, `Send` appends a packet,
`ProcessFrame` removes the first. The lemmas say what a prefix, a suffix and a
concatenation of such a stream are. `InOrder` follows from `ImplementsPipe` and
so is proved but not in a run.

**Session**, for any set of clients, any scripts and any number of restarts, in
three steps.

- `IInv`, of the flags: `BusyWhileOpen` alone is not inductive, since
  `AcceptConnection` must know that the client it takes is not connected. It adds
  that a client is in the backlog at most once, only behind its connect, and not
  once it has been served. That a client connects once is what the code of
  `on_udp_cli_read` makes sure of by stopping to receive.
- `SInv`, of the bytes: what `Drain` and `CopyLoop` take out of a stream of packets
  is a first part of its packets, in order, and what they leave is the rest. So
  what is not executed of a client's script is in the buffer and on its way
  (`Open`), unless something of an earlier client is at the head of the buffer,
  and then nothing of this client is ever executed. This gives the types and,
  step by step, the refinement of `ExclusiveDevice`, with no hypothesis at all.
- `TInv`, of the counters, if `Fitting`: no client has a timeout and every packet of
  the scripts fits the buffer. Both are needed: a client that leaves early, or a
  packet larger than the buffer, leaves a part of a packet behind, in front of
  the next client's commands (run `session_stale`). Under it the buffer
  is empty whenever a connection is closed, and requests counted, commands
  executed and responses counted follow one another. `session_finish` checks
  its properties under the same conditions. `NobodyKilled` needs besides that
  nobody stops the simulator: a simulator stopped in the middle of a session
  resets it, and the client that writes on dies.

**Exchange**, for any requests with 16-bit addresses and payloads the count of
two bytes has room for, any buffer and any bytes left in it. `IInv` says that what
the simulator holds is the packet of a request that was asked for, but for the
byte that was damaged, and that what it accepts it has verified. `DamageRefused`
rests on `ChangedSum`: the sums of two equally long sequences that differ in one
byte differ from that byte on, by the same amount modulo 256, because every byte
behind it adds the same to both. A damaged count is excluded by the property: it
changes what is summed up.

**Search**, for lists of any length below half of `size_t` (`HalfRange`: the sum
of two indexes must not wrap; the code does not check it, and a list in memory
is far shorter). `IInv` says where the pin can still be: everything left of
`ileft` is smaller and everything right of `iright` larger if the list is sorted,
and how the index compared last lies to the two, from which the insert position
is worked out after the loop.

**Rack**, for any width of the ports and any set of requests. An attenuator
holds its value because its latch is closed; its latch is closed because every
line that opens one belongs to a block that closes it or is cut off, in which
case `want` is unknown. `IInv` says for each of the eight lines of a block what
the output register holds at that point. `PowerAsAsked` and `CombinedValueSet` ask
besides what the scripts of `-p` and `-a` are. `do_setpower` prints a list that is
parsed again: by induction on it the parser is, behind every printed position and
its comma, in a list of exactly the positions printed so far (`ListedParsed`), so
that the script is one block for the boards asked for. The texts of `do_setatten`
are read as one half of the value and the switches printed behind it (`HalfRead`,
`BothRead`), so that the script is one block, or two for different switches
(`AttenScript`). `PowerScriptAt` and `AttenScriptAt` say which of the blocks are
done. What is then in the attenuators are the bits of the halves, and a number no
larger than a port holds is read back from its bits (`ReadBits`). `W >= 4` gives
`do_setatten` its four switches; the code has 8.

**gencctcmd**, for any files, options and failing allocations: no list has more
rows than room, and an allocated list without a row is one for which storing a
row has failed. An assertion then fails for the three reasons above and no
other. `QInv` adds that a list is the file's lines read so far, that
the sections written last are those of the clusters whose row has an address
that can be read, and, for
the query `-b`, that the rows printed and the names still to look up are
increasing, that all printed are smaller than all to come, and that, in a sorted
list, every name asked for that the list has is in one of the two (`Looked`). Of
the answers of a search it uses only what `Lookup` promises, which is what
`Bsearch` is proved to implement.

Every safety property and action property of the runs that pass is proved.
Model-checked only:

- liveness, which is beyond the prover: `EveryPacketHandled`, `CallbackReturns`,
  `ServedClientFinishes`, `DeviceReleased`, `SearchEnds`, `AlwaysEnds`;
- `Discovery`, whose one property does not hold, and the other properties that
  runs show violated.

## 5. How the work was ordered, and what could follow

The receive path came first, since everything else rests on it; then the
session, the packets, the discovery, the search, and the two halves of
`gencctcmd`. The proofs were
written component by component behind the runs; those that need induction over
data came last. Worth doing next: what `Discovery` does guarantee, as properties
of their own; `OneResponsePerCommand` without `Fitting`, for clients that leave
early; the other columns of a row, and which rows a search compares.

## 6. Not modelled

- Failures inside libuv (`uv_accept`, `uv_read_start`): a failed `uv_read_start`
  leaves `flg_used` at 1, but nothing in the repository makes it fail.
- The time a `Sleep` takes, SIGINT from outside to the client.
- Whether a first write to a reset connection fails (and closes the handle, a
  second time if another does) or kills: both end the process, and the model has
  the one outcome "aborted".
- `edio24_pkt_read_ret_*`: they keep no state and only tests call them.
- In `gencctcmd`: the columns of a row but the first (`cstr_strip` and the two
  scans for a column); a first column of exactly the size of its buffer, which
  is accepted and whose terminating zero is written behind the buffer
  (`utils/gencctcmd.c:626`): what that does is undefined; positions above 31,
  which shift an int too far; `do_get_ip_board`, which only tests call; `-h` and
  `-v`.
- Hexadecimal and MAC address text, dumps, log messages: pure functions on text.
- The Wireshark description and the build files: no behaviour.
- The 8-bit checksum accepting a mixture of two packets or several damaged bytes.
