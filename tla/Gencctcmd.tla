------------------------------ MODULE Gencctcmd ------------------------------
(***************************************************************************)
(* The program gencctcmd: its options are handled one after the other, in  *)
(* the order they are given.  -c sets the clusters meant, -i and -j read a *)
(* list of I/O devices or of boards, all others print something from what  *)
(* was set and read before.                                                *)
(*                                                                         *)
(* A row of a list is a record whose field n is what it is looked up by,   *)
(* its first column.  The order of the numbers is the order of the names:  *)
(* the boards of the clusters have the even ones, and all other names are  *)
(* between them.  A row is "long" if its first column is longer than the   *)
(* buffer of those who read it.                                            *)
(***************************************************************************)
EXTENDS CctScript, Lookup, Functions

CONSTANTS
    Clusters,    \* 16; cluster 0 is the root
    Boards,      \* 8; board 0 is the root
    FirstAlloc,  \* 20: the rows a list has room for at first
    Options,     \* the options the program is called with
    MaxOptions   \* how many of them

ASSUME SizesAssumption == /\ Clusters \in Nat /\ Boards \in Nat
                          /\ FirstAlloc \in Nat \ {0} /\ MaxOptions \in Nat

Lists == {"i", "j"}

Line == [t : {"row", "long", "comment", "blank"}, n : Int]

(* cb_process_brdlst_line stores it. *)
IsRow(line) == line.t \in {"row", "long"}

(* cstr_line_get_column copies its first column. *)
Readable(row) == row.t # "long"

OptionOK(o) ==
    \/ o.opt \in {"c", "n", "w", "d", "a", "p", "r", "b"}
    \/ o.opt \in Lists /\ o.lines \in Seq(Line)

ASSUME OptionsAssumption == \A o \in Options : OptionOK(o)

(* What a loop over s has kept of it after n turns: the members of S. *)
Kept(s, S) ==
    LET kept[n \in 0..Len(s)] ==
          IF n = 0 THEN <<>> ELSE IF s[n] \in S THEN Append(kept[n - 1], s[n]) ELSE kept[n - 1]
    IN  kept

Only(s, S) == Kept(s, S)[Len(s)]

VARIABLES
    lst,      \* g_lst_edio24 ("i") and g_lst_brd ("j")
    cluster,  \* the argument of the last -c
    reading,  \* the list that is being read
    rest,     \* the lines of the file not read yet
    lines,    \* those read of the file last given for each list
    failed,   \* no memory for a row of it
    given,    \* the number of options handled
    last,     \* the one handled last
    wanted,   \* the names of the boards it has still to look up
    out,      \* what it printed
    pc

vars == <<lst, cluster, reading, rest, lines, failed, given, last, wanted, out, pc>>

(* brdlst_init *)
EmptyList == [max |-> 0, rows |-> <<>>]

Init ==
    /\ lst = [t \in Lists |-> EmptyList]
    /\ cluster = <<>>
    /\ reading = "i"
    /\ rest = <<>>
    /\ lines = [t \in Lists |-> <<>>]
    /\ failed = [t \in Lists |-> FALSE]
    /\ given = 0
    /\ last = [opt |-> "none"]
    /\ wanted = <<>>
    /\ out = <<>>
    /\ pc = "options"

(* getopt_long returns the next option. *)
Take(o) ==
    /\ pc = "options"
    /\ given < MaxOptions
    /\ given' = given + 1
    /\ last' = o

(* An assertion fails: the program is at its end, its lists stay. *)
Abort == pc' = "aborted" /\ UNCHANGED <<lst, rest, lines, failed, wanted, out>>

-----------------------------------------------------------------------------
(* Reading a list. *)

(* Broken: a list that is full cannot be cleaned. *)
CleanHoldsStrict(l) == l.max > 0 => Len(l.rows) > 0 /\ l.max > Len(l.rows)

(* The assertions of brdlst_clean; the list is allocated if max is not 0. *)
CleanHolds(l) == l.max > 0 => Len(l.rows) > 0 /\ l.max >= Len(l.rows)

(* Broken: the memory is freed, the rows are not forgotten. *)
CleanedKeeps(l) == [l EXCEPT !.max = Len(l.rows)]

Cleaned(l) == EmptyList

(* -i and -j; a file that cannot be opened leaves the list as empty as a   *)
(* file without lines.                                                     *)
OpenFile(o) ==
    /\ Take(o)
    /\ o.opt \in Lists
    /\ IF CleanHolds(lst[o.opt])
         THEN /\ lst' = [lst EXCEPT ![o.opt] = Cleaned(@)]
              /\ rest' = o.lines
              /\ lines' = [lines EXCEPT ![o.opt] = <<>>]
              /\ failed' = [failed EXCEPT ![o.opt] = FALSE]
              /\ out' = <<>>
              /\ pc' = "reading"
              /\ UNCHANGED wanted
         ELSE Abort
    /\ reading' = o.opt
    /\ UNCHANGED cluster

(* Broken: the room is doubled, from nothing too. *)
GrownDoubles(l) == IF Len(l.rows) >= l.max THEN [l EXCEPT !.max = 2 * @] ELSE l

(* The doubling of brdlst_append, if there is no room for one more row. *)
Grown(l) ==
    IF Len(l.rows) >= l.max
      THEN [l EXCEPT !.max = IF FirstAlloc <= @ THEN 2 * @ ELSE FirstAlloc] ELSE l

(* A line of the file; fread_lines does not look at what became of it.     *)
ReadLine ==
    /\ pc = "reading"
    /\ rest # <<>>
    /\ rest' = Tail(rest)
    /\ lines' = [lines EXCEPT ![reading] = Append(@, Head(rest))]
    /\ LET l == lst[reading]
           row == IsRow(Head(rest))
       IN  \/ ~row /\ UNCHANGED <<lst, failed>>
           \/ /\ row
              /\ lst' = [lst EXCEPT ![reading] = [Grown(l) EXCEPT !.rows = Append(@, Head(rest))]]
              /\ UNCHANGED failed
           \/ /\ row   \* strdup or realloc returns NULL
              /\ \E left \in {l, Grown(l)} : lst' = [lst EXCEPT ![reading] = left]
              /\ failed' = [failed EXCEPT ![reading] = TRUE]
    /\ UNCHANGED <<cluster, reading, given, last, wanted, out, pc>>

CloseFile ==
    /\ pc = "reading"
    /\ rest = <<>>
    /\ pc' = "options"
    /\ UNCHANGED <<lst, cluster, reading, rest, lines, failed, given, last, wanted, out>>

-----------------------------------------------------------------------------
(* The other options. *)

SetCluster(o) ==
    /\ Take(o)
    /\ o.opt = "c"
    /\ cluster' = o.arg
    /\ out' = <<>>
    /\ UNCHANGED <<lst, reading, rest, lines, failed, wanted, pc>>

(* output_power_read: the one line DOutR. *)
ReadPower == <<[kind |-> "read"]>>

(* -n, -w and -d: for whatever device the script will be sent to. *)
Direct(o) ==
    /\ Take(o)
    /\ o.opt \in {"n", "w", "d"}
    /\ out' = IF o.opt = "d" THEN <<[cluster |-> 0, script |-> ReadPower]>>
              ELSE <<[cluster |-> 0, script |-> Blocks(o)]>>
    /\ UNCHANGED <<lst, cluster, reading, rest, lines, failed, wanted, pc>>

(* Broken: the list is taken to start with the root. *)
RowOfRooted(i) == i + 1

(* The row of cluster i, counted from one. *)
RowOf(i) == i

Masked(arg, n) == Parse(arg, 0).mask \cap 0..n

(* One section of the script: to whom, and what. *)
Section(o, i) ==
    [cluster |-> i, row |-> lst["i"].rows[RowOf(i)],
     script |-> IF o.opt = "r" THEN ReadPower ELSE Blocks(o)]

(* Row k is there and an address can be read from it. *)
HasAddress(rows, k) == k \in 1..Len(rows) /\ Readable(rows[k])

Chosen == Only([i \in 1..Clusters |-> i],
               {i \in Masked(cluster, Clusters) : HasAddress(lst["i"].rows, RowOf(i))})

(* do_setatten, do_setpower, do_getpower: clusters without one are passed over. *)
ForClusters(o) ==
    /\ Take(o)
    /\ o.opt \in {"a", "p", "r"}
    /\ LET chosen == Chosen IN out' = [k \in 1..Len(chosen) |-> Section(o, chosen[k])]
    /\ UNCHANGED <<lst, cluster, reading, rest, lines, failed, wanted, pc>>

Name(i, j) == 2 * (i * (Boards + 1) + j)

Names == [k \in 1..((Clusters + 1) * (Boards + 1)) |-> 2 * (k - 1)]

Asked(c, b) == {Name(i, j) : i \in Masked(c, Clusters), j \in Masked(b, Boards)}

Forbidden(arg) == Parse(arg, Unset).val # Unset

(* do_get_all_board: the names to look up. *)
GetBoards(o) ==
    /\ Take(o)
    /\ o.opt = "b"
    /\ out' = <<>>
    /\ IF Forbidden(o.arg) \/ Forbidden(cluster)
         THEN UNCHANGED <<wanted, pc>>
         ELSE /\ wanted' = Only(Names, Asked(cluster, o.arg))
              /\ pc' = "boards"
    /\ UNCHANGED <<lst, cluster, reading, rest, lines, failed>>

(* Broken: the return value of the search is not looked at. *)
PrintedUnchecked(rows, a) == IF a.at < Len(rows) THEN <<rows[a.at + 1]>> ELSE <<>>

Printed(rows, a) == IF a.found THEN <<rows[a.at + 1]>> ELSE <<>>

(* Broken: the loop goes on with the same board if it is not found. *)
RemainingIfFound(a) == IF a.found THEN Tail(wanted) ELSE wanted

Remaining(a) == Tail(wanted)

(* The names of the rows are compared with that of the board; which of     *)
(* them are is left to the search.                                         *)
ComparesAll(rows) == \A k \in 1..Len(rows) : Readable(rows[k])

ComparesSome(rows) == \E k \in 1..Len(rows) : Readable(rows[k])

(* One board; the answer is any that Bsearch may give.  An assertion fails *)
(* if the list is empty, or if a name that is compared is too long.        *)
GetBoard ==
    /\ pc = "boards"
    /\ wanted # <<>>
    /\ LET rows == lst["j"].rows
           names == [k \in 1..Len(rows) |-> rows[k].n]
       IN  \/ (rows = <<>> \/ ~ComparesAll(rows)) /\ Abort
           \/ /\ ComparesSome(rows)
              /\ \E a \in Answers(names, Head(wanted)) :
                   /\ a.found => Readable(rows[a.at + 1])
                   /\ out' = out \o Printed(rows, a)
                   /\ wanted' = Remaining(a)
              /\ UNCHANGED <<lst, rest, lines, failed, pc>>
    /\ UNCHANGED <<cluster, reading, given, last>>

GetBoardsDone ==
    /\ pc = "boards"
    /\ wanted = <<>>
    /\ pc' = "options"
    /\ UNCHANGED <<lst, cluster, reading, rest, lines, failed, given, last, wanted, out>>

(* The end of main. *)
Finish ==
    /\ pc = "options"
    /\ IF \A t \in Lists : CleanHolds(lst[t])
         THEN /\ lst' = [t \in Lists |-> EmptyList]
              /\ pc' = "done"
              /\ UNCHANGED <<rest, lines, failed, wanted, out>>
         ELSE Abort
    /\ UNCHANGED <<cluster, reading, given, last>>

Next ==
    \/ \E o \in Options :
         OpenFile(o) \/ SetCluster(o) \/ Direct(o) \/ ForClusters(o) \/ GetBoards(o)
    \/ ReadLine \/ CloseFile \/ GetBoard \/ GetBoardsDone \/ Finish

Spec == Init /\ [][Next]_vars

(* The program runs. *)
FairSpec == Spec /\ WF_vars(Next)

-----------------------------------------------------------------------------
RowsRead(t) == Only(lines[t], {l \in Line : IsRow(l)})

(* Every variable stays in its domain, and no list outgrows its memory. *)
TypeOK ==
    /\ \A t \in Lists : /\ lst[t].max \in Nat
                        /\ \A k \in 1..Len(lst[t].rows) : IsRow(lst[t].rows[k])
                        /\ Len(lst[t].rows) <= lst[t].max
    /\ reading \in Lists
    /\ failed \in [Lists -> BOOLEAN]
    /\ given \in 0..MaxOptions
    /\ pc \in {"options", "reading", "boards", "done", "aborted"}

(* As long as there was memory for it, a list holds the rows of the file   *)
(* last given for it, no others, in their order, each once; also if it was *)
(* read before, from this or from another file.                            *)
RowsAsInFile == pc # "done" => \A t \in Lists : ~failed[t] => lst[t].rows = RowsRead(t)

(* The commands for cluster i are for the device in the i-th row of the    *)
(* file, whatever comments are between the rows; a cluster that is asked   *)
(* for and has a row with an address has exactly one section, and no other *)
(* has one: a row whose address is too long moves no other cluster's row.  *)
DeviceOfCluster ==
    pc = "options" /\ last.opt \in {"a", "p", "r"} /\ ~failed["i"] =>
        /\ \A k \in 1..Len(out) : out[k].row = RowsRead("i")[out[k].cluster]
        /\ \A k, l \in 1..Len(out) : k < l => out[k].cluster < out[l].cluster
        /\ {out[k].cluster : k \in 1..Len(out)} =
             {i \in Parse(cluster, 0).mask \cap 1..Clusters : HasAddress(RowsRead("i"), i)}

(* -b prints no row that was not asked for.  If the file is sorted by name *)
(* it prints all that were: one row for each name, in order.               *)
BoardsAsAsked ==
    pc = "options" /\ last.opt = "b" /\ ~Forbidden(cluster) /\ ~Forbidden(last.arg) =>
        LET asked == Asked(cluster, last.arg)
            printed == [k \in 1..Len(out) |-> out[k].n]
            rows == RowsRead("j")
            names == [k \in 1..Len(rows) |-> rows[k].n]
        IN  /\ \A k, l \in 1..Len(out) : k < l => printed[k] < printed[l]
            /\ Range(printed) \subseteq asked
            /\ ~failed["j"] /\ Sorted(names) => Range(printed) = asked \cap Range(names)

(* An assertion fails for three reasons only: no row of a file could be    *)
(* stored and the list is to be cleaned; boards are asked for and the list *)
(* has no row; or it has one with a name too long to be compared.          *)
AbortsWithReason ==
    pc = "aborted" =>
        \/ \E t \in Lists : lst[t].rows = <<>> /\ failed[t]
        \/ /\ last.opt = "b"
           /\ lst["j"].rows = <<>> \/ ~ComparesAll(lst["j"].rows)

(* Whatever the options and the files, the program ends. *)
AlwaysEnds == <>(pc \in {"done", "aborted"})
=============================================================================
