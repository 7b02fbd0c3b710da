------------------------------- MODULE MCRack --------------------------------
(***************************************************************************)
(* Rack for TLC: ports of four pins, which is as many attenuators as       *)
(* do_setatten sets, and values of four bits.  The arguments are those of  *)
(* the help text and of the tests: a value that is odd, one that is even,  *)
(* one that does not fit, and arguments that do not parse.                 *)
(***************************************************************************)
EXTENDS Rack

Arg(pins, val) == <<P>> \o pins \o <<Semi, V, N(val)>>

Calls ==
    {[opt |-> "a", arg |-> Arg(<<N(0), Comma, N(1)>>, 5)],
     [opt |-> "a", arg |-> Arg(<<N(1)>>, 12)],
     [opt |-> "a", arg |-> <<P, N(0), Comma, Other, V, N(7)>>],
     [opt |-> "n", arg |-> Arg(<<N(1), Comma, N(2)>>, 22)],
     [opt |-> "n", arg |-> <<P, N(0), Semi, V>>],
     [opt |-> "w", arg |-> <<P, N(0), Comma, N(2)>>],
     [opt |-> "w", arg |-> <<P, N(0), Semi, V, N(1)>>],
     [opt |-> "p", arg |-> <<P, All>>]}
=============================================================================
