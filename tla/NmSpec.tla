------------------------------- MODULE NmSpec -------------------------------
(***************************************************************************)
(* What ft_nm promises its user: it lists the files named on the command   *)
(* line from left to right, each under the last flag in front of it, a.out *)
(* when it names none; or it stops early, and says nothing of the rest.    *)
(* How files are read, and what fails, is left to FtNm.                    *)
(***************************************************************************)
EXTENDS Integers, Sequences

CONSTANTS
  Args,    \* the strings a command line is made of
  Meaning  \* the option each flag asks for

Flags == DOMAIN Meaning
PathArgs(av) == {n \in DOMAIN av : av[n] \notin Flags}

\* The files to list: a position on the command line, 0 for a.out, which
\* comes under the last flag of all.
Wanted(av) == IF PathArgs(av) = {} THEN {0} ELSE PathArgs(av)
FlagsFor(av, n) == {m \in DOMAIN av : av[m] \in Flags /\ (n > 0 => m < n)}
LastMeaning(av, fl) ==
  IF fl = {} THEN "SORT_ORDER" ELSE Meaning[av[CHOOSE m \in fl : \A k \in fl : k <= m]]
OptionFor(av, n) == LastMeaning(av, FlagsFor(av, n))

VARIABLES
  argv,    \* the command line, without the name of the program
  listed,  \* the files listed so far, each with its option
  status   \* running, ok or failed

vars == <<argv, listed, status>>

Pending == {n \in Wanted(argv) : \A p \in DOMAIN listed : listed[p].arg < n}

Init == argv \in Seq(Args) /\ listed = <<>> /\ status = "running"

List ==
  /\ status = "running"
  /\ \E n \in Pending :
       /\ \A m \in Pending : n <= m
       /\ listed' = Append(listed, [arg |-> n, option |-> OptionFor(argv, n)])
  /\ UNCHANGED <<argv, status>>

Succeed ==
  /\ status = "running" /\ Pending = {}
  /\ status' = "ok" /\ UNCHANGED <<argv, listed>>

Fail ==
  /\ status = "running"
  /\ status' = "failed" /\ UNCHANGED <<argv, listed>>

Next == List \/ Succeed \/ Fail

Spec == Init /\ [][Next]_vars
=============================================================================
