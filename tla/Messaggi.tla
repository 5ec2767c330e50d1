------------------------------ MODULE Messaggi ------------------------------
(***************************************************************************)
(* The messages of the two channels of the program: the unnamed pipe the   *)
(* clients and the signal handler write to the manager, and the AF_UNIX    *)
(* socket between the supermarket and the director.  A message is its code *)
(* and its integer parameter; a code without parameter carries 0, which    *)
(* nobody reads.  pipe_write and socket_write hold their mutex over the    *)
(* whole message, so a channel is a sequence of whole messages.            *)
(***************************************************************************)
EXTENDS Naturals, Sequences, FiniteSets

Msg(t, p) == [tipo |-> t, param |-> p]

\* The signal numbers sigwait returns, which travel as the parameter.
SIGHUP  == 1
SIGQUIT == 3

\* How many messages of code t are queued in channel s.
Quanti(s, t) == Cardinality({i \in 1..Len(s) : s[i].tipo = t})

\* How many messages of code t about client c are queued in channel s.
QuantiDi(s, t, c) == Cardinality({i \in 1..Len(s) : s[i] = Msg(t, c)})
=============================================================================
