-------------------------------- MODULE Host --------------------------------
(***************************************************************************)
(* The processes of one user on one host: daemons (cryptd serve) that share *)
(* one socket path and one save directory, the games they run, and clients *)
(* that start a daemon when they find none.  It composes the life of the   *)
(* daemons with the saves of their games (module Saves): a daemon may end  *)
(* at any point of a save, by a crash or by an orderly shutdown, which     *)
(* waits for the connection handlers but not for the game goroutines.      *)
(*                                                                         *)
(* Every daemon here is one process: it runs once.                         *)
(***************************************************************************)
EXTENDS Saves

CONSTANTS
  Daemons,
  NoDaemon,
  Clients,
  OwnerOf     \* the daemon that runs each game

ASSUME HostAssumption ==
  /\ NoDaemon \notin Daemons
  /\ OwnerOf \in [Games -> Daemons]

VARIABLES
  proc,    \* Daemons -> where the process is
  sock,    \* the daemon whose socket lies at the path, running or not
  client,  \* Clients -> where dialOrStart is, and the daemon it has started
  rival    \* history: Daemons -> another daemon ran at the same time

hostVars == <<proc, sock, client, rival>>
allVars == <<savesVars, hostVars>>

Up(d) == proc[d] \in {"started", "cleared", "bound", "listening", "draining"}
\* Accepting: the kernel queues connections as soon as the socket is bound.
Answers(d) == d # NoDaemon /\ proc[d] \in {"bound", "listening"}

HostInit ==
  /\ Init
  /\ proc = [d \in Daemons |-> "off"] /\ sock = NoDaemon
  /\ client = [c \in Clients |-> [pc |-> "dial", child |-> NoDaemon]]
  /\ rival = [d \in Daemons |-> FALSE]

Moved(d, to) == proc' = [proc EXCEPT ![d] = to]

-----------------------------------------------------------------------------
(* The daemon: runServe, listenUnix, Serve.                                *)

Started(d) ==
  /\ proc[d] = "off"
  /\ Moved(d, "started")
  /\ LET others == {e \in Daemons : Up(e)}
     IN rival' = [e \in Daemons |-> rival[e] \/ e \in others \/ (e = d /\ others # {})]

\* cryptd serve, by hand.
Start(d) == Started(d) /\ UNCHANGED <<sock, client>>

\* Mutant: a socket left by a dead daemon stays where it is.
ClearNothing(d) ==
  /\ proc[d] = "started"
  /\ Moved(d, "cleared")
  /\ UNCHANGED <<sock, client, rival>>
\* Remove the "stale" socket, whoever it belongs to.
Clear(d) ==
  /\ proc[d] = "started"
  /\ sock' = NoDaemon /\ Moved(d, "cleared")
  /\ UNCHANGED <<client, rival>>

\* Listen fails if a socket has appeared; the process exits.
Listen(d) ==
  /\ proc[d] = "cleared"
  /\ IF sock = NoDaemon THEN sock' = d /\ Moved(d, "bound")
     ELSE Moved(d, "failed") /\ UNCHANGED sock
  /\ UNCHANGED <<client, rival>>

\* Chmod fails if the path has been removed meanwhile.
Chmod(d) ==
  /\ proc[d] = "bound"
  /\ Moved(d, IF sock = NoDaemon THEN "failed" ELSE "listening")
  /\ UNCHANGED <<sock, client, rival>>

\* SIGTERM: closing the listener unlinks the path, whoever holds it now.
Signal(d) ==
  /\ proc[d] = "listening"
  /\ sock' = NoDaemon /\ Moved(d, "draining")
  /\ UNCHANGED <<client, rival>>

\* The handlers are gone: remove the path again and exit.
Exit(d) ==
  /\ proc[d] = "draining"
  /\ sock' = NoDaemon /\ Moved(d, "exited")
  /\ UNCHANGED <<client, rival>>

\* The process dies; its socket stays.
Crash(d) ==
  /\ Up(d) /\ Moved(d, "exited")
  /\ UNCHANGED <<sock, client, rival>>

-----------------------------------------------------------------------------
(* The client: dialOrStart.                                                *)

Dial(c) ==
  /\ client[c].pc = "dial"
  /\ IF Answers(sock)
     THEN client' = [client EXCEPT ![c].pc = "connected"] /\ UNCHANGED <<proc, rival>>
     ELSE \E d \in Daemons :
            Started(d) /\ client' = [client EXCEPT ![c] = [pc |-> "poll", child |-> d]]
  /\ UNCHANGED sock

\* Poll the path: connected to whoever answers, or the child is seen to have
\* exited.
Poll(c) ==
  /\ client[c].pc = "poll"
  /\ \/ Answers(sock) /\ client' = [client EXCEPT ![c].pc = "connected"]
     \/ ~Up(client[c].child) /\ client' = [client EXCEPT ![c].pc = "failed"]
  /\ UNCHANGED <<proc, sock, rival>>

\* Five seconds have passed: kill the child.
GiveUp(c) ==
  /\ client[c].pc = "poll"
  /\ client' = [client EXCEPT ![c].pc = "failed"]
  /\ Moved(client[c].child, IF Up(client[c].child) THEN "exited" ELSE proc[client[c].child])
  /\ UNCHANGED <<sock, rival>>

-----------------------------------------------------------------------------
(* Games act while their process serves or drains, and die with it.        *)

HostStep ==
  \/ \E d \in Daemons : Start(d) \/ Clear(d) \/ Listen(d) \/ Chmod(d) \/ Signal(d)
                        \/ Exit(d) \/ Crash(d)
  \/ \E c \in Clients : Dial(c) \/ Poll(c) \/ GiveUp(c)

GameStep(g) ==
  \/ proc[OwnerOf[g]] \in {"listening", "draining"} /\ Step(g)
  \/ ~Up(OwnerOf[g]) /\ Cut(g)

HostNext ==
  \/ HostStep /\ UNCHANGED savesVars
  \/ (\E g \in Games : GameStep(g)) /\ UNCHANGED hostVars

HostSpec == HostInit /\ [][HostNext]_allVars

-----------------------------------------------------------------------------
(* Properties                                                              *)

\* A daemon that ran alone all its life gets its socket, also when a crash
\* has left another one at the path, and is reachable for as long as it
\* listens.  Only a daemon that ran at the same time can make it fail or
\* take the path from it (listenUnix removes any socket it finds, the
\* listener unlinks the path when it closes).
ServesAlone ==
  \A d \in Daemons : ~rival[d] =>
    /\ proc[d] # "failed"
    /\ Answers(d) => sock = d
=============================================================================
