--------------------------- MODULE ServersWrapper ---------------------------
(***************************************************************************)
(* Registration of servers and the loop that accepts their connections     *)
(* (src/ServersCore/servers_wrapper.cpp and include/servers_wrapper.h).    *)
(* Threads add servers while the loop may be running; the loop holds       *)
(* servers_lock_ from before its poll until all accepted connections are   *)
(* in the arrays of their servers, and gives it up between two polls only. *)
(* What happens to a connection in the array is ClientsLoop's subject.     *)
(***************************************************************************)
EXTENDS Naturals, SequencesExt

CONSTANTS
  Servers,  \* server objects, each with a socket of its own
  Adders,   \* threads that call addOneServer
  Conns,    \* connections clients make
  MaxCalls, \* bound: calls of addOneServer a thread makes
  None      \* no server, no thread

ASSUME WrapperAssumption ==
  /\ None \notin Servers \union Adders
  /\ "loop" \notin Adders /\ None # "loop"
  /\ MaxCalls \in Nat

VARIABLES
  servers,   \* servers_: the polled sockets, in order
  listening, \* servers whose listen() has succeeded
  mapped,    \* servers with an entry in clients_map_
  started,   \* servers whose clients loop has been started
  lock,      \* servers_lock_: who holds it
  apc,       \* apc[a]: where in addOneServer thread a is
  adding,    \* adding[a]: the server it adds
  calls,     \* calls[a]: calls it has made (a counter for the bound)
  lpc,       \* where the servers loop is
  ready,     \* positions poll has reported POLLIN for
  pos,       \* position the loop has come to
  client,    \* the connection it has accepted and not yet passed on
  stop,      \* stop_requested()
  joining,   \* a thread is in stopListenLoop
  conn,      \* conn[c]: "new", "backlog", "accepted", "passed" or "gone"
  target,    \* target[c]: the server the client has connected to
  array      \* array[c]: the server whose array the connection is in

addState == <<servers, listening, mapped, started, apc, adding, calls>>
loopState == <<lpc, ready, pos, client>>
control == <<stop, joining>>
connState == <<conn, target, array>>
vars == <<addState, lock, loopState, control, connState>>

Init ==
  /\ servers = <<>> /\ listening = {} /\ mapped = {} /\ started = {}
  /\ lock = None
  /\ apc = [a \in Adders |-> "idle"] /\ adding = [a \in Adders |-> None]
  /\ calls = [a \in Adders |-> 0]
  /\ lpc = "off" /\ ready = {} /\ pos = 0 /\ client = None
  /\ stop = FALSE /\ joining = FALSE
  /\ conn = [c \in Conns |-> "new"]
  /\ target = [c \in Conns |-> None]
  /\ array = [c \in Conns |-> None]

Backlog(s) == {c \in Conns : conn[c] = "backlog" /\ target[c] = s}

-----------------------------------------------------------------------------
(* Clients. *)

Connect(c, s) ==
  /\ conn[c] = "new" /\ s \in listening
  /\ conn' = [conn EXCEPT ![c] = "backlog"]
  /\ target' = [target EXCEPT ![c] = s]
  /\ UNCHANGED <<addState, lock, loopState, control, array>>

(* The client gives up before its connection is accepted. *)
Abort(c) ==
  /\ conn[c] = "backlog"
  /\ conn' = [conn EXCEPT ![c] = "gone"]
  /\ UNCHANGED <<addState, lock, loopState, control, target, array>>

-----------------------------------------------------------------------------
(* addOneServer. *)

Call(a, s) ==
  /\ apc[a] = "idle" /\ calls[a] < MaxCalls
  /\ calls' = [calls EXCEPT ![a] = @ + 1]
  /\ adding' = [adding EXCEPT ![a] = s]
  /\ apc' = [apc EXCEPT ![a] = "lock"]
  /\ UNCHANGED <<servers, listening, mapped, started, lock, loopState, control, connState>>

(* lock_guard *)
LockFreeMutant == lock # "loop"
LockFree == lock = None

Lock(a) ==
  /\ apc[a] = "lock" /\ LockFree
  /\ lock' = a
  /\ apc' = [apc EXCEPT ![a] = "find"]
  /\ UNCHANGED <<servers, listening, mapped, started, adding, calls, loopState, control, connState>>

(* The server is added already, and the function returns; or it is put      *)
(* behind the others.                                                       *)
Find(a) ==
  /\ apc[a] = "find"
  /\ IF adding[a] \in ToSet(servers)
     THEN apc' = [apc EXCEPT ![a] = "idle"] /\ lock' = None
     ELSE apc' = [apc EXCEPT ![a] = "append"] /\ UNCHANGED lock
  /\ UNCHANGED <<servers, listening, mapped, started, adding, calls, loopState, control, connState>>

EmplaceBack(a) ==
  /\ apc[a] = "append"
  /\ servers' = Append(servers, adding[a])
  /\ apc' = [apc EXCEPT ![a] = "listen"]
  /\ UNCHANGED <<listening, mapped, started, adding, calls, lock, loopState, control, connState>>

HeldThroughoutMutant(a) == None
HeldThroughout(a) == lock

Listen(a) ==
  /\ apc[a] = "listen"
  /\ listening' = listening \union {adding[a]}
  /\ lock' = HeldThroughout(a)
  /\ apc' = [apc EXCEPT ![a] = "map"]
  /\ UNCHANGED <<servers, mapped, started, adding, calls, loopState, control, connState>>

(* The exception leaves the socket among the polled ones. *)
ListenFails(a) ==
  /\ apc[a] = "listen"
  /\ lock' = None
  /\ apc' = [apc EXCEPT ![a] = "idle"]
  /\ UNCHANGED <<servers, listening, mapped, started, adding, calls, loopState, control, connState>>

(* try_emplace, and startListeningLoop before the lock is given up. *)
TryEmplace(a) ==
  /\ apc[a] = "map"
  /\ mapped' = mapped \union {adding[a]}
  /\ apc' = [apc EXCEPT ![a] = "start"]
  /\ UNCHANGED <<servers, listening, started, adding, calls, lock, loopState, control, connState>>

StartListeningLoop(a) ==
  /\ apc[a] = "start"
  /\ started' = started \union {adding[a]}
  /\ lock' = None
  /\ apc' = [apc EXCEPT ![a] = "idle"]
  /\ UNCHANGED <<servers, listening, mapped, adding, calls, loopState, control, connState>>

AddStep(a) ==
  Find(a) \/ EmplaceBack(a) \/ Listen(a) \/ ListenFails(a) \/ TryEmplace(a) \/ StartListeningLoop(a)

-----------------------------------------------------------------------------
(* startListenLoop and stopListenLoop, called by one thread. *)

StartListenLoop ==
  /\ lpc = "off" /\ ~joining
  /\ lpc' = "top" /\ stop' = FALSE
  /\ UNCHANGED <<addState, lock, ready, pos, client, joining, connState>>

StopListenLoop ==
  /\ lpc # "off" /\ ~joining
  /\ stop' = TRUE /\ joining' = TRUE
  /\ UNCHANGED <<addState, lock, loopState, connState>>

Join ==
  /\ joining /\ lpc = "ended"
  /\ lpc' = "off" /\ joining' = FALSE
  /\ UNCHANGED <<addState, lock, ready, pos, client, stop, connState>>

-----------------------------------------------------------------------------
(* serversListeningLoop. *)

StopRequestedMutant == stop /\ servers = <<>>
StopRequested == stop

LoopTop ==
  /\ lpc = "top"
  /\ lpc' = IF StopRequested THEN "ended" ELSE "lock"
  /\ UNCHANGED <<addState, lock, ready, pos, client, control, connState>>

LoopLock ==
  /\ lpc = "lock" /\ lock = None
  /\ lock' = "loop"
  /\ lpc' = "poll"
  /\ UNCHANGED <<addState, ready, pos, client, control, connState>>

Pollable == {i \in DOMAIN servers : servers[i] \in listening /\ Backlog(servers[i]) # {}}

(* poll returns, after 100 ms with nothing: the lock is released either way *)
(* before the next round.  A socket that does not listen makes it return at *)
(* once, without POLLIN.                                                    *)
Poll ==
  /\ lpc = "poll"
  /\ ready' = Pollable
  /\ pos' = 1
  /\ IF Pollable = {}
     THEN lpc' = "top" /\ lock' = None
     ELSE lpc' = "accept" /\ UNCHANGED lock
  /\ UNCHANGED <<addState, client, control, connState>>

NextPositionMutant == pos + 2
NextPosition == pos + 1

(* An element without POLLIN, or whose client has gone meanwhile. *)
Skip ==
  /\ lpc = "accept" /\ pos <= Len(servers)
  /\ pos \notin ready \/ Backlog(servers[pos]) = {}
  /\ pos' = NextPosition
  /\ UNCHANGED <<addState, lock, lpc, ready, client, control, connState>>

(* accept fails although a client waits, as it does when the process has no *)
(* descriptor left: nothing is said, and the client stays where it is.      *)
AcceptFails ==
  /\ lpc = "accept" /\ pos <= Len(servers)
  /\ pos \in ready /\ Backlog(servers[pos]) # {}
  /\ pos' = NextPosition
  /\ UNCHANGED <<addState, lock, lpc, ready, client, control, connState>>

Accept(c) ==
  /\ lpc = "accept" /\ pos <= Len(servers)
  /\ pos \in ready /\ c \in Backlog(servers[pos])
  /\ client' = c
  /\ conn' = [conn EXCEPT ![c] = "accepted"]
  /\ lpc' = "resolve"
  /\ UNCHANGED <<addState, lock, ready, pos, control, target, array>>

(* The entry of clients_map_ with the socket; it is an error not to have it.*)
ResolvedMutant == CHOOSE s \in mapped : TRUE
Resolved == servers[pos]

Resolve ==
  /\ lpc = "resolve"
  /\ IF servers[pos] \in mapped
     THEN /\ array' = [array EXCEPT ![client] = Resolved]
          /\ conn' = [conn EXCEPT ![client] = "passed"]
          /\ pos' = NextPosition /\ lpc' = "accept" /\ client' = None
     ELSE /\ lpc' = "failed"
          /\ UNCHANGED <<array, conn, pos, client>>
  /\ UNCHANGED <<addState, lock, ready, control, target>>

RoundEnds ==
  /\ lpc = "accept" /\ pos > Len(servers)
  /\ lpc' = "top" /\ lock' = None
  /\ UNCHANGED <<addState, ready, pos, client, control, connState>>

LoopStep ==
  \/ LoopTop \/ LoopLock \/ Poll \/ Skip \/ AcceptFails
  \/ \E c \in Conns : Accept(c)
  \/ Resolve \/ RoundEnds

-----------------------------------------------------------------------------
Next ==
  \/ \E c \in Conns : Abort(c) \/ \E s \in Servers : Connect(c, s)
  \/ \E a \in Adders : Lock(a) \/ AddStep(a) \/ \E s \in Servers : Call(a, s)
  \/ StartListenLoop \/ StopListenLoop \/ Join
  \/ LoopStep

Spec == Init /\ [][Next]_vars

(* All threads are scheduled.  The mutex favours nobody: a thread that      *)
(* waits for it gets it if it stays free, which it does not while the loop  *)
(* runs.                                                                    *)
FairSpec ==
  /\ Spec
  /\ WF_vars(LoopStep) /\ WF_vars(Join)
  /\ \A a \in Adders : WF_vars(AddStep(a)) /\ WF_vars(Lock(a))

-----------------------------------------------------------------------------
(* Every variable has its type. *)
TypeOK ==
  /\ servers \in Seq(Servers)
  /\ {listening, mapped, started} \subseteq SUBSET Servers
  /\ lock \in Adders \union {None, "loop"}
  /\ apc \in [Adders -> {"idle", "lock", "find", "append", "listen", "map", "start"}]
  /\ adding \in [Adders -> Servers \union {None}]
  /\ calls \in [Adders -> 0 .. MaxCalls]
  /\ lpc \in {"off", "top", "lock", "poll", "accept", "resolve", "failed", "ended"}
  /\ ready \subseteq DOMAIN servers /\ pos \in 0 .. Len(servers) + 1
  /\ client \in Conns \union {None}
  /\ {stop, joining} \subseteq BOOLEAN
  /\ conn \in [Conns -> {"new", "backlog", "accepted", "passed", "gone"}]
  /\ target \in [Conns -> Servers \union {None}] /\ array \in [Conns -> Servers \union {None}]

(* However many threads add servers at once, each is polled once, and has a *)
(* clients loop only together with the entry that loop works on.            *)
AddedOnce ==
  /\ IsInjective(servers)
  /\ started \subseteq mapped /\ mapped \subseteq listening \intersect ToSet(servers)

(* "Couldn't resolve server object from server fd" is never thrown: by the  *)
(* time the loop accepts from a socket its server has an entry and a thread *)
(* to process what is put there.                                            *)
AlwaysResolved ==
  /\ lpc # "failed"
  /\ lpc \in {"accept", "resolve"} => \A i \in ready : servers[i] \in started

(* Between accept and the array no connection is lost or mixed up.          *)
PassedToOwn ==
  \A c \in Conns :
    /\ conn[c] = "accepted" => client = c
    /\ conn[c] = "passed" => array[c] = target[c]

(* As long as the loop is not stopped a client that waits is accepted,      *)
(* however busy the other servers are and whoever adds servers meanwhile;   *)
(* unless accept fails on its server's socket again and again for ever.     *)
WaitingAccepted ==
  \A c \in Conns :
    \/ (conn[c] = "backlog" /\ lpc # "off") ~> (conn[c] \in {"passed", "gone"} \/ stop)
    \/ []<><<AcceptFails /\ servers[pos] = target[c]>>_vars

(* stopListenLoop returns: the join does not wait on a lock of its caller.  *)
StopReturns == joining ~> ~joining
=============================================================================
