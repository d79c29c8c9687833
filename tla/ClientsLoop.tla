---------------------------- MODULE ClientsLoop ----------------------------
(***************************************************************************)
(* How a connection gets from the servers loop to a worker of its server   *)
(* (src/ServersCore): the servers loop accepts it and appends it to the    *)
(* server's array of clients; the server's clients loop polls the array,   *)
(* starts a worker for each client that can be read, and cleans the array. *)
(* The two loops run in two threads and hold two different mutexes, so     *)
(* that nothing orders their accesses to the array: emplace_back writes    *)
(* the element and then the size, erase moves elements and then the size.  *)
(*                                                                         *)
(* The array is modelled as its memory, whose elements outlive their       *)
(* removal, and the number of them that are alive.                         *)
(***************************************************************************)
EXTENDS Integers, FiniteSets

CONSTANTS
  Fds,       \* socket descriptors: positive numbers
  Cap        \* capacity the array was given (MAX_CLIENTS), never exceeded here

ASSUME LoopAssumption ==
  /\ Fds \subseteq Nat \ {0}
  /\ Cap \in Nat \ {0}

VARIABLES
  \* sockets
  open,    \* open[f]: f is an open connection
  input,   \* input[f]: "none", "data" to read, or "eof" when the client hung up
  work,    \* work[f]: workers that process f (at most MaxWork are counted)
  \* the array of clients
  mem,     \* mem[i]: fd of element i
  rev,     \* rev[i]: revents of element i
  finish,  \* number of elements
  \* the servers loop
  spc,     \* where it is: "accept", "construct" or "commit"
  sfd,     \* the connection it has accepted
  sfin,    \* the number of elements emplace_back has read
  \* the clients loop
  cpc,     \* where it is: "poll", "polling", "scan", "clean" or "pop"
  n,       \* number of elements it polls
  efin,    \* the number of elements erase has read
  \* history variables
  raced,   \* an append and an erase have overlapped
  unclosed \* connections dropped after POLLHUP alone, which nothing closes

arrayVars == <<mem, rev, finish>>
serverVars == <<spc, sfd, sfin>>
loopVars == <<cpc, n, efin>>
vars == <<open, input, work, mem, rev, finish, spc, sfd, sfin, cpc, n, efin, raced, unclosed>>

Invalid == -1    \* INVALID_SOCKET
MaxWork == 2     \* bound: workers of one descriptor that are counted
Slots == 0 .. Cap - 1

Live(k) == {i \in Slots : i < k}

Init ==
  /\ open = [f \in Fds |-> FALSE]
  /\ input = [f \in Fds |-> "none"]
  /\ work = [f \in Fds |-> 0]
  /\ mem = [i \in Slots |-> Invalid]
  /\ rev = [i \in Slots |-> "none"]
  /\ finish = 0
  /\ spc = "accept" /\ sfd = Invalid /\ sfin = 0
  /\ cpc = "poll" /\ n = 0 /\ efin = 0
  /\ raced = FALSE /\ unclosed = {}

-----------------------------------------------------------------------------
(* The clients on the other side. *)

Send(f) ==
  /\ open[f] /\ input[f] = "none"
  /\ input' = [input EXCEPT ![f] = "data"]
  /\ UNCHANGED <<open, work, arrayVars, serverVars, loopVars, raced, unclosed>>

HangUp(f) ==
  /\ open[f] /\ input[f] # "eof"
  /\ input' = [input EXCEPT ![f] = "eof"]
  /\ UNCHANGED <<open, work, arrayVars, serverVars, loopVars, raced, unclosed>>

-----------------------------------------------------------------------------
(* The servers loop: serversListeningLoop. *)

(* finish < Cap bounds the model, it is no condition of the code: at the     *)
(* capacity emplace_back moves the array while poll may still write to it.  *)
Accept(f) ==
  /\ spc = "accept"
  /\ finish < Cap
  /\ ~open[f]
  /\ open' = [open EXCEPT ![f] = TRUE]
  /\ input' = [input EXCEPT ![f] = "none"]
  /\ sfd' = f
  /\ spc' = "construct"
  /\ UNCHANGED <<work, arrayVars, sfin, loopVars, raced, unclosed>>

(* The new element is built from a pollfd whose revents are zero. *)
NewReventsMutant(i) == rev[i]
NewRevents(i) == "none"

(* emplace_back, first half: the element. *)
Construct ==
  /\ spc = "construct"
  /\ sfin' = finish
  /\ mem' = [mem EXCEPT ![finish] = sfd]
  /\ rev' = [rev EXCEPT ![finish] = NewRevents(finish)]
  /\ spc' = "commit"
  /\ UNCHANGED <<open, input, work, finish, sfd, loopVars, raced, unclosed>>

AppendedMutant(k) == k + 2
Appended(k) == k + 1

(* Second half: the size, counted up from what it is now or from what it    *)
(* was when it was read.                                                    *)
Commit ==
  /\ spc = "commit"
  /\ finish' \in {Appended(finish), Appended(sfin)}
  /\ sfd' = Invalid
  /\ spc' = "accept"
  /\ raced' = (raced \/ cpc = "pop")
  /\ UNCHANGED <<open, input, work, mem, rev, sfin, loopVars, unclosed>>

-----------------------------------------------------------------------------
(* The clients loop: clientsListeningLoop. *)

PolledMutant == finish - 1
Polled == finish

PollCall ==
  /\ cpc = "poll"
  /\ n' = Polled
  /\ cpc' = "polling"
  /\ UNCHANGED <<open, input, work, arrayVars, serverVars, efin, raced, unclosed>>

(* What poll may report of descriptor f; negative ones are ignored.  POSIX  *)
(* allows POLLHUP with and without POLLIN; "in" stands for both together.   *)
Events(f) ==
  IF f = Invalid THEN {"none"}
  ELSE IF ~open[f] THEN {"nval"}
  ELSE IF input[f] = "none" THEN {"none"}
  ELSE IF input[f] = "eof" THEN {"in", "hup"}
  ELSE {"in"}

(* poll returns, because of an event or after its timeout, and has written  *)
(* the revents of the elements it was given, not of later ones.             *)
PollReturn ==
  /\ cpc = "polling"
  /\ rev' \in [Slots -> {"none", "in", "hup", "nval"}]
  /\ \A i \in Slots : IF i < n THEN rev'[i] \in Events(mem[i]) ELSE rev'[i] = rev[i]
  /\ cpc' = IF \E i \in Live(n) : rev'[i] # "none" THEN "scan" ELSE "poll"
  /\ UNCHANGED <<open, input, work, mem, finish, serverVars, n, efin, raced, unclosed>>

Readable == {i \in Live(finish) : rev[i] = "in" /\ mem[i] # Invalid}
HungUp == {i \in Live(finish) : rev[i] = "hup"}

(* Elements whose descriptor the scan drops: a worker has it now, or the    *)
(* client has hung up.                                                      *)
DroppedMutant == HungUp
Dropped == {i \in Live(finish) : rev[i] \in {"in", "hup"}}

(* One worker per readable element; the element forgets its descriptor. *)
Scan ==
  /\ cpc = "scan"
  /\ work' = [f \in Fds |->
       LET more == Cardinality({i \in Readable : mem[i] = f})
       IN IF work[f] + more > MaxWork THEN MaxWork ELSE work[f] + more]
  /\ mem' = [i \in Slots |-> IF i \in Dropped THEN Invalid ELSE mem[i]]
  /\ cpc' = IF Readable \union HungUp # {} THEN "clean" ELSE "poll"
  /\ unclosed' = unclosed \union {mem[i] : i \in HungUp}
  /\ UNCHANGED <<open, input, rev, finish, serverVars, n, efin, raced>>

(* The first invalid element before k, or k itself: std::find. *)
FindInvalid(k) ==
  IF \E i \in Live(k) : mem[i] = Invalid
  THEN CHOOSE i \in Live(k) : mem[i] = Invalid /\ \A j \in Live(i) : mem[j] # Invalid
  ELSE k

(* erase(iter), first half: the elements behind iter move down by one, and  *)
(* the last is left invalid.  Nothing moves when iter is end(), which       *)
(* erase must not be given.  Revents do not move.                           *)
CleanShift ==
  /\ cpc = "clean"
  /\ finish > 0
  /\ efin' = finish
  /\ mem' = LET at == FindInvalid(finish) IN
       [i \in Slots |->
          IF at = finish \/ i < at \/ i >= finish THEN mem[i]
          ELSE IF i = finish - 1 THEN Invalid ELSE mem[i + 1]]
  /\ cpc' = "pop"
  /\ UNCHANGED <<open, input, work, rev, finish, serverVars, n, raced, unclosed>>

(* Second half: the size goes down by one and the element that is now past  *)
(* the end is destroyed, which closes its descriptor if it has one.         *)
CleanPop ==
  /\ cpc = "pop"
  /\ finish' \in {k \in {finish - 1, efin - 1} : k >= 0}
  /\ open' = [f \in Fds |-> open[f] /\ mem[finish'] # f]
  /\ cpc' = "clean"
  /\ raced' = (raced \/ spc = "commit")
  /\ UNCHANGED <<input, work, mem, rev, serverVars, n, efin, unclosed>>

CleanDone ==
  /\ cpc = "clean"
  /\ finish = 0
  /\ cpc' = "poll"
  /\ UNCHANGED <<open, input, work, arrayVars, serverVars, n, efin, raced, unclosed>>

-----------------------------------------------------------------------------
(* A worker ends; its socket_ptr closes the connection. *)
WorkerDone(f) ==
  /\ work[f] > 0
  /\ work' = [work EXCEPT ![f] = @ - 1]
  /\ open' = [open EXCEPT ![f] = FALSE]
  /\ UNCHANGED <<input, arrayVars, serverVars, loopVars, raced, unclosed>>

-----------------------------------------------------------------------------
ServersStep == Construct \/ Commit
ClientsStep == PollCall \/ PollReturn \/ Scan \/ CleanShift \/ CleanPop \/ CleanDone

Next ==
  \/ \E f \in Fds : Send(f) \/ HangUp(f) \/ Accept(f) \/ WorkerDone(f)
  \/ ServersStep
  \/ ClientsStep

Spec == Init /\ [][Next]_vars

(* Both loops are scheduled.  Clients need not send, workers need not end.  *)
FairSpec == Spec /\ WF_vars(ServersStep) /\ WF_vars(ClientsStep)

-----------------------------------------------------------------------------
(* Every variable has its type. *)
TypeOK ==
  /\ open \in [Fds -> BOOLEAN]
  /\ input \in [Fds -> {"none", "data", "eof"}]
  /\ work \in [Fds -> 0 .. MaxWork]
  /\ mem \in [Slots -> Fds \union {Invalid}]
  /\ rev \in [Slots -> {"none", "in", "hup", "nval"}]
  /\ finish \in 0 .. Cap
  /\ spc \in {"accept", "construct", "commit"}
  /\ sfd \in Fds \union {Invalid} /\ sfin \in 0 .. Cap
  /\ cpc \in {"poll", "polling", "scan", "clean", "pop"}
  /\ n \in 0 .. Cap /\ efin \in 0 .. Cap
  /\ raced \in BOOLEAN /\ unclosed \subseteq Fds \union {Invalid}

Tracked(f) == {i \in Live(finish) : mem[i] = f}

(* Number of places that will close f: elements, workers, the servers loop. *)
Owners(f) == Cardinality(Tracked(f)) + work[f] + (IF sfd = f THEN 1 ELSE 0)

(* A connection is never handed to two workers, never polled while a worker *)
(* has it, and what is closed has no owner left who would close it again;   *)
(* and none is forgotten, but for those whose hang-up poll reports without  *)
(* POLLIN: as long as one is open someone will close it.                    *)
OneOwner ==
  ~raced => \A f \in Fds :
    /\ Owners(f) <= (IF open[f] THEN 1 ELSE 0)
    /\ open[f] => Owners(f) = 1 \/ f \in unclosed

(* A worker is started only for a client that has something to be read: its *)
(* first recv does not wait.                                                *)
FreshEvents ==
  ~raced /\ cpc = "scan" =>
    \A i \in Live(finish) : rev[i] = "in" => mem[i] # Invalid /\ input[mem[i]] # "none"

(* A client that has sent something when the clients loop comes to poll     *)
(* gets a worker.                                                           *)
ReadyClientServed ==
  \A f \in Fds :
    (cpc = "poll" /\ Tracked(f) # {} /\ input[f] = "data" /\ ~raced)
      ~> (work[f] > 0 \/ input[f] = "eof" \/ raced)

-----------------------------------------------------------------------------
(* What comments of the code say and the code does not do. *)

(* "Cleaning hang or processing clients" (server.cpp:126): cleaning closes  *)
(* no connection whose client neither hung up nor is being processed.       *)
CleansOnlyHangOrProcessing ==
  [][CleanPop /\ ~raced' =>
       \A f \in Fds : open[f] /\ ~open'[f] => work[f] > 0 \/ input[f] = "eof"]_vars
=============================================================================
