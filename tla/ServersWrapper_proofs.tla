----------------------- MODULE ServersWrapper_proofs -----------------------
(***************************************************************************)
(* Proofs about ServersWrapper, for every set of servers, of threads that  *)
(* add them and of connections.  What they rest on is the mutex: it is     *)
(* held from the search of the server to the start of its clients loop,    *)
(* and from poll to the last connection passed on.                         *)
(***************************************************************************)
EXTENDS ServersWrapper, TLAPS

Adding == {"find", "append", "listen", "map", "start"}
Polling == {"poll", "accept", "resolve"}

(* Who is in a critical section has the lock. *)
LockHeld ==
  /\ \A a \in Adders : apc[a] \in Adding => lock = a
  /\ lpc \in Polling => lock = "loop"

(* What a thread has done and not yet done for the server it adds. *)
Progress ==
  \A a \in Adders :
    /\ apc[a] # "idle" => adding[a] \in Servers
    /\ apc[a] = "append" => \A i \in DOMAIN servers : servers[i] # adding[a]
    /\ apc[a] \in {"listen", "map", "start"} => \E i \in DOMAIN servers : servers[i] = adding[a]
    /\ apc[a] \in {"map", "start"} => adding[a] \in listening
    /\ apc[a] = "start" => adding[a] \in mapped

(* A server that listens has all it needs, but for the one being added. *)
ListeningServed ==
  \A s \in listening :
    s \in started \/ \E a \in Adders : apc[a] \in {"map", "start"} /\ adding[a] = s

(* The connection the loop is about to pass on. *)
InHand ==
  /\ lpc = "resolve" =>
       /\ client \in Conns /\ conn[client] = "accepted"
       /\ pos \in ready /\ target[client] = servers[pos]
  /\ \A c \in Conns : conn[c] = "accepted" => lpc = "resolve" /\ client = c

IInv == /\ TypeOK /\ LockHeld /\ Progress /\ AddedOnce
        /\ ListeningServed /\ AlwaysResolved /\ InHand /\ PassedToOwn

-----------------------------------------------------------------------------
(* What the next position of the loop and the appended server are. *)
LEMMA Appended ==
  ASSUME TypeOK, NEW a \in Adders, adding[a] \in Servers, EmplaceBack(a)
  PROVE  /\ servers' \in Seq(Servers) /\ Len(servers') = Len(servers) + 1
         /\ DOMAIN servers' = DOMAIN servers \union {Len(servers) + 1}
         /\ \A i \in DOMAIN servers : servers'[i] = servers[i]
         /\ servers'[Len(servers) + 1] = adding[a]
  BY DEF TypeOK, EmplaceBack

LEMMA LengthNat == TypeOK => Len(servers) \in Nat /\ DOMAIN servers = 1 .. Len(servers)
  BY DEF TypeOK

LEMMA PositionHeld ==
  IInv /\ lpc = "resolve" =>
    pos \in DOMAIN servers /\ servers[pos] \in Servers /\ servers[pos] \in mapped
  BY DEF IInv, InHand, TypeOK, AlwaysResolved, AddedOnce

LEMMA TypeNext == IInv /\ [Next]_vars => TypeOK'
<1> SUFFICES ASSUME IInv, [Next]_vars PROVE TypeOK'
  OBVIOUS
<1> USE WrapperAssumption DEF IInv, TypeOK
<1>1. ASSUME NEW c \in Conns, NEW s \in Servers, Connect(c, s) PROVE TypeOK'
  BY <1>1 DEF Connect, addState, loopState, control, connState
<1>2. ASSUME NEW c \in Conns,
                Abort(c)
      PROVE  TypeOK'
  BY <1>2 DEF Abort, addState, loopState, control, connState
<1>3. ASSUME NEW a \in Adders, NEW s \in Servers, Call(a, s) PROVE TypeOK'
  BY <1>3 DEF Call, addState, loopState, control, connState
<1>4. ASSUME NEW a \in Adders, EmplaceBack(a) PROVE TypeOK'
  <2>1. adding[a] \in Servers
    BY <1>4 DEF EmplaceBack, Progress
  <2> QED
    BY <1>4, <2>1, Appended DEF EmplaceBack, addState, loopState, control, connState
<1>5. ASSUME NEW a \in Adders, Listen(a) PROVE TypeOK'
  <2>1. adding[a] \in Servers
    BY <1>5 DEF Listen, Progress
  <2> QED
    BY <1>5, <2>1
      DEF Listen, HeldThroughout, addState, loopState, control, connState
<1>6. ASSUME NEW a \in Adders, TryEmplace(a) PROVE TypeOK'
  <2>1. adding[a] \in Servers
    BY <1>6 DEF TryEmplace, Progress
  <2> QED
    BY <1>6, <2>1 DEF TryEmplace, addState, loopState, control, connState
<1>7. ASSUME NEW a \in Adders, StartListeningLoop(a) PROVE TypeOK'
  <2>1. adding[a] \in Servers
    BY <1>7 DEF StartListeningLoop, Progress
  <2> QED
    BY <1>7, <2>1 DEF StartListeningLoop, addState, loopState, control, connState
<1>8. ASSUME NEW a \in Adders,
                Lock(a) \/ Find(a) \/ ListenFails(a)
      PROVE  TypeOK'
  BY <1>8 DEF Lock, LockFree, Find, ListenFails, addState, loopState,
    control, connState
<1>9. CASE Poll
  <2>1. Pollable \subseteq DOMAIN servers
    BY DEF Pollable
  <2> QED
    BY <1>9, <2>1 DEF Poll, addState, loopState, control, connState
<1>10. CASE Skip \/ AcceptFails
  <2>1. pos + 1 \in 0 .. Len(servers) + 1
    BY <1>10, LengthNat DEF Skip, AcceptFails
  <2> QED
    BY <1>10, <2>1 DEF Skip, AcceptFails, NextPosition, addState, loopState, control, connState
<1>11. CASE Resolve
  <2>1. pos + 1 \in 0 .. Len(servers) + 1 /\ lpc = "resolve"
    BY <1>11, PositionHeld, LengthNat DEF Resolve
  <2> QED
    BY <1>11, <2>1, PositionHeld
      DEF Resolve, Resolved, NextPosition, addState, loopState, control,
          connState
<1>12. CASE StartListenLoop \/ StopListenLoop \/ Join \/ LoopTop \/
                LoopLock \/ RoundEnds
  BY <1>12 DEF StartListenLoop, StopListenLoop, Join, LoopTop, StopRequested,
    LoopLock, RoundEnds, addState, loopState, control, connState
<1>13. ASSUME NEW c \in Conns,
                Accept(c)
      PROVE  TypeOK'
  BY <1>13 DEF Accept, addState, loopState, control, connState
<1>14. CASE UNCHANGED vars
  BY <1>14 DEF vars, addState, loopState, control, connState
<1> QED
  BY <1>1, <1>2, <1>3, <1>4, <1>5, <1>6, <1>7, <1>8, <1>9, <1>10, <1>11, <1>12, <1>13, <1>14
    DEF Next, AddStep, LoopStep

LEMMA LockNext == IInv /\ [Next]_vars => LockHeld'
<1> SUFFICES ASSUME IInv, [Next]_vars PROVE LockHeld'
  OBVIOUS
<1> USE WrapperAssumption DEF IInv, TypeOK, LockHeld, Adding, Polling
<1>1. ASSUME NEW c \in Conns, NEW s \in Servers, Connect(c, s) PROVE LockHeld'
  BY <1>1 DEF Connect, addState, loopState, control, connState
<1>2. ASSUME NEW c \in Conns,
                Abort(c)
      PROVE  LockHeld'
  BY <1>2 DEF Abort, addState, loopState, control, connState
<1>3. ASSUME NEW a \in Adders, NEW s \in Servers, Call(a, s) PROVE LockHeld'
  BY <1>3 DEF Call, addState, loopState, control, connState
<1>4. ASSUME NEW a \in Adders, Lock(a) PROVE LockHeld'
  BY <1>4 DEF Lock, LockFree, addState, loopState, control, connState
<1>5. ASSUME NEW a \in Adders,
                Find(a) \/ EmplaceBack(a) \/ Listen(a) \/ ListenFails(a) \/
                TryEmplace(a) \/ StartListeningLoop(a)
      PROVE  LockHeld'
  BY <1>5 DEF Find, EmplaceBack, Listen, HeldThroughout, ListenFails,
    TryEmplace, StartListeningLoop, addState, loopState, control, connState
<1>6. CASE StartListenLoop \/ StopListenLoop \/ Join \/ LoopTop \/
                LoopLock \/ Poll \/ Skip \/ AcceptFails \/ Resolve \/ RoundEnds
  BY <1>6 DEF StartListenLoop, StopListenLoop, Join, LoopTop, StopRequested,
    LoopLock, Poll, Pollable, Skip, AcceptFails, NextPosition, Resolve, NextPosition,
    Resolved, RoundEnds, addState, loopState, control, connState
<1>7. ASSUME NEW c \in Conns,
                Accept(c)
      PROVE  LockHeld'
  BY <1>7 DEF Accept, addState, loopState, control, connState
<1>8. CASE UNCHANGED vars
  BY <1>8 DEF vars, addState, loopState, control, connState
<1> QED
  BY <1>1, <1>2, <1>3, <1>4, <1>5, <1>6, <1>7, <1>8 DEF Next, AddStep, LoopStep

LEMMA ProgressNext == IInv /\ [Next]_vars => Progress'
<1> SUFFICES ASSUME IInv, [Next]_vars PROVE Progress'
  OBVIOUS
<1> USE WrapperAssumption
    DEF IInv, TypeOK, LockHeld, Adding, Polling, Progress, ToSet
<1>1. ASSUME NEW c \in Conns, NEW s \in Servers, Connect(c, s) PROVE Progress'
  BY <1>1 DEF Connect, addState, loopState, control, connState
<1>2. ASSUME NEW c \in Conns,
                Abort(c)
      PROVE  Progress'
  BY <1>2 DEF Abort, addState, loopState, control, connState
<1>3. ASSUME NEW a \in Adders, NEW s \in Servers, Call(a, s) PROVE Progress'
  BY <1>3 DEF Call, addState, loopState, control, connState
<1>4. ASSUME NEW a \in Adders, EmplaceBack(a) PROVE Progress'
  <2>1. adding[a] \in Servers
    BY <1>4 DEF EmplaceBack, Progress
  <2> QED
    BY <1>4, <2>1, Appended DEF EmplaceBack, addState, loopState, control, connState
<1>5. ASSUME NEW a \in Adders,
                Lock(a) \/ Find(a) \/ Listen(a) \/ ListenFails(a) \/
                TryEmplace(a) \/ StartListeningLoop(a)
      PROVE  Progress'
  BY <1>5 DEF Lock, LockFree, Find, Listen, HeldThroughout, ListenFails,
    TryEmplace, StartListeningLoop, addState, loopState, control, connState
<1>6. CASE StartListenLoop \/ StopListenLoop \/ Join \/ LoopTop \/
                LoopLock \/ Poll \/ Skip \/ AcceptFails \/ Resolve \/ RoundEnds
  BY <1>6 DEF StartListenLoop, StopListenLoop, Join, LoopTop, StopRequested,
    LoopLock, Poll, Pollable, Skip, AcceptFails, NextPosition, Resolve, NextPosition,
    Resolved, RoundEnds, addState, loopState, control, connState
<1>7. ASSUME NEW c \in Conns,
                Accept(c)
      PROVE  Progress'
  BY <1>7 DEF Accept, addState, loopState, control, connState
<1>8. CASE UNCHANGED vars
  BY <1>8 DEF vars, addState, loopState, control, connState
<1> QED
  BY <1>1, <1>2, <1>3, <1>4, <1>5, <1>6, <1>7, <1>8 DEF Next, AddStep, LoopStep

LEMMA AddedNext == IInv /\ [Next]_vars => AddedOnce'
<1> SUFFICES ASSUME IInv, [Next]_vars PROVE AddedOnce'
  OBVIOUS
<1> USE WrapperAssumption
    DEF IInv, TypeOK, LockHeld, Adding, Polling, Progress, AddedOnce, ToSet,
      IsInjective
<1>1. ASSUME NEW c \in Conns, NEW s \in Servers, Connect(c, s) PROVE AddedOnce'
  BY <1>1 DEF Connect, addState, loopState, control, connState
<1>2. ASSUME NEW c \in Conns,
                Abort(c)
      PROVE  AddedOnce'
  BY <1>2 DEF Abort, addState, loopState, control, connState
<1>3. ASSUME NEW a \in Adders, NEW s \in Servers, Call(a, s) PROVE AddedOnce'
  BY <1>3 DEF Call, addState, loopState, control, connState
<1>4. ASSUME NEW a \in Adders, EmplaceBack(a) PROVE AddedOnce'
  <2>1. adding[a] \in Servers /\ \A i \in DOMAIN servers : servers[i] # adding[a]
    BY <1>4 DEF EmplaceBack
  <2>2. ASSUME NEW i \in DOMAIN servers', NEW j \in DOMAIN servers', servers'[i] = servers'[j]
        PROVE  i = j
    BY <1>4, <2>1, <2>2, Appended
  <2>3. mapped' \subseteq ToSet(servers')
    <3> SUFFICES ASSUME NEW s \in mapped PROVE \E i \in DOMAIN servers' : servers'[i] = s
      BY <1>4 DEF EmplaceBack
    <3>1. PICK i \in DOMAIN servers : servers[i] = s
      OBVIOUS
    <3> QED
      BY <1>4, <2>1, <3>1, Appended
  <2> QED
    BY <1>4, <2>2, <2>3 DEF EmplaceBack, addState, loopState, control, connState
<1>5. ASSUME NEW a \in Adders,
                Lock(a) \/ Find(a) \/ Listen(a) \/ ListenFails(a) \/
                TryEmplace(a) \/ StartListeningLoop(a)
      PROVE  AddedOnce'
  BY <1>5 DEF Lock, LockFree, Find, Listen, HeldThroughout, ListenFails,
    TryEmplace, StartListeningLoop, addState, loopState, control, connState
<1>6. CASE StartListenLoop \/ StopListenLoop \/ Join \/ LoopTop \/
                LoopLock \/ Poll \/ Skip \/ AcceptFails \/ Resolve \/ RoundEnds
  BY <1>6 DEF StartListenLoop, StopListenLoop, Join, LoopTop, StopRequested,
    LoopLock, Poll, Pollable, Skip, AcceptFails, NextPosition, Resolve, NextPosition,
    Resolved, RoundEnds, addState, loopState, control, connState
<1>7. ASSUME NEW c \in Conns,
                Accept(c)
      PROVE  AddedOnce'
  BY <1>7 DEF Accept, addState, loopState, control, connState
<1>8. CASE UNCHANGED vars
  BY <1>8 DEF vars, addState, loopState, control, connState
<1> QED
  BY <1>1, <1>2, <1>3, <1>4, <1>5, <1>6, <1>7, <1>8 DEF Next, AddStep, LoopStep

LEMMA ServedNext == IInv /\ [Next]_vars => ListeningServed'
<1> SUFFICES ASSUME IInv, [Next]_vars PROVE ListeningServed'
  OBVIOUS
<1> USE WrapperAssumption
    DEF IInv, TypeOK, LockHeld, Adding, Polling, Progress, ListeningServed
<1>1. ASSUME NEW c \in Conns, NEW s \in Servers, Connect(c, s) PROVE ListeningServed'
  BY <1>1 DEF Connect, addState, loopState, control, connState
<1>2. ASSUME NEW c \in Conns,
                Abort(c)
      PROVE  ListeningServed'
  BY <1>2 DEF Abort, addState, loopState, control, connState
<1>3. ASSUME NEW a \in Adders, NEW s \in Servers, Call(a, s) PROVE ListeningServed'
  BY <1>3 DEF Call, addState, loopState, control, connState
<1>4. ASSUME NEW a \in Adders,
                Lock(a) \/ Find(a) \/ EmplaceBack(a) \/ Listen(a) \/
                ListenFails(a) \/ TryEmplace(a) \/ StartListeningLoop(a)
      PROVE  ListeningServed'
  BY <1>4 DEF Lock, LockFree, Find, EmplaceBack, Listen, HeldThroughout,
    ListenFails, TryEmplace, StartListeningLoop, addState, loopState,
    control, connState
<1>5. CASE StartListenLoop \/ StopListenLoop \/ Join \/ LoopTop \/
                LoopLock \/ Poll \/ Skip \/ AcceptFails \/ Resolve \/ RoundEnds
  BY <1>5 DEF StartListenLoop, StopListenLoop, Join, LoopTop, StopRequested,
    LoopLock, Poll, Pollable, Skip, AcceptFails, NextPosition, Resolve, NextPosition,
    Resolved, RoundEnds, addState, loopState, control, connState
<1>6. ASSUME NEW c \in Conns,
                Accept(c)
      PROVE  ListeningServed'
  BY <1>6 DEF Accept, addState, loopState, control, connState
<1>7. CASE UNCHANGED vars
  BY <1>7 DEF vars, addState, loopState, control, connState
<1> QED
  BY <1>1, <1>2, <1>3, <1>4, <1>5, <1>6, <1>7 DEF Next, AddStep, LoopStep

LEMMA ResolvedNext == IInv /\ [Next]_vars => AlwaysResolved'
<1> SUFFICES ASSUME IInv, [Next]_vars PROVE AlwaysResolved'
  OBVIOUS
<1> USE WrapperAssumption
    DEF IInv, TypeOK, LockHeld, Adding, Polling, AddedOnce, ListeningServed,
      InHand, AlwaysResolved
<1>1. ASSUME NEW c \in Conns, NEW s \in Servers, Connect(c, s) PROVE AlwaysResolved'
  BY <1>1 DEF Connect, addState, loopState, control, connState
<1>2. ASSUME NEW c \in Conns,
                Abort(c)
      PROVE  AlwaysResolved'
  BY <1>2 DEF Abort, addState, loopState, control, connState
<1>3. ASSUME NEW a \in Adders, NEW s \in Servers, Call(a, s) PROVE AlwaysResolved'
  BY <1>3 DEF Call, addState, loopState, control, connState
<1>4. ASSUME NEW a \in Adders,
                Lock(a) \/ Find(a) \/ EmplaceBack(a) \/ Listen(a) \/
                ListenFails(a) \/ TryEmplace(a) \/ StartListeningLoop(a)
      PROVE  AlwaysResolved'
  BY <1>4 DEF Lock, LockFree, Find, EmplaceBack, Listen, HeldThroughout,
    ListenFails, TryEmplace, StartListeningLoop, addState, loopState,
    control, connState
<1>5. CASE Poll
  <2>1. \A s \in listening : s \in started
    BY <1>5 DEF Poll
  <2>2. \A i \in Pollable : servers[i] \in started
    BY <2>1 DEF Pollable
  <2> QED
    BY <1>5, <2>2 DEF Poll, addState, loopState, control, connState
<1>6. CASE StartListenLoop \/ StopListenLoop \/ Join \/ LoopTop \/
                LoopLock \/ Skip \/ AcceptFails \/ Resolve \/ RoundEnds
  BY <1>6 DEF StartListenLoop, StopListenLoop, Join, LoopTop, StopRequested,
    LoopLock, Skip, AcceptFails, NextPosition, Resolve, NextPosition, Resolved, RoundEnds,
    addState, loopState, control, connState
<1>7. ASSUME NEW c \in Conns,
                Accept(c)
      PROVE  AlwaysResolved'
  BY <1>7 DEF Accept, addState, loopState, control, connState
<1>8. CASE UNCHANGED vars
  BY <1>8 DEF vars, addState, loopState, control, connState
<1> QED
  BY <1>1, <1>2, <1>3, <1>4, <1>5, <1>6, <1>7, <1>8 DEF Next, AddStep, LoopStep

LEMMA HandNext == IInv /\ [Next]_vars => InHand'
<1> SUFFICES ASSUME IInv, [Next]_vars PROVE InHand'
  OBVIOUS
<1> USE WrapperAssumption DEF IInv, TypeOK, LockHeld, Adding, Polling, InHand
<1>1. ASSUME NEW c \in Conns, NEW s \in Servers, Connect(c, s) PROVE InHand'
  BY <1>1 DEF Connect, addState, loopState, control, connState
<1>2. ASSUME NEW c \in Conns,
                Abort(c)
      PROVE  InHand'
  BY <1>2 DEF Abort, addState, loopState, control, connState
<1>3. ASSUME NEW a \in Adders, NEW s \in Servers, Call(a, s) PROVE InHand'
  BY <1>3 DEF Call, addState, loopState, control, connState
<1>4. ASSUME NEW a \in Adders,
                Lock(a) \/ Find(a) \/ EmplaceBack(a) \/ Listen(a) \/
                ListenFails(a) \/ TryEmplace(a) \/ StartListeningLoop(a)
      PROVE  InHand'
  BY <1>4 DEF Lock, LockFree, Find, EmplaceBack, Listen, HeldThroughout,
    ListenFails, TryEmplace, StartListeningLoop, addState, loopState,
    control, connState
<1>5. ASSUME NEW c \in Conns, Accept(c) PROVE InHand'
  BY <1>5 DEF Accept, Backlog, addState, loopState, control, connState
<1>6. CASE Resolve
  BY <1>6, PositionHeld
    DEF Resolve, Resolved, NextPosition, addState, loopState, control, connState
<1>7. CASE StartListenLoop \/ StopListenLoop \/ Join \/ LoopTop \/
                LoopLock \/ Poll \/ Skip \/ AcceptFails \/ RoundEnds
  BY <1>7 DEF StartListenLoop, StopListenLoop, Join, LoopTop, StopRequested,
    LoopLock, Poll, Pollable, Skip, AcceptFails, NextPosition, RoundEnds, addState,
    loopState, control, connState
<1>8. CASE UNCHANGED vars
  BY <1>8 DEF vars, addState, loopState, control, connState
<1> QED
  BY <1>1, <1>2, <1>3, <1>4, <1>5, <1>6, <1>7, <1>8 DEF Next, AddStep, LoopStep

LEMMA PassedNext == IInv /\ [Next]_vars => PassedToOwn'
<1> SUFFICES ASSUME IInv, [Next]_vars PROVE PassedToOwn'
  OBVIOUS
<1> USE WrapperAssumption
    DEF IInv, TypeOK, LockHeld, Adding, Polling, InHand, PassedToOwn
<1>1. ASSUME NEW c \in Conns, NEW s \in Servers, Connect(c, s) PROVE PassedToOwn'
  BY <1>1 DEF Connect, addState, loopState, control, connState
<1>2. ASSUME NEW c \in Conns,
                Abort(c)
      PROVE  PassedToOwn'
  BY <1>2 DEF Abort, addState, loopState, control, connState
<1>3. ASSUME NEW a \in Adders, NEW s \in Servers, Call(a, s) PROVE PassedToOwn'
  BY <1>3 DEF Call, addState, loopState, control, connState
<1>4. ASSUME NEW a \in Adders,
                Lock(a) \/ Find(a) \/ EmplaceBack(a) \/ Listen(a) \/
                ListenFails(a) \/ TryEmplace(a) \/ StartListeningLoop(a)
      PROVE  PassedToOwn'
  BY <1>4 DEF Lock, LockFree, Find, EmplaceBack, Listen, HeldThroughout,
    ListenFails, TryEmplace, StartListeningLoop, addState, loopState,
    control, connState
<1>5. CASE Resolve
  BY <1>5, PositionHeld
    DEF Resolve, Resolved, NextPosition, addState, loopState, control, connState
<1>6. CASE StartListenLoop \/ StopListenLoop \/ Join \/ LoopTop \/
                LoopLock \/ Poll \/ Skip \/ AcceptFails \/ RoundEnds
  BY <1>6 DEF StartListenLoop, StopListenLoop, Join, LoopTop, StopRequested,
    LoopLock, Poll, Pollable, Skip, AcceptFails, NextPosition, RoundEnds, addState,
    loopState, control, connState
<1>7. ASSUME NEW c \in Conns,
                Accept(c)
      PROVE  PassedToOwn'
  BY <1>7 DEF Accept, addState, loopState, control, connState
<1>8. CASE UNCHANGED vars
  BY <1>8 DEF vars, addState, loopState, control, connState
<1> QED
  BY <1>1, <1>2, <1>3, <1>4, <1>5, <1>6, <1>7, <1>8 DEF Next, AddStep, LoopStep

LEMMA InvInit == Init => IInv
<1> SUFFICES ASSUME Init PROVE IInv
  OBVIOUS
<1> USE WrapperAssumption DEF Init
<1>1. servers \in Seq(Servers) /\ Len(servers) = 0
  OBVIOUS
<1>2. 0 \in 0 .. Len(servers) + 1 /\ 0 \in 0 .. MaxCalls
  BY <1>1
<1>3. ready \subseteq DOMAIN servers /\ {listening, mapped, started} \subseteq SUBSET Servers
  BY <1>1
<1>4. TypeOK
  BY <1>1, <1>2, <1>3 DEF TypeOK
<1>5. LockHeld /\ Progress /\ ListeningServed /\ InHand
  BY DEF LockHeld, Adding, Polling, Progress, ListeningServed, InHand
<1>6. AddedOnce
  BY DEF AddedOnce, IsInjective, ToSet
<1>7. AlwaysResolved /\ PassedToOwn
  BY DEF AlwaysResolved, PassedToOwn
<1> QED
  BY <1>4, <1>5, <1>6, <1>7 DEF IInv

LEMMA Invariant == Spec => []IInv
<1>1. IInv /\ [Next]_vars => IInv'
  BY TypeNext, LockNext, ProgressNext, AddedNext, ServedNext, ResolvedNext, HandNext, PassedNext
    DEF IInv
<1> QED
  BY <1>1, InvInit, PTL DEF Spec

(* Every variable has its type, whoever adds servers when. *)
THEOREM TypeCorrect == Spec => []TypeOK
<1>1. IInv => TypeOK
  BY DEF IInv
<1> QED
  BY <1>1, Invariant, PTL

(* No server is polled twice, and none has a clients loop without the array *)
(* of clients that loop works on.                                           *)
THEOREM ServersAddedOnce == Spec => []AddedOnce
<1>1. IInv => AddedOnce
  BY DEF IInv
<1> QED
  BY <1>1, Invariant, PTL

(* The servers loop always finds the server of a connection it accepts, and *)
(* that server has a loop to process it.                                    *)
THEOREM ServerAlwaysFound == Spec => []AlwaysResolved
<1>1. IInv => AlwaysResolved
  BY DEF IInv
<1> QED
  BY <1>1, Invariant, PTL

(* A connection ends in the array of the server its client connected to.    *)
THEOREM ConnectionsArrive == Spec => []PassedToOwn
<1>1. IInv => PassedToOwn
  BY DEF IInv
<1> QED
  BY <1>1, Invariant, PTL
=============================================================================
