------------------------ MODULE ClientsLoop_proofs ------------------------
(***************************************************************************)
(* Proofs about ClientsLoop, for every set of descriptors and capacity of   *)
(* the array.                                                              *)
(***************************************************************************)
EXTENDS ClientsLoop, FiniteSetTheorems, WellFoundedInduction, TLAPS

LEMMA LeastElement ==
  ASSUME NEW S, S \subseteq Nat, S # {}
  PROVE  \E x \in S : \A y \in S : x <= y
<1> DEFINE R == OpToRel(<, Nat)
<1>1. IsWellFoundedOn(R, Nat)
  BY NatLessThanWellFounded
<1>2. \A x \in S, y \in S : y < x => <<y, x>> \in R
  BY DEF OpToRel
<1> HIDE DEF R
<1>3. PICK x \in S : \A y \in S : ~ (<<y, x>> \in R)
  BY <1>1, WFMin
<1>4. ASSUME NEW y \in S PROVE x <= y
  <2>1. ~(y < x)
    BY <1>2, <1>3
  <2> QED
    BY <2>1
<1> QED
  BY <1>4

LEMMA SlotsFinite == IsFiniteSet(Slots)
  BY LoopAssumption, FS_Interval DEF Slots

LEMMA LiveSlots == \A k \in 0 .. Cap : Live(k) = 0 .. k - 1 /\ Live(k) \subseteq Slots
  BY LoopAssumption DEF Live, Slots

LEMMA InvalidFd == Invalid \notin Fds
  BY LoopAssumption DEF Invalid

(* What std::find returns. *)
LEMMA FindInvalidFinds ==
  ASSUME NEW k \in 0 .. Cap
  PROVE  /\ FindInvalid(k) \in 0 .. k
         /\ FindInvalid(k) = k => \A i \in Live(k) : mem[i] # Invalid
         /\ FindInvalid(k) # k => /\ FindInvalid(k) \in Live(k)
                                  /\ mem[FindInvalid(k)] = Invalid
<1> DEFINE S == {i \in Live(k) : mem[i] = Invalid}
<1>1. k \in Nat /\ Live(k) = 0 .. k - 1
  BY LoopAssumption, LiveSlots
<1>2. CASE S = {}
  <2>1. ~ \E i \in Live(k) : mem[i] = Invalid
    BY <1>2
  <2>2. FindInvalid(k) = k
    BY <2>1 DEF FindInvalid
  <2> QED
    BY <1>1, <2>1, <2>2
<1>3. CASE S # {}
  <2>a. S \subseteq Nat
    BY <1>1
  <2>b. \E x \in S : \A y \in S : x <= y
    <3> HIDE DEF S
    <3> QED
      BY <1>3, <2>a, LeastElement
  <2>1. PICK x \in S : \A y \in S : x <= y
    BY <2>b
  <2>2. \A j \in Live(x) : mem[j] # Invalid
    BY <1>1, <2>1 DEF Live, Slots
  <2>3. \E i \in Live(k) : mem[i] = Invalid /\ \A j \in Live(i) : mem[j] # Invalid
    BY <2>1, <2>2
  <2>4. FindInvalid(k) = CHOOSE i \in Live(k) : mem[i] = Invalid /\ \A j \in Live(i) : mem[j] # Invalid
    BY <2>3 DEF FindInvalid
  <2>5. FindInvalid(k) \in Live(k) /\ mem[FindInvalid(k)] = Invalid
    BY <2>3, <2>4
  <2> QED
    BY <1>1, <2>5
<1> QED
  BY <1>2, <1>3

-----------------------------------------------------------------------------
(* The room that Accept's guard assumes is still there at the append, and    *)
(* below the size that the append remembers, however the cleaning of the    *)
(* array is interleaved with it.                                            *)
Room ==
  /\ spc # "accept" => finish < Cap
  /\ spc = "commit" => sfin < Cap

TypeInv == TypeOK /\ Room

LEMMA TypeInit == Init => TypeInv
<1> SUFFICES ASSUME Init PROVE TypeInv
  OBVIOUS
<1>1. 0 \in 0 .. Cap /\ 0 \in 0 .. MaxWork
  BY LoopAssumption DEF MaxWork
<1> QED
  BY <1>1 DEF Init, TypeInv, TypeOK, Room

LEMMA TypeNext == TypeInv /\ [Next]_vars => TypeInv'
<1> SUFFICES ASSUME TypeInv, [Next]_vars PROVE TypeInv'
  OBVIOUS
<1> USE DEF TypeInv
<1>a. Cap \in Nat \ {0}
  BY LoopAssumption
<1>1. ASSUME NEW f \in Fds, Send(f) \/ HangUp(f) PROVE TypeInv'
  BY <1>1 DEF TypeOK, Room, Send, HangUp, arrayVars, serverVars, loopVars
<1>2. ASSUME NEW f \in Fds, Accept(f) PROVE TypeInv'
  BY <1>2 DEF TypeOK, Room, Accept, arrayVars, loopVars
<1>3. ASSUME NEW f \in Fds, WorkerDone(f) PROVE TypeInv'
  BY <1>3 DEF TypeOK, Room, WorkerDone, MaxWork, arrayVars, serverVars, loopVars
<1>4. CASE Construct
  BY <1>a, <1>4 DEF TypeOK, Room, Construct, NewRevents, loopVars, Slots
<1>5. CASE Commit
  <2>1. finish' \in 0 .. Cap
    BY <1>a, <1>5 DEF TypeOK, Room, Commit, Appended
  <2> QED
    BY <1>5, <2>1 DEF TypeOK, Room, Commit, loopVars
<1>6. CASE PollCall
  BY <1>6 DEF TypeOK, Room, PollCall, Polled, arrayVars, serverVars
<1>7. CASE PollReturn
  BY <1>7 DEF TypeOK, Room, PollReturn, serverVars
<1>8. CASE Scan
  <2>1. \A f \in Fds : Cardinality({i \in Readable : mem[i] = f}) \in Nat
    <3>1. \A f \in Fds : {i \in Readable : mem[i] = f} \subseteq Slots
      BY DEF Readable, Live
    <3> QED
      BY <3>1, SlotsFinite, FS_Subset, FS_CardinalityType
  <2>2. work' \in [Fds -> 0 .. MaxWork]
    BY <1>8, <2>1 DEF TypeOK, Scan, MaxWork
  <2>3. mem' \in [Slots -> Fds \union {Invalid}] /\ cpc' \in {"clean", "poll"}
    BY <1>8 DEF TypeOK, Scan
  <2>4. unclosed' \subseteq Fds \union {Invalid}
    BY <1>8 DEF TypeOK, Scan, HungUp, Live
  <2> QED
    BY <1>8, <2>2, <2>3, <2>4 DEF TypeOK, Room, Scan, serverVars
<1>9. CASE CleanShift
  <2>1. mem' \in [Slots -> Fds \union {Invalid}]
    BY <1>9, <1>a DEF TypeOK, CleanShift, Slots
  <2> QED
    BY <1>9, <2>1 DEF TypeOK, Room, CleanShift, serverVars
<1>10. CASE CleanPop
  <2>1. finish' \in 0 .. Cap /\ finish' < Cap
    BY <1>a, <1>10 DEF TypeOK, CleanPop
  <2> QED
    BY <1>10, <2>1 DEF TypeOK, Room, CleanPop, serverVars
<1>11. CASE CleanDone
  BY <1>11 DEF TypeOK, Room, CleanDone, arrayVars, serverVars
<1>12. CASE UNCHANGED vars
  BY <1>12 DEF TypeOK, Room, vars
<1> QED
  BY <1>1, <1>2, <1>3, <1>4, <1>5, <1>6, <1>7, <1>8, <1>9, <1>10, <1>11, <1>12
     DEF Next, ServersStep, ClientsStep

LEMMA TypeAlways == Spec => []TypeInv
  BY TypeInit, TypeNext, PTL DEF Spec

(* Every variable has its type.  That the array does not outgrow its capacity *)
(* is assumed, by the guard of Accept, not shown: the code lacks that guard. *)
(* What the proof adds is that the room seen then is still there when an     *)
(* append that overlaps an erase counts on from the size it remembers.       *)
THEOREM TypeCorrect == Spec => []TypeOK
<1>1. TypeInv => TypeOK
  BY DEF TypeInv
<1> QED
  BY <1>1, TypeAlways, PTL

-----------------------------------------------------------------------------
(* As long as no append and erase have overlapped: what one loop has read   *)
(* of the array is still so, and poll has told the truth.                   *)
Held(f) == \E i \in Live(finish) : mem[i] = f

HandOver ==
  /\ spc = "accept" <=> sfd = Invalid
  /\ spc = "commit" => sfin = finish /\ mem[finish] = sfd /\ rev[finish] = "none"
  /\ cpc = "pop" => efin = finish
  /\ cpc = "polling" => n <= finish /\ \A i \in Live(finish) : i >= n => rev[i] = "none"
  /\ cpc = "scan" =>
       \A i \in Live(finish) : rev[i] = "in" => mem[i] # Invalid /\ input[mem[i]] # "none"

(* The same, and each descriptor is in one hand, or forgotten after a       *)
(* POLLHUP alone.                                                          *)
Once == \A i, j \in Live(finish) : mem[i] = mem[j] /\ mem[i] # Invalid => i = j

Keeps(f) == Held(f) \/ work[f] = 1 \/ sfd = f

OneHand(f) ==
  /\ work[f] \in {0, 1}
  /\ ~(Held(f) /\ work[f] = 1) /\ ~(Held(f) /\ sfd = f) /\ ~(work[f] = 1 /\ sfd = f)
  /\ Keeps(f) => open[f]
  /\ open[f] => Keeps(f) \/ f \in unclosed

Single == Once /\ \A f \in Fds : OneHand(f)

LoopInv == ~raced => HandOver /\ Single

LEMMA LoopInit == Init => LoopInv
<1> SUFFICES ASSUME Init PROVE LoopInv
  OBVIOUS
<1>1. Live(finish) = {}
  BY LoopAssumption, LiveSlots DEF Init
<1> QED
  BY <1>1, InvalidFd DEF Init, LoopInv, HandOver, Single, Once, OneHand, Keeps, Held

LEMMA HandOverNext ==
  ASSUME TypeInv, LoopInv, [Next]_vars, ~raced'
  PROVE  HandOver'
<1>a. /\ Cap \in Nat \ {0} /\ finish \in 0 .. Cap /\ Live(finish) = 0 .. finish - 1
      /\ Live(finish) \subseteq Slots /\ finish \notin Live(finish)
  BY LoopAssumption, LiveSlots DEF TypeInv, TypeOK
<1>b. spc # "accept" => finish \in Slots
  BY <1>a DEF TypeInv, Room, Slots
<1>c. ~raced
  BY DEF Next, ServersStep, ClientsStep, Send, HangUp, Accept, Construct, Commit, PollCall,
         PollReturn, Scan, CleanShift, CleanPop, CleanDone, WorkerDone, vars
<1>d. HandOver /\ Single
  BY <1>c DEF LoopInv
<1>1. ASSUME NEW f \in Fds, Send(f) \/ HangUp(f) PROVE HandOver'
  <2>1. \A g \in Fds : input[g] # "none" => input'[g] # "none"
    BY <1>1 DEF Send, HangUp, TypeInv, TypeOK
  <2>2. UNCHANGED <<mem, rev, finish, spc, sfd, sfin, cpc, n, efin>>
    BY <1>1 DEF Send, HangUp, arrayVars, serverVars, loopVars
  <2>3. \A i \in Live(finish) : mem[i] # Invalid => mem[i] \in Fds
    BY <1>a DEF TypeInv, TypeOK
  <2> QED
    BY <1>d, <2>1, <2>2, <2>3 DEF HandOver
<1>2. ASSUME NEW f \in Fds, Accept(f) PROVE HandOver'
  <2>1. \A i \in Live(finish) : mem[i] # f
    BY <1>2, <1>d DEF Accept, Single, OneHand, Keeps, Held
  <2>2. \A g : g # f => input'[g] = input[g]
    BY <1>2 DEF Accept, TypeInv, TypeOK
  <2>3. /\ UNCHANGED <<mem, rev, finish, sfin, cpc, n, efin>>
        /\ spc' = "construct" /\ sfd' = f /\ f # Invalid
    BY <1>2, InvalidFd DEF Accept, arrayVars, loopVars
  <2> QED
    BY <1>d, <2>1, <2>2, <2>3 DEF HandOver
<1>3. ASSUME NEW f \in Fds, WorkerDone(f) PROVE HandOver'
  BY <1>d, <1>3 DEF HandOver, WorkerDone, arrayVars, serverVars, loopVars
<1>4. CASE Construct
  <2>1. /\ UNCHANGED <<finish, input, cpc, n, efin, sfd>>
        /\ spc = "construct" /\ spc' = "commit" /\ sfin' = finish
        /\ mem'[finish] = sfd /\ rev'[finish] = "none"
        /\ \A i \in Live(finish) : mem'[i] = mem[i] /\ rev'[i] = rev[i]
    BY <1>4, <1>a, <1>b DEF Construct, NewRevents, loopVars, TypeInv, TypeOK
  <2> QED
    BY <1>d, <2>1 DEF HandOver
<1>5. CASE Commit
  <2>1. /\ cpc # "pop" /\ spc = "commit" /\ spc' = "accept" /\ sfd' = Invalid
        /\ UNCHANGED <<mem, rev, input, cpc, n, efin>>
    BY <1>5 DEF Commit, loopVars
  <2>2. finish' = finish + 1 /\ rev[finish] = "none"
    BY <1>5, <1>d, <2>1 DEF Commit, Appended, HandOver
  <2>3. Live(finish') = Live(finish) \union {finish}
    BY <1>a, <1>b, <2>1, <2>2 DEF Live, Slots
  <2> QED
    BY <1>a, <1>d, <2>1, <2>2, <2>3 DEF HandOver, TypeInv, TypeOK
<1>6. CASE PollCall
  BY <1>6, <1>a, <1>d DEF HandOver, PollCall, Polled, arrayVars, serverVars
<1>7. CASE PollReturn
  <2>1. /\ UNCHANGED <<input, mem, finish, spc, sfd, sfin, n, efin>>
        /\ cpc = "polling" /\ cpc' \in {"scan", "poll"}
        /\ \A i \in Slots : IF i < n THEN rev'[i] \in Events(mem[i]) ELSE rev'[i] = rev[i]
    BY <1>7 DEF PollReturn, serverVars
  <2>2. \A f : "in" \in Events(f) => f # Invalid /\ input[f] # "none"
    BY DEF Events
  <2>3. n <= finish /\ n \in 0 .. Cap /\ \A i \in Live(finish) : i >= n => rev[i] = "none"
    BY <1>d, <2>1 DEF HandOver, TypeInv, TypeOK
  <2>4. \A i \in Live(finish) : rev'[i] = "in" => mem[i] # Invalid /\ input[mem[i]] # "none"
    BY <1>a, <2>1, <2>2, <2>3
  <2>5. spc = "commit" => rev'[finish] = "none"
    BY <1>a, <1>b, <1>d, <2>1, <2>3 DEF HandOver
  <2> QED
    BY <1>d, <2>1, <2>4, <2>5 DEF HandOver
<1>8. CASE Scan
  <2>1. /\ UNCHANGED <<input, rev, finish, spc, sfd, sfin, n, efin>>
        /\ cpc' \in {"clean", "poll"}
        /\ \A i \in Slots \ Live(finish) : mem'[i] = mem[i]
    BY <1>8 DEF Scan, Dropped, serverVars
  <2> QED
    BY <1>a, <1>b, <1>d, <2>1 DEF HandOver
<1>9. CASE CleanShift
  <2>1. /\ UNCHANGED <<input, rev, finish, spc, sfd, sfin, n>>
        /\ cpc' = "pop" /\ efin' = finish
    BY <1>9 DEF CleanShift, serverVars
  <2>2. finish \in Slots => mem'[finish] = mem[finish]
    BY <1>9, <1>a DEF CleanShift
  <2> QED
    BY <1>b, <1>d, <2>1, <2>2 DEF HandOver
<1>10. CASE CleanPop
  <2>1. spc # "commit" /\ cpc' = "clean" /\ UNCHANGED <<spc, sfd>>
    BY <1>10 DEF CleanPop, serverVars
  <2> QED
    BY <1>d, <2>1 DEF HandOver
<1>11. CASE CleanDone
  <2>1. cpc' = "poll" /\ UNCHANGED <<mem, rev, finish, spc, sfd, sfin>>
    BY <1>11 DEF CleanDone, arrayVars, serverVars
  <2> QED
    BY <1>d, <2>1 DEF HandOver
<1>12. CASE UNCHANGED vars
  BY <1>d, <1>12 DEF HandOver, vars
<1> QED
  BY <1>1, <1>2, <1>3, <1>4, <1>5, <1>6, <1>7, <1>8, <1>9, <1>10, <1>11, <1>12
     DEF Next, ServersStep, ClientsStep

LEMMA SingleNext ==
  ASSUME TypeInv, LoopInv, [Next]_vars, ~raced'
  PROVE  Single'
<1>a. /\ Cap \in Nat \ {0} /\ finish \in 0 .. Cap /\ Live(finish) = 0 .. finish - 1
      /\ Live(finish) \subseteq Slots /\ finish \notin Live(finish)
  BY LoopAssumption, LiveSlots DEF TypeInv, TypeOK
<1>b. spc # "accept" => finish \in Slots
  BY <1>a DEF TypeInv, Room, Slots
<1>c. ~raced
  BY DEF Next, ServersStep, ClientsStep, Send, HangUp, Accept, Construct, Commit, PollCall,
         PollReturn, Scan, CleanShift, CleanPop, CleanDone, WorkerDone, vars
<1>d. HandOver /\ Single
  BY <1>c DEF LoopInv
<1>e. Once /\ \A f \in Fds : OneHand(f)
  BY <1>d DEF Single
<1>1. CASE UNCHANGED <<open, work, mem, finish, sfd, unclosed>>
  BY <1>1, <1>e DEF Single, Once, OneHand, Keeps, Held
<1>2. ASSUME NEW f \in Fds, Accept(f) PROVE Single'
  <2>1. /\ UNCHANGED <<mem, finish, work, unclosed>> /\ sfd' = f /\ sfd = Invalid
        /\ open'[f] /\ ~open[f] /\ \A g \in Fds \ {f} : open'[g] = open[g]
    BY <1>2, <1>d DEF Accept, HandOver, arrayVars, TypeInv, TypeOK
  <2>2. ASSUME NEW g \in Fds PROVE Held(g)' <=> Held(g)
    BY <2>1 DEF Held
  <2>3. ASSUME NEW g \in Fds PROVE OneHand(g)'
    <3>1. g # Invalid /\ OneHand(g)
      BY <1>e, InvalidFd
    <3> QED
      BY <2>1, <2>2, <3>1 DEF OneHand, Keeps
  <2> QED
    BY <1>e, <2>1, <2>3 DEF Single, Once
<1>3. ASSUME NEW f \in Fds, WorkerDone(f) PROVE Single'
  <2>1. /\ UNCHANGED <<mem, finish, sfd, unclosed>>
        /\ ~open'[f] /\ \A g \in Fds \ {f} : open'[g] = open[g] /\ work'[g] = work[g]
        /\ work[f] = 1 /\ work'[f] = 0
    BY <1>3, <1>e DEF WorkerDone, arrayVars, serverVars, TypeInv, TypeOK, OneHand
  <2>2. ASSUME NEW g \in Fds PROVE Held(g)' <=> Held(g)
    BY <2>1 DEF Held
  <2>3. ASSUME NEW g \in Fds PROVE OneHand(g)'
    <3>1. OneHand(g) /\ OneHand(f)
      BY <1>e
    <3>2. CASE g = f
      BY <2>1, <2>2, <3>1, <3>2 DEF OneHand, Keeps
    <3>3. CASE g # f
      BY <2>1, <2>2, <3>1, <3>3 DEF OneHand, Keeps
    <3> QED
      BY <3>2, <3>3
  <2> QED
    BY <1>e, <2>1, <2>3 DEF Single, Once
<1>4. CASE Construct
  <2>1. /\ UNCHANGED <<finish, open, work, sfd, unclosed>>
        /\ \A i \in Live(finish) : mem'[i] = mem[i]
    BY <1>4, <1>a DEF Construct, TypeInv, TypeOK
  <2>2. \A g \in Fds : Held(g)' <=> Held(g)
    BY <2>1 DEF Held
  <2>3. \A g \in Fds : OneHand(g)'
    BY <1>e, <2>1, <2>2 DEF OneHand, Keeps
  <2> QED
    BY <1>e, <2>1, <2>3 DEF Single, Once
<1>5. CASE Commit
  <2>1. /\ cpc # "pop" /\ spc = "commit" /\ sfd' = Invalid
        /\ UNCHANGED <<mem, open, work, unclosed>>
    BY <1>5 DEF Commit
  <2>2. finish' = finish + 1 /\ mem[finish] = sfd /\ sfd \in Fds
    BY <1>5, <1>d, <2>1 DEF Commit, Appended, HandOver, TypeInv, TypeOK
  <2>3. Live(finish') = Live(finish) \union {finish}
    BY <1>a, <1>b, <2>1, <2>2 DEF Live, Slots
  <2>4. \A g \in Fds : Held(g)' <=> Held(g) \/ sfd = g
    BY <2>1, <2>2, <2>3 DEF Held
  <2>5. ~Held(sfd)
    BY <1>e, <2>2 DEF OneHand
  <2>6. Once'
    BY <1>e, <2>1, <2>2, <2>3, <2>5 DEF Once, Held
  <2>7. \A g \in Fds : OneHand(g)'
    BY <1>e, <2>1, <2>2, <2>4, InvalidFd DEF OneHand, Keeps
  <2> QED
    BY <2>6, <2>7 DEF Single
<1>6. CASE Scan
  <2> DEFINE got(f) == {i \in Readable : mem[i] = f}
             more(f) == Cardinality(got(f))
  <2>1. UNCHANGED <<finish, open, sfd>> /\ unclosed' = unclosed \union {mem[i] : i \in HungUp}
    BY <1>6 DEF Scan, serverVars
  <2>2. \A i \in Live(finish) : mem'[i] = IF rev[i] \in {"in", "hup"} THEN Invalid ELSE mem[i]
    BY <1>6, <1>a DEF Scan, Dropped
  <2>3. ASSUME NEW f \in Fds
        PROVE  /\ got(f) = {} => more(f) = 0
               /\ got(f) # {} => more(f) = 1
    <3>1. CASE got(f) = {}
      BY <3>1, FS_EmptySet
    <3>2. CASE got(f) # {}
      <4>1. PICK i \in Live(finish) : i \in got(f)
        BY <3>2 DEF Readable
      <4>2. got(f) = {i}
        BY <1>e, <4>1, InvalidFd DEF Once, Readable
      <4> QED
        BY <4>2, FS_Singleton
    <3> QED
      BY <3>1, <3>2
  <2>4. ASSUME NEW f \in Fds
        PROVE  work'[f] = IF work[f] + more(f) > MaxWork THEN MaxWork ELSE work[f] + more(f)
    BY <1>6 DEF Scan
  <2> HIDE DEF more
  <2>5. ASSUME NEW f \in Fds
        PROVE  /\ got(f) = {} => work'[f] = work[f]
               /\ got(f) # {} => work'[f] = 1 /\ Held(f)
    <3>1. work[f] \in {0, 1} /\ (Held(f) => work[f] = 0)
      BY <1>e DEF OneHand
    <3>2. got(f) # {} => Held(f)
      BY DEF Readable, Held
    <3> QED
      BY <2>3, <2>4, <3>1, <3>2 DEF MaxWork
  <2>6. ASSUME NEW f \in Fds, Held(f)' PROVE Held(f) /\ got(f) = {}
    <3>1. PICK i \in Live(finish) : mem'[i] = f /\ mem[i] = f /\ rev[i] \notin {"in", "hup"}
      BY <2>1, <2>2, <2>6, InvalidFd DEF Held
    <3>2. \A j \in got(f) : j = i
      BY <1>e, <3>1, InvalidFd DEF Once, Readable
    <3>3. i \notin got(f)
      BY <3>1 DEF Readable
    <3> QED
      BY <3>1, <3>2, <3>3 DEF Held
  <2>7. ASSUME NEW f \in Fds, Held(f) PROVE Held(f)' \/ got(f) # {} \/ f \in unclosed'
    <3>1. PICK i \in Live(finish) : mem[i] = f
      BY <2>7 DEF Held
    <3>2. CASE rev[i] = "in"
      BY <3>1, <3>2, InvalidFd DEF Readable
    <3>3. CASE rev[i] = "hup"
      BY <2>1, <3>1, <3>3 DEF HungUp
    <3>4. CASE rev[i] \notin {"in", "hup"}
      BY <2>1, <2>2, <3>1, <3>4 DEF Held
    <3> QED
      BY <3>2, <3>3, <3>4
  <2>8. ASSUME NEW f \in Fds PROVE OneHand(f)'
    <3> HIDE DEF got
    <3>1. OneHand(f)
      BY <1>e
    <3>2. unclosed \subseteq unclosed'
      BY <2>1
    <3> QED
      BY <2>1, <2>5, <2>6, <2>7, <3>1, <3>2 DEF OneHand, Keeps
  <2>9. Once'
    BY <1>e, <2>1, <2>2 DEF Once
  <2> QED
    BY <2>8, <2>9 DEF Single
<1>7. CASE CleanShift
  <2> DEFINE at == FindInvalid(finish)
  <2>1. /\ UNCHANGED <<finish, open, work, sfd, unclosed>>
        /\ \A i \in Slots : mem'[i] =
             IF at = finish \/ i < at \/ i >= finish THEN mem[i]
             ELSE IF i = finish - 1 THEN Invalid ELSE mem[i + 1]
    BY <1>7 DEF CleanShift, serverVars
  <2>2. /\ at \in 0 .. finish
        /\ at # finish => at \in Live(finish) /\ mem[at] = Invalid
    BY <1>a, FindInvalidFinds
  <2> HIDE DEF at
  <2>3. CASE at = finish
    <3>1. \A i \in Live(finish) : mem'[i] = mem[i]
      BY <1>a, <2>1, <2>3
    <3>2. \A g \in Fds : Held(g)' <=> Held(g)
      BY <2>1, <3>1 DEF Held
    <3> QED
      BY <1>e, <2>1, <3>1, <3>2 DEF Single, Once, OneHand, Keeps
  <2>4. CASE at # finish
    <3> DEFINE from(i) == IF i < at THEN i ELSE i + 1
    <3>1. \A i \in Live(finish) :
            mem'[i] # Invalid => from(i) \in Live(finish) /\ mem'[i] = mem[from(i)]
      BY <1>a, <2>1, <2>2, <2>4
    <3>2. Once'
      <4> SUFFICES ASSUME NEW i \in Live(finish), NEW j \in Live(finish),
                          mem'[i] = mem'[j], mem'[i] # Invalid
                   PROVE  i = j
        BY <2>1 DEF Once
      <4>1. /\ from(i) \in Live(finish) /\ from(j) \in Live(finish)
            /\ mem[from(i)] = mem[from(j)] /\ mem[from(i)] # Invalid
        BY <3>1
      <4>2. from(i) = from(j)
        BY <1>e, <4>1 DEF Once
      <4> QED
        BY <1>a, <2>2, <4>2
    <3>3. ASSUME NEW g \in Fds, Held(g)' PROVE Held(g)
      <4>1. PICK i \in Live(finish) : mem'[i] = g
        BY <2>1, <3>3 DEF Held
      <4> QED
        BY <3>1, <4>1, InvalidFd DEF Held
    <3>4. ASSUME NEW g \in Fds, Held(g) PROVE Held(g)'
      <4>1. PICK i \in Live(finish) : mem[i] = g
        BY <3>4 DEF Held
      <4>2. i # at
        BY <2>2, <2>4, <4>1, InvalidFd
      <4>3. CASE i < at
        BY <1>a, <2>1, <4>1, <4>3 DEF Held
      <4>4. CASE i > at
        <5>1. i - 1 \in Live(finish) /\ mem'[i - 1] = g
          BY <1>a, <2>1, <2>2, <2>4, <4>1, <4>4
        <5> QED
          BY <2>1, <5>1 DEF Held
      <4> QED
        BY <1>a, <2>2, <4>2, <4>3, <4>4
    <3>5. \A g \in Fds : Held(g)' <=> Held(g)
      BY <3>3, <3>4
    <3> QED
      BY <1>e, <2>1, <3>2, <3>5 DEF Single, OneHand, Keeps
  <2> QED
    BY <2>3, <2>4
<1>8. CASE CleanPop
  <2>1. /\ finish' = finish - 1 /\ finish' \in Nat
        /\ UNCHANGED <<mem, work, sfd, unclosed>>
        /\ \A f \in Fds : open'[f] <=> open[f] /\ mem[finish'] # f
    <3>1. open' = [f \in Fds |-> open[f] /\ mem[finish'] # f]
      BY <1>8 DEF CleanPop
    <3>2. \A f \in Fds : open'[f] <=> open[f] /\ mem[finish'] # f
      BY ONLY <3>1
    <3>3. finish' = finish - 1 /\ finish' \in Nat
      BY <1>8, <1>a, <1>d DEF CleanPop, HandOver
    <3>4. UNCHANGED <<mem, work, sfd, unclosed>>
      BY <1>8 DEF CleanPop, serverVars
    <3> QED
      BY <3>2, <3>3, <3>4
  <2>2. /\ Live(finish') = Live(finish) \ {finish'} /\ finish' \in Live(finish)
    BY <1>a, <2>1, LiveSlots
  <2>3. ASSUME NEW f \in Fds
        PROVE  Held(f) <=> Held(f)' \/ mem[finish'] = f
    BY <2>1, <2>2 DEF Held
  <2>4. ASSUME NEW f \in Fds PROVE ~(Held(f)' /\ mem[finish'] = f)
    BY <1>e, <2>1, <2>2, InvalidFd DEF Once, Held
  <2>5. Once'
    BY <1>e, <2>1, <2>2 DEF Once
  <2>6. ASSUME NEW f \in Fds PROVE OneHand(f)'
    <3>1. OneHand(f)
      BY <1>e
    <3>2. CASE mem[finish'] = f
      BY <2>1, <2>3, <2>4, <3>1, <3>2 DEF OneHand, Keeps
    <3>3. CASE mem[finish'] # f
      BY <2>1, <2>3, <3>1, <3>3 DEF OneHand, Keeps
    <3> QED
      BY <3>2, <3>3
  <2> QED
    BY <2>5, <2>6 DEF Single
<1> QED
  BY <1>1, <1>2, <1>3, <1>4, <1>5, <1>6, <1>7, <1>8
     DEF Next, ServersStep, ClientsStep, Send, HangUp, PollCall, PollReturn, CleanDone, vars,
         arrayVars, serverVars

LEMMA LoopAlways == Spec => []LoopInv
<1>1. TypeInv /\ LoopInv /\ [Next]_vars => LoopInv'
  BY HandOverNext, SingleNext DEF LoopInv
<1> QED
  BY <1>1, LoopInit, TypeAlways, PTL DEF Spec

(* As long as no append and erase have overlapped, the first recv of a      *)
(* worker that the clients loop starts has something to read.               *)
THEOREM WorkersHaveInput == Spec => []FreshEvents
<1>1. LoopInv => FreshEvents
  BY DEF LoopInv, HandOver, FreshEvents
<1> QED
  BY <1>1, LoopAlways, PTL

(* As long as no append and erase have overlapped, every open connection    *)
(* has exactly one owner who will close it - an element of the array, a     *)
(* worker or the servers loop -, but for those dropped after a POLLHUP      *)
(* alone, which have none; and a closed one has none.                       *)
THEOREM OwnersAreUnique == Spec => []OneOwner
<1>1. ASSUME TypeInv, LoopInv PROVE OneOwner
  <2> SUFFICES ASSUME ~raced, NEW f \in Fds
               PROVE  /\ Owners(f) <= (IF open[f] THEN 1 ELSE 0)
                      /\ open[f] => Owners(f) = 1 \/ f \in unclosed
    BY DEF OneOwner
  <2>1. Once /\ OneHand(f)
    BY <1>1 DEF LoopInv, Single
  <2>2. Cardinality(Tracked(f)) = IF Held(f) THEN 1 ELSE 0
    <3>1. CASE Held(f)
      <4>1. PICK i \in Live(finish) : mem[i] = f
        BY <3>1 DEF Held
      <4>2. Tracked(f) = {i}
        BY <2>1, <4>1, InvalidFd DEF Tracked, Once
      <4> QED
        BY <3>1, <4>2, FS_Singleton
    <3>2. CASE ~Held(f)
      <4>1. Tracked(f) = {}
        BY <3>2 DEF Tracked, Held
      <4> QED
        BY <3>2, <4>1, FS_EmptySet
    <3> QED
      BY <3>1, <3>2
  <2> QED
    BY <2>1, <2>2 DEF Owners, OneHand, Keeps
<1> QED
  BY <1>1, LoopAlways, TypeAlways, PTL
=============================================================================
