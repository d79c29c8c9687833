------------------------ MODULE HtmlService_proofs ------------------------
(***************************************************************************)
(* Proofs about HtmlService, for all workers, conversations and pages, any  *)
(* number of buffers and any size of them.                                 *)
(***************************************************************************)
EXTENDS HtmlService, WellFoundedInduction, TLAPS

(* What is proved about the pool holds of the one in this module. *)
PoolProofs == INSTANCE BufferPool_proofs
  WITH Threads <- Workers, pc <- ppc, mem <- [i \in Buffers |-> Owners(buf[i])]

LEMMA LeastElement ==
  ASSUME NEW S, S \subseteq Nat, S # {}
  PROVE  \E x \in S : \A y \in S : x <= y
<1> DEFINE R == OpToRel(<, Nat)
<1>1. IsWellFoundedOn(R, Nat)
  BY NatLessThanWellFounded
<1>2. \A x \in S, y \in S : y < x => <<y, x>> \in R
  BY DEF OpToRel
<1> HIDE DEF R
<1>3. PICK x \in S : \A y \in S : ~ (<<y, x>> \in R)
  BY <1>1, WFMin
<1>4. ASSUME NEW y \in S PROVE x <= y
  <2>1. ~(y < x)
    BY <1>2, <1>3
  <2> QED
    BY <2>1
<1> QED
  BY <1>4

-----------------------------------------------------------------------------
(* Pieces, and the sequences of them that a buffer holds. *)
PieceSet == [worker : Workers, number : Nat, part : {1, 2}]

Contents == {s \in Seq(PieceSet) : Len(s) <= Size}

LEMMA PieceType ==
  ASSUME NEW w \in Workers, NEW k \in Nat
  PROVE  Piece(w, k) \in PieceSet /\ Piece(w, k).worker = w
<1>1. (k + 1) \div 2 \in Nat /\ 2 - (k % 2) \in {1, 2}
  OBVIOUS
<1> QED
  BY <1>1 DEF Piece, PieceSet

LEMMA LastEndFound ==
  ASSUME NEW s \in Seq(PieceSet), Ends(s) # {}
  PROVE  LastEnd(s) \in Ends(s) /\ \A j \in Ends(s) : j <= LastEnd(s)
<1> DEFINE S == {Len(s) - k : k \in Ends(s)}
<1>1. Ends(s) \subseteq 1 .. Len(s) /\ Len(s) \in Nat
  BY DEF Ends
<1>2. S \subseteq Nat /\ S # {}
  BY <1>1
<1>3. \E x \in S : \A y \in S : x <= y
  <2> HIDE DEF S
  <2> QED
    BY <1>2, LeastElement
<1>4. PICK k \in Ends(s) : \A j \in Ends(s) : Len(s) - k <= Len(s) - j
  BY <1>3
<1>5. \A j \in Ends(s) : j <= k
  BY <1>1, <1>4
<1> QED
  BY <1>5 DEF LastEnd

LEMMA FirstFound ==
  ASSUME NEW s \in Seq(PieceSet), Matches(s) # {}
  PROVE  First(s) \in Matches(s) /\ \A j \in Matches(s) : First(s) <= j
<1>1. Matches(s) \subseteq Nat
  BY DEF Matches, Lines
<1>2. \E k \in Matches(s) : \A j \in Matches(s) : k <= j
  BY <1>1, LeastElement
<1> QED
  BY <1>2 DEF First

LEMMA OwnersType == \A s \in Seq(PieceSet) : Owners(s) \subseteq Workers
<1> SUFFICES ASSUME NEW s \in Seq(PieceSet), NEW k \in 1 .. Len(s) PROVE s[k].worker \in Workers
  BY DEF Owners
<1>1. s[k] \in PieceSet
  OBVIOUS
<1> QED
  BY <1>1 DEF PieceSet

LEMMA Joined ==
  ASSUME NEW S, NEW a \in Seq(S), NEW b \in Seq(S)
  PROVE  /\ a \o b \in Seq(S) /\ Len(a \o b) = Len(a) + Len(b)
         /\ \A j \in 1 .. Len(a) : (a \o b)[j] = a[j]
         /\ \A j \in Len(a) + 1 .. Len(a) + Len(b) : (a \o b)[j] = b[j - Len(a)]
  OBVIOUS

(* What is in a buffer after a recv of k pieces, n having been received. *)
Filled(s, w, n, k) ==
  LET all == s \o [j \in 1 .. k |-> Piece(w, n + j)]
  IN IF Len(all) > Size THEN SubSeq(all, 1, Size) ELSE all

LEMMA FilledBuffer ==
  ASSUME NEW s \in Contents, NEW w \in Workers, NEW n \in Nat, NEW k \in Nat \ {0}
  PROVE  /\ Filled(s, w, n, k) \in Contents
         /\ Len(s) = Size => Filled(s, w, n, k) = s
         /\ Len(s) < Size => Owners(Filled(s, w, n, k)) = Owners(s) \union {w}
<1> DEFINE new == [j \in 1 .. k |-> Piece(w, n + j)]
           all == s \o new
           cut == SubSeq(all, 1, Size)
<1>a. Size \in Nat \ {0} /\ Len(s) \in Nat /\ Len(s) <= Size /\ s \in Seq(PieceSet)
  BY ServiceAssumption DEF Contents
<1>b. new \in Seq(PieceSet) /\ Len(new) = k /\ \A j \in 1 .. k : new[j].worker = w
  <2>1. \A j \in 1 .. k : Piece(w, n + j) \in PieceSet /\ Piece(w, n + j).worker = w
    BY PieceType
  <2> QED
    BY <2>1
<1> HIDE DEF new
<1>c. /\ all \in Seq(PieceSet) /\ Len(all) = Len(s) + k
      /\ \A j \in 1 .. Len(s) : all[j] = s[j]
      /\ \A j \in Len(s) + 1 .. Len(s) + k : all[j] = new[j - Len(s)]
  BY <1>a, <1>b
<1>d. \A j \in Len(s) + 1 .. Len(s) + k : all[j].worker = w
  <2> SUFFICES ASSUME NEW j \in Len(s) + 1 .. Len(s) + k PROVE all[j].worker = w
    OBVIOUS
  <2>1. j - Len(s) \in 1 .. k
    BY <1>a
  <2> QED
    BY <1>b, <1>c, <2>1
<1> HIDE DEF all
<1>e. Filled(s, w, n, k) = IF Len(all) > Size THEN cut ELSE all
  BY DEF Filled, all, new
<1>f. Len(all) > Size => /\ cut \in Seq(PieceSet) /\ Len(cut) = Size
                         /\ \A j \in 1 .. Size : cut[j] = all[j]
  BY <1>a, <1>c
<1> HIDE DEF cut
<1> DEFINE res == Filled(s, w, n, k)
<1>1. /\ res \in Contents /\ Len(res) >= Len(s) /\ (Len(s) < Size => Len(res) > Len(s))
      /\ Len(res) <= Len(s) + k /\ Len(res) <= Size
      /\ \A j \in 1 .. Len(res) : res[j] = all[j]
  BY <1>a, <1>c, <1>e, <1>f DEF Contents
<1> HIDE DEF res
<1>2. res \in Seq(PieceSet) /\ Len(res) \in Nat
  BY <1>1 DEF Contents
<1>3. ASSUME Len(s) = Size PROVE res = s
  <2>1. Len(res) = Len(s) /\ \A j \in 1 .. Len(s) : res[j] = s[j]
    BY <1>a, <1>1, <1>2, <1>3, <1>c
  <2> QED
    BY <1>a, <1>2, <2>1
<1>4. ASSUME Len(s) < Size PROVE Owners(res) = Owners(s) \union {w}
  <2>1. Owners(res) \subseteq Owners(s) \union {w}
    <3> SUFFICES ASSUME NEW j \in 1 .. Len(res) PROVE res[j].worker \in Owners(s) \union {w}
      BY <1>2 DEF Owners
    <3>1. CASE j <= Len(s)
      BY <1>a, <1>1, <1>2, <1>c, <3>1 DEF Owners
    <3>2. CASE j > Len(s)
      BY <1>a, <1>1, <1>2, <1>d, <3>2
    <3> QED
      BY <1>a, <1>2, <3>1, <3>2
  <2>2. Owners(s) \subseteq Owners(res)
    <3> SUFFICES ASSUME NEW j \in 1 .. Len(s) PROVE s[j].worker \in Owners(res)
      BY <1>a DEF Owners
    <3>1. j \in 1 .. Len(res) /\ res[j] = s[j]
      BY <1>a, <1>1, <1>2, <1>c
    <3> QED
      BY <1>2, <3>1 DEF Owners
  <2>3. w \in Owners(res)
    <3>1. Len(s) + 1 \in 1 .. Len(res)
      BY <1>a, <1>1, <1>2, <1>4
    <3>2. res[Len(s) + 1].worker = w
      BY <1>1, <1>d, <3>1
    <3> QED
      BY <1>2, <3>1, <3>2 DEF Owners
  <2> QED
    BY <2>1, <2>2, <2>3
<1> QED
  BY <1>1, <1>3, <1>4 DEF res

(* What is in a buffer after it has been cleaned. *)
Leftover(s) == SubSeq(s, LastEnd(s) + 1, Len(s))
Shifted(s) == Leftover(s) \o SubSeq(s, Len(Leftover(s)) + 1, Len(s))

LEMMA CleanedBuffer ==
  ASSUME NEW s \in Contents, Ends(s) # {}
  PROVE  /\ Shifted(s) \in Contents /\ Owners(Shifted(s)) \subseteq Owners(s)
         /\ LastEnd(s) = Len(s) => Shifted(s) = s
<1> DEFINE e == LastEnd(s)
           left == Leftover(s)
           rest == SubSeq(s, Len(left) + 1, Len(s))
<1>a. s \in Seq(PieceSet) /\ Len(s) \in Nat /\ Len(s) <= Size /\ Size \in Nat
  BY ServiceAssumption DEF Contents
<1>b. e \in 1 .. Len(s)
  BY <1>a, LastEndFound DEF Ends
<1> HIDE DEF e
<1>c. /\ left \in Seq(PieceSet) /\ Len(left) = Len(s) - e
      /\ \A j \in 1 .. Len(s) - e : left[j] = s[e + j]
  BY <1>a, <1>b DEF Leftover, e
<1> HIDE DEF left
<1>d. /\ rest \in Seq(PieceSet) /\ Len(rest) = e
      /\ \A j \in 1 .. e : rest[j] = s[(Len(s) - e) + j]
  BY <1>a, <1>b, <1>c
<1> HIDE DEF rest
<1>e. Shifted(s) = left \o rest
  BY DEF Shifted, left, rest
<1>f. /\ Shifted(s) \in Seq(PieceSet) /\ Len(Shifted(s)) = Len(s)
      /\ \A j \in 1 .. Len(s) - e : Shifted(s)[j] = s[e + j]
      /\ \A j \in (Len(s) - e) + 1 .. Len(s) : Shifted(s)[j] = s[j]
  <2>1. /\ Shifted(s) \in Seq(PieceSet) /\ Len(Shifted(s)) = (Len(s) - e) + e
        /\ \A j \in 1 .. Len(s) - e : Shifted(s)[j] = left[j]
        /\ \A j \in (Len(s) - e) + 1 .. (Len(s) - e) + e : Shifted(s)[j] = rest[j - (Len(s) - e)]
    <3>1. /\ left \o rest \in Seq(PieceSet) /\ Len(left \o rest) = Len(left) + Len(rest)
          /\ \A j \in 1 .. Len(left) : (left \o rest)[j] = left[j]
          /\ \A j \in Len(left) + 1 .. Len(left) + Len(rest) :
               (left \o rest)[j] = rest[j - Len(left)]
      BY ONLY <1>c, <1>d, Joined
    <3>2. Len(left) = Len(s) - e /\ Len(rest) = e
      BY <1>c, <1>d
    <3> QED
      BY ONLY <1>e, <3>1, <3>2
  <2>2. ASSUME NEW j \in (Len(s) - e) + 1 .. Len(s) PROVE Shifted(s)[j] = s[j]
    <3>1. j - (Len(s) - e) \in 1 .. e /\ (Len(s) - e) + (j - (Len(s) - e)) = j
      BY <1>a, <1>b
    <3>2. Shifted(s)[j] = rest[j - (Len(s) - e)]
      BY <1>a, <1>b, <2>1
    <3>3. rest[j - (Len(s) - e)] = s[(Len(s) - e) + (j - (Len(s) - e))]
      BY <1>d, <3>1
    <3> QED
      BY <3>1, <3>2, <3>3
  <2> QED
    BY <1>a, <1>b, <1>c, <2>1, <2>2
<1>1. Owners(Shifted(s)) \subseteq Owners(s)
  <2> SUFFICES ASSUME NEW j \in 1 .. Len(s) PROVE Shifted(s)[j].worker \in Owners(s)
    BY <1>a, <1>f DEF Owners
  <2>1. \E i \in 1 .. Len(s) : Shifted(s)[j] = s[i]
    <3>1. CASE j <= Len(s) - e
      <4>1. e + j \in 1 .. Len(s)
        BY <1>a, <1>b, <3>1
      <4> QED
        BY <1>a, <1>b, <1>f, <3>1, <4>1
    <3>2. CASE j > Len(s) - e
      BY <1>a, <1>b, <1>f, <3>2
    <3> QED
      BY <1>a, <1>b, <3>1, <3>2
  <2> QED
    BY <1>a, <2>1 DEF Owners
<1>2. ASSUME e = Len(s) PROVE Shifted(s) = s
  <2>1. \A j \in 1 .. Len(s) : Shifted(s)[j] = s[j]
    BY <1>a, <1>f, <1>2
  <2> QED
    BY <1>a, <1>f, <2>1
<1> QED
  BY <1>a, <1>f, <1>1, <1>2 DEF e, Contents

-----------------------------------------------------------------------------
(* Types, and where a worker is in the pool: it has a buffer as long as it  *)
(* receives and answers.                                                   *)
Using == {"recv", "clean", "match", "leave", "unwind", "poll", "end"}
Labels == {"begin", "buffer", "done"} \union Using

Statuses == {"bad request", "not found", "ok"}
Reply == [worker : Workers, number : Nat, status : Statuses, whole : BOOLEAN]

TypeInv ==
  /\ \A w \in Workers : conv[w] \in Conversations[w]
  /\ sent \in [Workers -> Nat] /\ received \in [Workers -> Nat]
  /\ \A w \in Workers : /\ received[w] <= sent[w] /\ sent[w] <= 2 * Len(conv[w])
                        /\ received[w] <= Size
  /\ buf \in [Buffers -> Contents]
  /\ wpc \in [Workers -> Labels] /\ polls \in [Workers -> {"in", "out"}]
  /\ replies \in [Workers -> Seq(Reply)] /\ wrapped \in [Workers -> BOOLEAN]
  /\ busy \in [Buffers -> BOOLEAN] /\ at \in [Workers -> Buffers] /\ overlap \in BOOLEAN
  /\ ppc \in [Workers -> {"idle", "scan", "claim", "clear", "use"}]

InPool(w) ==
  /\ wpc[w] \in {"begin", "done"} <=> ppc[w] = "idle"
  /\ wpc[w] = "buffer" <=> ppc[w] \in {"scan", "claim", "clear"}

ServiceInv == TypeInv /\ \A w \in Workers : InPool(w)

LEMMA ConvLength == TypeInv => \A w \in Workers : Len(conv[w]) \in Nat /\ conv[w] \in Seq(ToSet(conv[w]))
<1> SUFFICES ASSUME TypeInv, NEW w \in Workers
             PROVE  Len(conv[w]) \in Nat /\ conv[w] \in Seq(ToSet(conv[w]))
  OBVIOUS
<1>1. conv[w] \in Seq(ToSet(conv[w]))
  BY ServiceAssumption DEF TypeInv
<1> HIDE DEF ToSet
<1> QED
  BY <1>1

LEMMA InUse ==
  ASSUME ServiceInv, NEW w \in Workers, wpc[w] \in Using
  PROVE  ppc[w] = "use" /\ at[w] \in Buffers /\ buf[at[w]] \in Contents
  BY DEF ServiceInv, TypeInv, InPool, Using

(* The memory of the pool, when one buffer is written. *)
LEMMA BufferWritten ==
  ASSUME buf \in [Buffers -> Contents], NEW i \in Buffers, NEW s, buf' = [buf EXCEPT ![i] = s]
  PROVE  /\ buf'[i] = s /\ \A j \in Buffers \ {i} : buf'[j] = buf[j]
         /\ [j \in Buffers |-> Owners(buf'[j])]
              = [[j \in Buffers |-> Owners(buf[j])] EXCEPT ![i] = Owners(s)]
<1>1. buf'[i] = s /\ \A j \in Buffers \ {i} : buf'[j] = buf[j]
  OBVIOUS
<1> QED
  BY <1>1

(* What the steps that write a buffer do. *)
LEMMA RecvDoes ==
  ASSUME ServiceInv, NEW w \in Workers, Recv(w)
  PROVE  \E k \in Nat \ {0} :
           /\ received[w] + k <= sent[w] /\ received[w] + k <= Size
           /\ buf' = [buf EXCEPT ![at[w]] = Filled(buf[at[w]], w, received[w], k)]
           /\ received' = [received EXCEPT ![w] = received[w] + k]
           /\ Goto(w, IF received[w] + k = Size THEN "clean" ELSE "match")
<1>1. PICK k \in 1 .. Room(w) :
        /\ received[w] + k <= sent[w]
        /\ buf' = [buf EXCEPT ![at[w]] = Filled(buf[at[w]], w, received[w], k)]
        /\ received' = [received EXCEPT ![w] = received[w] + k]
        /\ Goto(w, IF received[w] + k = Size THEN "clean" ELSE "match")
  BY DEF Recv, Filled
<1>2. received[w] \in Nat /\ received[w] <= Size /\ Size \in Nat
  BY ServiceAssumption DEF ServiceInv, TypeInv
<1>3. k \in Nat \ {0} /\ received[w] + k <= Size
  BY <1>2 DEF Room
<1> QED
  BY <1>1, <1>3

LEMMA CleanDoes ==
  ASSUME NEW w \in Workers, CleanBuffer(w)
  PROVE  \/ Goto(w, "end") /\ UNCHANGED <<buf, wrapped>>
         \/ /\ Ends(buf[at[w]]) # {}
            /\ buf' = [buf EXCEPT ![at[w]] = Shifted(buf[at[w]])]
            /\ wrapped' = [wrapped EXCEPT ![w] = TRUE]
            /\ Goto(w, "match")
  BY DEF CleanBuffer, Shifted, Leftover

(* Every step of the service is a step of the pool or leaves it alone. *)
LEMMA PoolStep ==
  ASSUME ServiceInv, [Next]_vars
  PROVE  [Pool!Next]_(Pool!vars)
<1>1. CASE UNCHANGED <<buf, poolFlags>>
  BY <1>1 DEF Pool!vars, poolFlags
<1>2. ASSUME NEW w \in Workers, Begin(w) PROVE Pool!Next
  BY <1>2 DEF Begin, Pool!Next
<1>3. ASSUME NEW w \in Workers, ScanBuffers(w) PROVE Pool!Next
  BY <1>3 DEF ScanBuffers, Pool!Next, Pool!Acquire
<1>4. ASSUME NEW w \in Workers, ClearBuffer(w) PROVE Pool!Next
  <2>1. at[w] \in Buffers /\ buf \in [Buffers -> Contents]
    BY DEF ServiceInv, TypeInv
  <2>2. buf' = [buf EXCEPT ![at[w]] = <<>>]
    BY <1>4 DEF ClearBuffer, Cleared
  <2>3. [j \in Buffers |-> Owners(buf'[j])]
          = [[j \in Buffers |-> Owners(buf[j])] EXCEPT ![at[w]] = Owners(<<>>)]
    BY <2>1, <2>2, BufferWritten
  <2>4. Owners(<<>>) = {}
    BY DEF Owners
  <2>5. Pool!Clear(w)
    BY <1>4, <2>3, <2>4 DEF ClearBuffer, Pool!Clear, Pool!Cleared
  <2> QED
    BY <2>5 DEF Pool!Next, Pool!Acquire
<1>5. ASSUME NEW w \in Workers, End(w) PROVE Pool!Next
  BY <1>5 DEF End, Pool!Next
<1>6. ASSUME NEW w \in Workers, Recv(w) PROVE [Pool!Next]_(Pool!vars)
  <2>1. PICK k \in Nat \ {0} : buf' = [buf EXCEPT ![at[w]] = Filled(buf[at[w]], w, received[w], k)]
    BY <1>6, RecvDoes
  <2>2. /\ ppc[w] = "use" /\ at[w] \in Buffers /\ buf[at[w]] \in Contents
        /\ buf \in [Buffers -> Contents] /\ received[w] \in Nat
    BY <1>6, InUse DEF Using, Recv, ServiceInv, TypeInv
  <2> DEFINE new == Filled(buf[at[w]], w, received[w], k)
  <2>3. /\ Len(buf[at[w]]) = Size => new = buf[at[w]]
        /\ Len(buf[at[w]]) < Size => Owners(new) = Owners(buf[at[w]]) \union {w}
    BY <2>2, FilledBuffer
  <2>4. UNCHANGED poolFlags
    BY <1>6 DEF Recv
  <2> HIDE DEF new
  <2>5. CASE Len(buf[at[w]]) = Size
    <3>1. buf' = buf
      BY <2>1, <2>2, <2>3, <2>5 DEF new
    <3> QED
      BY <1>1, <2>4, <3>1
  <2>6. CASE Len(buf[at[w]]) # Size
    <3>1. Len(buf[at[w]]) < Size
      BY <2>2, <2>6, ServiceAssumption DEF Contents
    <3>2. [j \in Buffers |-> Owners(buf'[j])]
            = [[j \in Buffers |-> Owners(buf[j])] EXCEPT ![at[w]] = Owners(new)]
      BY <2>1, <2>2, BufferWritten DEF new
    <3>3. Pool!Receive(w)
      BY <2>2, <2>3, <2>4, <3>1, <3>2 DEF Pool!Receive, poolFlags
    <3> QED
      BY <3>3 DEF Pool!Next
  <2> QED
    BY <2>5, <2>6
<1>7. ASSUME NEW w \in Workers, CleanBuffer(w) PROVE [Pool!Next]_(Pool!vars)
  <2>1. UNCHANGED poolFlags
    BY <1>7 DEF CleanBuffer
  <2>2. CASE UNCHANGED buf
    BY <1>1, <2>1, <2>2
  <2>3. CASE Ends(buf[at[w]]) # {} /\ buf' = [buf EXCEPT ![at[w]] = Shifted(buf[at[w]])]
    <3> DEFINE new == Shifted(buf[at[w]])
    <3>1. /\ ppc[w] = "use" /\ at[w] \in Buffers /\ buf[at[w]] \in Contents
          /\ buf \in [Buffers -> Contents]
      BY <1>7, InUse DEF Using, CleanBuffer, ServiceInv, TypeInv
    <3>2. Owners(new) \subseteq Owners(buf[at[w]])
      BY <2>3, <3>1, CleanedBuffer
    <3>3. [j \in Buffers |-> Owners(buf'[j])]
            = [[j \in Buffers |-> Owners(buf[j])] EXCEPT ![at[w]] = Owners(new)]
      BY <2>3, <3>1, BufferWritten
    <3> HIDE DEF new
    <3>4. Pool!CleanBuffer(w)
      BY <2>1, <3>1, <3>2, <3>3 DEF Pool!CleanBuffer, poolFlags
    <3> QED
      BY <3>4 DEF Pool!Next
  <2> QED
    BY <1>7, <2>2, <2>3, CleanDoes
<1> QED
  BY <1>1, <1>2, <1>3, <1>4, <1>5, <1>6, <1>7
     DEF Next, WorkerStep, Send, HangUp, RecvNothing, NoRequest, ProcessPOST, ProcessGET,
         LeavePage, DrainPermit, PollReady, PollTimeout, vars, poolFlags

-----------------------------------------------------------------------------
LEMMA SamePool ==
  /\ Pool!Init <=> PoolProofs!Init
  /\ [Pool!Next]_(Pool!vars) <=> [PoolProofs!Next]_(PoolProofs!vars)
<1>1. Pool!Init <=> PoolProofs!Init
  BY DEF Pool!Init, PoolProofs!Init, Pool!Buffers, PoolProofs!Buffers
<1>2. Pool!vars = PoolProofs!vars /\ (Pool!vars)' = (PoolProofs!vars)'
  BY DEF Pool!vars, PoolProofs!vars
<1>3. Pool!Next <=> PoolProofs!Next
  <2>1. ASSUME NEW t PROVE Pool!GetBuffer(t) <=> PoolProofs!GetBuffer(t)
    BY DEF Pool!GetBuffer, PoolProofs!GetBuffer
  <2>2. ASSUME NEW t PROVE Pool!Acquire(t) <=> PoolProofs!Acquire(t)
    BY DEF Pool!Acquire, PoolProofs!Acquire, Pool!SkipBusy, PoolProofs!SkipBusy,
           Pool!SeeFree, PoolProofs!SeeFree, Pool!Claim, PoolProofs!Claim,
           Pool!Clear, PoolProofs!Clear, Pool!NextBuffer, PoolProofs!NextBuffer,
           Pool!Cleared, PoolProofs!Cleared
  <2>3. ASSUME NEW t PROVE Pool!Receive(t) <=> PoolProofs!Receive(t)
    BY DEF Pool!Receive, PoolProofs!Receive
  <2>4. ASSUME NEW t PROVE Pool!CleanBuffer(t) <=> PoolProofs!CleanBuffer(t)
    BY DEF Pool!CleanBuffer, PoolProofs!CleanBuffer
  <2>5. ASSUME NEW t PROVE Pool!Release(t) <=> PoolProofs!Release(t)
    BY DEF Pool!Release, PoolProofs!Release, Pool!FlagOf, PoolProofs!FlagOf
  <2> QED
    BY <2>1, <2>2, <2>3, <2>4, <2>5 DEF Pool!Next, PoolProofs!Next
<1> QED
  BY <1>1, <1>2, <1>3

LEMMA PoolTypes ==
  ASSUME ServiceInv, [Next]_vars
  PROVE  /\ busy' \in [Buffers -> BOOLEAN] /\ at' \in [Workers -> Buffers] /\ overlap' \in BOOLEAN
         /\ ppc' \in [Workers -> {"idle", "scan", "claim", "clear", "use"}]
<1>1. [PoolProofs!Next]_(PoolProofs!vars)
  BY PoolStep, SamePool
<1>2. PoolProofs!TypeOK
  <2>1. PoolProofs!Buffers = Buffers
    BY DEF PoolProofs!Buffers, Buffers
  <2>2. [i \in Buffers |-> Owners(buf[i])] \in [Buffers -> SUBSET Workers]
    BY OwnersType DEF ServiceInv, TypeInv, Contents
  <2> QED
    BY <2>1, <2>2 DEF ServiceInv, TypeInv, PoolProofs!TypeOK
<1>3. N \in Nat \ {0}
  BY ServiceAssumption
<1>4. PoolProofs!TypeOK'
  BY <1>1, <1>2, <1>3, PoolProofs!TypeNext
<1> QED
  BY <1>4 DEF PoolProofs!TypeOK, PoolProofs!Buffers, Buffers

(* The buffer that is searched and what is found in it. *)
LEMMA FoundRequest ==
  ASSUME NEW s \in Contents, Asked(s) # "nothing"
  PROVE  First(s) \in Matches(s) /\ First(s) \in 1 .. Len(s) /\ s[First(s)] \in PieceSet
<1>1. Matches(s) # {} /\ s \in Seq(PieceSet)
  BY DEF Asked, Contents
<1>2. First(s) \in Matches(s)
  BY <1>1, FirstFound
<1> QED
  BY <1>1, <1>2 DEF Matches, Lines

(* The places a worker goes to within its use of a buffer. *)
LEMMA WithinUse ==
  ASSUME ServiceInv, NEW w \in Workers, NEW l \in Using, wpc[w] \in Using, Goto(w, l), UNCHANGED ppc
  PROVE  wpc' \in [Workers -> Labels] /\ \A v \in Workers : InPool(v)'
<1>1. wpc' \in [Workers -> Labels] /\ \A v \in Workers : wpc'[v] = IF v = w THEN l ELSE wpc[v]
  BY DEF Goto, Labels, ServiceInv, TypeInv
<1>2. \A v \in Workers : InPool(v)
  BY DEF ServiceInv
<1> QED
  BY <1>1, <1>2 DEF InPool, Using

(* The one step that answers. *)
Said(w, s, status) ==
  LET p == s[First(s)]
  IN [worker |-> p.worker, number |-> p.number, status |-> status,
      whole |-> 2 * p.number <= received[p.worker]]

LEMMA GetDoes ==
  ASSUME ServiceInv, NEW w \in Workers, ProcessGET(w)
  PROVE  LET s == buf[at[w]] IN
         /\ UNCHANGED <<conv, received, wrapped, overlap>>
         /\ wpc[w] = "match" /\ Asked(s) = "GET"
         /\ ppc[w] = "use" /\ s \in Contents
         /\ \/ replies' = replies
            \/ \E st \in Statuses : /\ st = Status(s) \/ (st = "not found" /\ Status(s) = "ok")
                                   /\ replies' = [replies EXCEPT ![w] = Append(@, Said(w, s, st))]
         /\ \E l \in {"leave", "unwind", "end"} : Goto(w, l)
<1> DEFINE s == buf[at[w]]
<1>1. ppc[w] = "use" /\ s \in Contents
  BY InUse DEF ProcessGET, Using
<1>2. Status(s) \in Statuses /\ "ok" \in Statuses /\ "not found" \in Statuses
  BY DEF Status, Statuses
<1>3. \A st : Answers(w, s[First(s)], st) => replies' = [replies EXCEPT ![w] = Append(@, Said(w, s, st))]
  BY DEF Answers, Said
<1> HIDE DEF s
<1> QED
  BY <1>1, <1>2, <1>3 DEF ProcessGET, client, poolFlags, s

LEMMA ServiceInit == Init => ServiceInv
<1> SUFFICES ASSUME Init PROVE ServiceInv
  OBVIOUS
<1>1. 0 \in Buffers /\ Size \in Nat
  BY ServiceAssumption DEF Buffers
<1>2. <<>> \in Contents /\ <<>> \in Seq(Reply)
  BY <1>1 DEF Contents
<1>3. Pool!Init
  BY DEF Init
<1>4. \A w \in Workers : Len(conv[w]) \in Nat
  <2>1. \A w \in Workers : conv[w] \in Seq(ToSet(conv[w]))
    BY ServiceAssumption DEF Init
  <2> HIDE DEF ToSet
  <2> QED
    BY <2>1
<1>5. \A w \in Workers : 0 <= 2 * Len(conv[w])
  <2> SUFFICES ASSUME NEW w \in Workers PROVE 0 <= 2 * Len(conv[w])
    OBVIOUS
  <2>1. Len(conv[w]) \in Nat
    BY <1>4
  <2> QED
    BY <2>1
<1>b. 0 <= Size /\ 0 <= 0 /\ 0 \in Nat
  BY <1>1
<1>c. /\ busy \in [Buffers -> BOOLEAN] /\ at \in [Workers -> Buffers] /\ overlap \in BOOLEAN
      /\ ppc \in [Workers -> {"idle", "scan", "claim", "clear", "use"}]
  BY <1>1, <1>3 DEF Pool!Init, Pool!Buffers, Buffers
<1>d. /\ sent \in [Workers -> Nat] /\ received \in [Workers -> Nat]
      /\ \A w \in Workers : sent[w] = 0 /\ received[w] = 0
      /\ \A w \in Workers : conv[w] \in Conversations[w]
  BY DEF Init
<1>e. /\ buf \in [Buffers -> Contents] /\ replies \in [Workers -> Seq(Reply)]
      /\ wpc \in [Workers -> Labels] /\ polls \in [Workers -> {"in", "out"}]
      /\ wrapped \in [Workers -> BOOLEAN]
  BY <1>2 DEF Init, Labels
<1>6. TypeInv
  BY <1>5, <1>b, <1>c, <1>d, <1>e DEF TypeInv
<1>7. \A w \in Workers : InPool(w)
  BY <1>3 DEF Init, InPool, Pool!Init
<1> QED
  BY <1>6, <1>7 DEF ServiceInv

LEMMA ServiceNext == ServiceInv /\ [Next]_vars => ServiceInv'
<1> SUFFICES ASSUME ServiceInv, [Next]_vars PROVE ServiceInv'
  OBVIOUS
<1> USE DEF ServiceInv
<1>a. /\ busy' \in [Buffers -> BOOLEAN] /\ at' \in [Workers -> Buffers] /\ overlap' \in BOOLEAN
      /\ ppc' \in [Workers -> {"idle", "scan", "claim", "clear", "use"}]
  BY PoolTypes
<1>b. Size \in Nat
  BY ServiceAssumption
<1>1. ASSUME NEW w \in Workers, Send(w) PROVE ServiceInv'
  <2>1. sent' \in [Workers -> Nat] /\ \A v \in Workers : sent[v] <= sent'[v] /\ sent'[v] <= 2 * Len(conv[v])
    BY <1>1, ConvLength DEF Send, TypeInv
  <2>2. \A v \in Workers : received[v] <= sent'[v]
    BY <2>1 DEF TypeInv
  <2> QED
    BY <1>1, <2>1, <2>2 DEF Send, TypeInv, InPool, poolFlags, worker
<1>2. ASSUME NEW w \in Workers, HangUp(w) PROVE ServiceInv'
  BY <1>2 DEF HangUp, TypeInv, InPool, poolFlags, worker
<1>3. ASSUME NEW w \in Workers, Begin(w) PROVE ServiceInv'
  <2>1. /\ wpc' = [wpc EXCEPT ![w] = "buffer"] /\ ppc' = [ppc EXCEPT ![w] = "scan"]
        /\ UNCHANGED <<client, received, polls, replies, wrapped, buf>>
    BY <1>3 DEF Begin, Goto, Pool!GetBuffer
  <2> QED
    BY <1>a, <2>1 DEF TypeInv, InPool, client, Labels
<1>4. ASSUME NEW w \in Workers, ScanBuffers(w) PROVE ServiceInv'
  <2>1. UNCHANGED <<client, worker, buf>>
    BY <1>4 DEF ScanBuffers
  <2>2. /\ ppc[w] \in {"scan", "claim"} /\ ppc'[w] \in {"scan", "claim", "clear"}
        /\ \A v \in Workers \ {w} : ppc'[v] = ppc[v]
    BY <1>4 DEF ScanBuffers, TypeInv, Pool!SkipBusy, Pool!SeeFree, Pool!Claim
  <2> QED
    BY <1>a, <2>1, <2>2 DEF TypeInv, InPool, client, worker
<1>5. ASSUME NEW w \in Workers, ClearBuffer(w) PROVE ServiceInv'
  <2>1. /\ wpc' = [wpc EXCEPT ![w] = "recv"] /\ ppc' = [ppc EXCEPT ![w] = "use"] /\ ppc[w] = "clear"
        /\ UNCHANGED <<client, received, polls, replies, wrapped>>
        /\ buf' = [buf EXCEPT ![at[w]] = <<>>]
    BY <1>5 DEF ClearBuffer, Goto, Cleared
  <2>2. <<>> \in Contents
    BY <1>b DEF Contents
  <2>3. buf' \in [Buffers -> Contents]
    BY <2>1, <2>2 DEF TypeInv
  <2>4. wpc' \in [Workers -> Labels]
    BY <2>1 DEF TypeInv, Labels, Using
  <2>5. TypeInv'
    BY <1>a, <2>1, <2>3, <2>4 DEF TypeInv, client
  <2>6. \A v \in Workers : InPool(v)'
    BY <2>1 DEF InPool, TypeInv, Using
  <2> QED
    BY <2>5, <2>6
<1>6. ASSUME NEW w \in Workers, End(w) PROVE ServiceInv'
  <2>1. /\ wpc' = [wpc EXCEPT ![w] = "done"] /\ ppc' = [ppc EXCEPT ![w] = "idle"]
        /\ UNCHANGED <<client, received, polls, replies, wrapped, buf>>
    BY <1>6 DEF End, Goto, Pool!Release
  <2> QED
    BY <1>a, <2>1 DEF TypeInv, InPool, client, Labels
<1>7. ASSUME NEW w \in Workers, Recv(w) PROVE ServiceInv'
  <2>1. PICK k \in Nat \ {0} :
          /\ received[w] + k <= sent[w] /\ received[w] + k <= Size
          /\ buf' = [buf EXCEPT ![at[w]] = Filled(buf[at[w]], w, received[w], k)]
          /\ received' = [received EXCEPT ![w] = received[w] + k]
          /\ Goto(w, IF received[w] + k = Size THEN "clean" ELSE "match")
    BY <1>7, RecvDoes
  <2>2. UNCHANGED <<client, poolFlags, polls, replies, wrapped>> /\ wpc[w] = "recv"
    BY <1>7 DEF Recv
  <2>3. wpc' \in [Workers -> Labels] /\ \A v \in Workers : InPool(v)'
    BY <2>1, <2>2, WithinUse DEF poolFlags, Using
  <2>4. buf' \in [Buffers -> Contents]
    <3>1. Filled(buf[at[w]], w, received[w], k) \in Contents
      BY <2>2, InUse, FilledBuffer DEF TypeInv, Using
    <3> QED
      BY <2>1, <3>1 DEF TypeInv
  <2>5. received' \in [Workers -> Nat] /\ \A v \in Workers : received'[v] <= sent[v] /\ received'[v] <= Size
    BY <2>1 DEF TypeInv
  <2> QED
    BY <1>a, <2>2, <2>3, <2>4, <2>5 DEF TypeInv, client
<1>8. ASSUME NEW w \in Workers, CleanBuffer(w) PROVE ServiceInv'
  <2>1. UNCHANGED <<client, poolFlags, received, polls, replies>> /\ wpc[w] = "clean"
    BY <1>8 DEF CleanBuffer
  <2>2. wpc' \in [Workers -> Labels] /\ \A v \in Workers : InPool(v)'
    BY <1>8, <2>1, CleanDoes, WithinUse DEF poolFlags, Using
  <2>3. buf' \in [Buffers -> Contents] /\ wrapped' \in [Workers -> BOOLEAN]
    <3>1. Ends(buf[at[w]]) # {} => Shifted(buf[at[w]]) \in Contents
      BY <2>1, InUse, CleanedBuffer DEF Using
    <3> QED
      BY <1>8, <3>1, CleanDoes DEF TypeInv
  <2> QED
    BY <1>a, <2>1, <2>2, <2>3 DEF TypeInv, client
<1>9. ASSUME NEW w \in Workers,
             RecvNothing(w) \/ NoRequest(w) \/ ProcessPOST(w) \/ LeavePage(w) \/ PollReady(w)
               \/ PollTimeout(w)
      PROVE  ServiceInv'
  <2>1. /\ UNCHANGED <<client, poolFlags, buf, received, polls, replies, wrapped>>
        /\ wpc[w] \in Using /\ \E l \in Using : Goto(w, l)
    BY <1>9 DEF RecvNothing, NoRequest, ProcessPOST, LeavePage, AfterReply, PollReady, PollTimeout,
                Using
  <2>2. wpc' \in [Workers -> Labels] /\ \A v \in Workers : InPool(v)'
    BY <2>1, WithinUse DEF poolFlags, Using
  <2> QED
    BY <1>a, <2>1, <2>2 DEF TypeInv, client
<1>10. ASSUME NEW w \in Workers, ProcessGET(w) PROVE ServiceInv'
  <2> DEFINE s == buf[at[w]]
  <2>1. /\ UNCHANGED <<client, poolFlags, buf, received, wrapped>> /\ wpc[w] = "match"
        /\ s \in Contents
        /\ polls' = [polls EXCEPT ![w] = "out"]
        /\ \E l \in Using : Goto(w, l)
        /\ \/ replies' = replies
           \/ \E st \in Statuses : replies' = [replies EXCEPT ![w] = Append(@, Said(w, s, st))]
    BY <1>10, GetDoes DEF ProcessGET, Using
  <2>2. Asked(s) = "GET"
    BY <1>10 DEF ProcessGET
  <2> HIDE DEF s
  <2>3. ASSUME NEW st \in Statuses PROVE Said(w, s, st) \in Reply
    <3>1. s[First(s)] \in PieceSet
      BY <2>1, <2>2, FoundRequest
    <3>2. (2 * s[First(s)].number <= received[s[First(s)].worker]) \in BOOLEAN
      OBVIOUS
    <3> QED
      BY <3>1, <3>2 DEF PieceSet, Reply, Said
  <2>4. replies' \in [Workers -> Seq(Reply)]
    <3>1. \A st \in Statuses : Append(replies[w], Said(w, s, st)) \in Seq(Reply)
      BY <2>3 DEF TypeInv
    <3> QED
      BY <2>1, <3>1 DEF TypeInv
  <2>5. wpc' \in [Workers -> Labels] /\ \A v \in Workers : InPool(v)'
    BY <2>1, WithinUse DEF poolFlags, Using
  <2>6. polls' \in [Workers -> {"in", "out"}]
    BY <2>1 DEF TypeInv
  <2> QED
    BY <1>a, <2>1, <2>4, <2>5, <2>6 DEF TypeInv, client
<1>11. CASE UNCHANGED vars
  BY <1>11 DEF TypeInv, InPool, vars, client, poolFlags, worker
<1>12. ASSUME NEW f \in PageFiles, DrainPermit(f) PROVE ServiceInv'
  BY <1>12 DEF DrainPermit, TypeInv, InPool, client, poolFlags, worker
<1> QED
  BY <1>1, <1>2, <1>3, <1>4, <1>5, <1>6, <1>7, <1>8, <1>9, <1>10, <1>11, <1>12
     DEF Next, WorkerStep

LEMMA ServiceAlways == Spec => []ServiceInv
  BY ServiceInit, ServiceNext, PTL DEF Spec

(* The workers use the pool as its specification allows: every step of a    *)
(* worker is a step of the thread that has, scans for or releases a buffer  *)
(* there, or does not touch the pool.                                      *)
THEOREM UsesPool == Spec => PoolSpec
<1>1. Init => Pool!Init
  BY DEF Init
<1>2. ServiceInv /\ [Next]_vars => [Pool!Next]_(Pool!vars)
  BY PoolStep
<1> QED
  BY <1>1, <1>2, ServiceAlways, PTL DEF Spec, PoolSpec, Pool!Spec

-----------------------------------------------------------------------------
(* What the pool promises, in terms of the workers. *)
Alone ==
  ~overlap => \A v, w \in Workers :
    ppc[v] \in {"clear", "use"} /\ ppc[w] \in {"clear", "use"} /\ at[v] = at[w] => v = w

OwnPieces ==
  ~overlap => \A w \in Workers :
    ppc[w] = "use" => \A j \in DOMAIN buf[at[w]] : buf[at[w]][j].worker = w

LEMMA PoolPromises == Spec => [](Alone /\ OwnPieces)
<1>1. N \in Nat \ {0}
  BY ServiceAssumption
<1>2. PoolProofs!Spec => []PoolProofs!OwnBytesUnlessOverlap
  BY <1>1, PoolProofs!OwnBytesButForOverlap
<1>3. PoolProofs!Spec => []PoolProofs!ExclusiveUnlessOverlap
  BY <1>1, PoolProofs!ExclusiveButForOverlap
<1>4. ServiceInv /\ PoolProofs!OwnBytesUnlessOverlap => OwnPieces
  <2> SUFFICES ASSUME ServiceInv, PoolProofs!OwnBytesUnlessOverlap, ~overlap,
                      NEW w \in Workers, ppc[w] = "use", NEW j \in DOMAIN buf[at[w]]
               PROVE  buf[at[w]][j].worker = w
    BY DEF OwnPieces
  <2>1. at[w] \in Buffers
    BY DEF ServiceInv, TypeInv
  <2>2. Owners(buf[at[w]]) \subseteq {w}
    BY <2>1 DEF PoolProofs!OwnBytesUnlessOverlap
  <2> QED
    BY <2>2 DEF Owners
<1>5. ServiceInv /\ PoolProofs!ExclusiveUnlessOverlap => Alone
  <2> SUFFICES ASSUME ServiceInv, PoolProofs!ExclusiveUnlessOverlap, ~overlap,
                      NEW v \in Workers, NEW w \in Workers,
                      ppc[v] \in {"clear", "use"}, ppc[w] \in {"clear", "use"}, at[v] = at[w]
               PROVE  v = w
    BY DEF Alone
  <2>1. at[w] \in Buffers
    BY DEF ServiceInv, TypeInv
  <2> QED
    BY <2>1 DEF PoolProofs!ExclusiveUnlessOverlap, PoolProofs!Holders, PoolProofs!Buffers, Buffers
<1> QED
  BY <1>2, <1>3, <1>4, <1>5, SamePool, ServiceAlways, UsesPool, PTL
  DEF PoolSpec, Pool!Spec, PoolProofs!Spec

-----------------------------------------------------------------------------
(* The first n pieces of what the client of w sends. *)
Stream(w, n) == [j \in 1 .. n |-> Piece(w, j)]

LEMMA StreamShape ==
  ASSUME NEW w \in Workers, NEW n \in Nat
  PROVE  /\ Stream(w, n) \in Seq(PieceSet) /\ Len(Stream(w, n)) = n
         /\ \A j \in 1 .. n : Stream(w, n)[j] = Piece(w, j)
<1>1. \A j \in 1 .. n : Piece(w, j) \in PieceSet
  BY PieceType
<1> QED
  BY <1>1 DEF Stream

LEMMA StreamGrows ==
  ASSUME NEW w \in Workers, NEW n \in Nat, NEW k \in Nat \ {0}, n + k <= Size
  PROVE  Filled(Stream(w, n), w, n, k) = Stream(w, n + k)
<1> DEFINE s == Stream(w, n)
           new == [j \in 1 .. k |-> Piece(w, n + j)]
           all == s \o new
<1>a. Size \in Nat
  BY ServiceAssumption
<1>b. s \in Seq(PieceSet) /\ Len(s) = n /\ \A j \in 1 .. n : s[j] = Piece(w, j)
  BY StreamShape
<1>c. new \in Seq(PieceSet) /\ Len(new) = k /\ \A j \in 1 .. k : new[j] = Piece(w, n + j)
  <2>1. \A j \in 1 .. k : Piece(w, n + j) \in PieceSet
    BY PieceType
  <2> QED
    BY <2>1
<1>d. Filled(s, w, n, k) = IF Len(all) > Size THEN SubSeq(all, 1, Size) ELSE all
  BY DEF Filled
<1> HIDE DEF s, new
<1>e. /\ all \in Seq(PieceSet) /\ Len(all) = Len(s) + Len(new)
      /\ \A j \in 1 .. Len(s) : all[j] = s[j]
      /\ \A j \in Len(s) + 1 .. Len(s) + Len(new) : all[j] = new[j - Len(s)]
  BY ONLY <1>b, <1>c, Joined
<1> HIDE DEF all
<1>1. Len(all) = n + k /\ Filled(s, w, n, k) = all
  BY <1>a, <1>b, <1>c, <1>d, <1>e
<1>2. ASSUME NEW j \in 1 .. n + k PROVE all[j] = Piece(w, j)
  <2>1. CASE j <= n
    BY <1>b, <1>e, <2>1
  <2>2. CASE j > n
    <3>1. j - n \in 1 .. k /\ n + (j - n) = j
      BY <2>2
    <3>2. all[j] = new[j - n]
      BY <1>b, <1>c, <1>e, <2>2
    <3> QED
      BY <1>c, <3>1, <3>2
  <2> QED
    BY <2>1, <2>2
<1>3. all = Stream(w, n + k)
  <2>1. n + k \in Nat
    OBVIOUS
  <2>2. /\ Stream(w, n + k) \in Seq(PieceSet) /\ Len(Stream(w, n + k)) = n + k
        /\ \A j \in 1 .. n + k : Stream(w, n + k)[j] = Piece(w, j)
    BY <2>1, StreamShape
  <2> DEFINE str == Stream(w, n + k)
  <2>3. /\ all \in Seq(PieceSet) /\ str \in Seq(PieceSet) /\ Len(all) = n + k /\ Len(str) = n + k
        /\ \A j \in 1 .. n + k : all[j] = str[j]
    BY <1>e, <1>1, <1>2, <2>2
  <2> HIDE DEF str
  <2>4. all = str
    BY ONLY <2>3
  <2> QED
    BY <2>4 DEF str
<1> QED
  BY <1>1, <1>3 DEF s

LEMMA PieceParts ==
  ASSUME NEW w, NEW k \in Nat
  PROVE  /\ Piece(w, k).worker = w
         /\ Piece(w, k).part = 2 <=> k % 2 = 0
         /\ Piece(w, k).part = 1 => 2 * Piece(w, k).number = k + 1
<1>1. k % 2 \in {0, 1} /\ (2 - (k % 2) = 2 <=> k % 2 = 0) /\ (2 - (k % 2) = 1 <=> k % 2 = 1)
  OBVIOUS
<1>2. k % 2 = 1 => 2 * ((k + 1) \div 2) = k + 1
  OBVIOUS
<1> QED
  BY <1>1, <1>2 DEF Piece

LEMMA StreamEnds ==
  ASSUME NEW w \in Workers, NEW n \in Nat
  PROVE  /\ Ends(Stream(w, n)) = {k \in 1 .. n : k % 2 = 0}
         /\ Lines(Stream(w, n)) = {k \in 1 .. n : Piece(w, k).part = 1}
<1>1. /\ DOMAIN Stream(w, n) = 1 .. n
      /\ \A j \in 1 .. n : Stream(w, n)[j] = Piece(w, j) /\ (Piece(w, j).part = 2 <=> j % 2 = 0)
  BY StreamShape, PieceParts
<1> QED
  BY <1>1 DEF Ends, Lines

(* A request that is found in what its client has sent from the start has   *)
(* been received to its end.                                               *)
LEMMA StreamMatch ==
  ASSUME NEW w \in Workers, NEW n \in Nat, Asked(Stream(w, n)) # "nothing"
  PROVE  LET p == Stream(w, n)[First(Stream(w, n))]
         IN p.worker = w /\ p.part = 1 /\ 2 * p.number <= n
<1> DEFINE s == Stream(w, n)
           f == First(s)
<1>1. Matches(s) # {} /\ s \in Seq(PieceSet)
  BY StreamShape DEF Asked
<1>2. f \in Matches(s)
  BY <1>1, FirstFound
<1>3. f \in 1 .. n /\ Piece(w, f).part = 1 /\ \E e \in 1 .. n : e > f
  BY <1>2, StreamEnds DEF Matches
<1>4. s[f] = Piece(w, f)
  BY <1>3, StreamShape
<1>5. Piece(w, f).worker = w /\ 2 * Piece(w, f).number = f + 1
  BY <1>3, PieceParts
<1> QED
  BY <1>3, <1>4, <1>5

(* As long as a worker has its buffer for itself, and has not cleaned it or *)
(* its client sends a single request, the buffer has all that was received, *)
(* in order.                                                               *)
Intact(w) == ~wrapped[w] \/ Len(conv[w]) = 1

Streams(w) ==
  /\ wpc[w] \in {"begin", "buffer"} => received[w] = 0
  /\ ~overlap /\ ppc[w] = "use" /\ Intact(w) => buf[at[w]] = Stream(w, received[w])

StreamInv == \A w \in Workers : Streams(w)

LEMMA StreamInit == Init => StreamInv
  BY DEF Init, StreamInv, Streams, Pool!Init

(* A single request is at most two pieces. *)
LEMMA SingleIsShort ==
  ASSUME ServiceInv, NEW w \in Workers, Len(conv[w]) = 1
  PROVE  received[w] \in 0 .. 2 /\ sent[w] \in 0 .. 2
<1>1. received[w] \in Nat /\ sent[w] \in Nat /\ received[w] <= sent[w] /\ sent[w] <= 2 * Len(conv[w])
  BY DEF ServiceInv, TypeInv
<1>2. 2 * Len(conv[w]) = 2
  OBVIOUS
<1>3. sent[w] <= 2
  BY ONLY <1>1, <1>2
<1> QED
  BY ONLY <1>1, <1>3

LEMMA OverlapStays == [Next]_vars /\ ServiceInv => (overlap => overlap')
<1> SUFFICES ASSUME [Next]_vars, ServiceInv, overlap PROVE overlap'
  OBVIOUS
<1>1. CASE UNCHANGED overlap
  BY <1>1
<1>2. ASSUME NEW w, ScanBuffers(w) PROVE overlap'
  BY <1>2 DEF ScanBuffers, Pool!SkipBusy, Pool!SeeFree, Pool!Claim
<1> QED
  BY <1>1, <1>2 DEF Next, WorkerStep, Send, HangUp, Begin, ClearBuffer, End, Recv, RecvNothing,
     CleanBuffer, NoRequest, ProcessPOST, ProcessGET, LeavePage, DrainPermit, PollReady,
     PollTimeout, vars, poolFlags,
     Pool!GetBuffer, Pool!Release

(* What w writes into its buffer does not reach the buffers of others. *)
LEMMA OthersKept ==
  ASSUME ServiceInv, Alone, ~overlap, NEW w \in Workers, ppc[w] \in {"clear", "use"},
         NEW s, buf' = [buf EXCEPT ![at[w]] = s], NEW v \in Workers \ {w}, ppc[v] = "use"
  PROVE  buf'[at[v]] = buf[at[v]]
<1>1. at[v] # at[w] /\ at[v] \in Buffers /\ at[w] \in Buffers /\ buf \in [Buffers -> Contents]
  BY DEF Alone, ServiceInv, TypeInv
<1> QED
  BY <1>1

LEMMA StreamNext == ServiceInv /\ Alone /\ StreamInv /\ [Next]_vars => StreamInv'
<1> SUFFICES ASSUME ServiceInv, Alone, StreamInv, [Next]_vars, NEW v \in Workers PROVE Streams(v)'
  BY DEF StreamInv
<1>a. overlap => overlap'
  BY OverlapStays
<1>b. Streams(v) /\ InPool(v)
  BY DEF StreamInv, ServiceInv
<1>c. /\ ppc \in [Workers -> {"idle", "scan", "claim", "clear", "use"}] /\ wpc \in [Workers -> Labels]
      /\ received \in [Workers -> Nat] /\ wrapped \in [Workers -> BOOLEAN]
      /\ at \in [Workers -> Buffers] /\ buf \in [Buffers -> Contents]
  BY DEF ServiceInv, TypeInv
<1>1. ASSUME UNCHANGED <<conv, received, wrapped, buf, at, ppc>>,
             wpc'[v] \in {"begin", "buffer"} => wpc[v] \in {"begin", "buffer"}
      PROVE  Streams(v)'
  BY <1>a, <1>b, <1>1 DEF Streams, Intact
<1>2. ASSUME NEW w \in Workers, Begin(w) PROVE Streams(v)'
  <2>1. /\ wpc' = [wpc EXCEPT ![w] = "buffer"] /\ ppc' = [ppc EXCEPT ![w] = "scan"]
        /\ at' = [at EXCEPT ![w] = 0] /\ wpc[w] = "begin"
        /\ UNCHANGED <<conv, received, wrapped, buf>>
    BY <1>2 DEF Begin, Goto, Pool!GetBuffer, client
  <2> QED
    BY <1>a, <1>b, <1>c, <2>1 DEF Streams, Intact
<1>3. ASSUME NEW w \in Workers, ScanBuffers(w) PROVE Streams(v)'
  <2>1. UNCHANGED <<conv, received, wrapped, buf, wpc>>
    BY <1>3 DEF ScanBuffers, client, worker
  <2>2. /\ ppc'[w] # "use"
        /\ \A u \in Workers \ {w} : ppc'[u] = ppc[u] /\ at'[u] = at[u]
    BY <1>3, <1>c DEF ScanBuffers, Pool!SkipBusy, Pool!SeeFree, Pool!Claim
  <2> QED
    BY <1>a, <1>b, <2>1, <2>2 DEF Streams, Intact
<1>4. ASSUME NEW w \in Workers, ClearBuffer(w) PROVE Streams(v)'
  <2>1. /\ wpc' = [wpc EXCEPT ![w] = "recv"] /\ ppc' = [ppc EXCEPT ![w] = "use"] /\ ppc[w] = "clear"
        /\ UNCHANGED <<conv, at, overlap, received, wrapped>>
        /\ buf' = [buf EXCEPT ![at[w]] = <<>>]
    BY <1>4 DEF ClearBuffer, Goto, Cleared, client
  <2>2. CASE v = w
    <3>1. received[w] = 0
      BY <1>b, <2>1, <2>2 DEF InPool, Streams
    <3>2. Stream(w, 0) = <<>>
      <4>1. Stream(w, 0) \in Seq(PieceSet) /\ Len(Stream(w, 0)) = 0
        BY StreamShape
      <4> QED
        BY <4>1
    <3>3. buf'[at[w]] = <<>> /\ wpc'[w] = "recv"
      BY <1>c, <2>1
    <3> QED
      BY <2>1, <2>2, <3>1, <3>2, <3>3 DEF Streams
  <2>3. CASE v # w
    <3>1. ppc'[v] = ppc[v] /\ wpc'[v] = wpc[v]
      BY <1>c, <2>1, <2>3
    <3>2. ~overlap /\ ppc[v] = "use" => buf'[at[v]] = buf[at[v]]
      BY <2>1, <2>3, OthersKept
    <3> QED
      BY <1>b, <2>1, <3>1, <3>2 DEF Streams, Intact
  <2> QED
    BY <2>2, <2>3
<1>5. ASSUME NEW w \in Workers, End(w) PROVE Streams(v)'
  <2>1. /\ wpc' = [wpc EXCEPT ![w] = "done"] /\ ppc' = [ppc EXCEPT ![w] = "idle"]
        /\ UNCHANGED <<conv, received, wrapped, buf, at, overlap>>
    BY <1>5 DEF End, Goto, Pool!Release, client
  <2> QED
    BY <1>b, <1>c, <2>1 DEF Streams, Intact
<1>6. ASSUME NEW w \in Workers, Recv(w) PROVE Streams(v)'
  <2>1. PICK k \in Nat \ {0} :
          /\ received[w] + k <= Size
          /\ buf' = [buf EXCEPT ![at[w]] = Filled(buf[at[w]], w, received[w], k)]
          /\ received' = [received EXCEPT ![w] = received[w] + k]
          /\ Goto(w, IF received[w] + k = Size THEN "clean" ELSE "match")
    BY <1>6, RecvDoes
  <2>2. UNCHANGED <<conv, at, ppc, overlap, wrapped>> /\ ppc[w] = "use" /\ wpc[w] = "recv"
    BY <1>6, InUse DEF Using, Recv, client, poolFlags
  <2>3. CASE v = w
    <3>1. /\ buf'[at[w]] = Filled(buf[at[w]], w, received[w], k)
          /\ received'[w] = received[w] + k /\ wpc'[w] \notin {"begin", "buffer"}
      BY <1>c, <2>1 DEF Goto
    <3>2. ~overlap /\ Intact(w) => buf'[at[w]] = Stream(w, received[w] + k)
      BY <1>b, <1>c, <2>1, <2>2, <2>3, <3>1, StreamGrows DEF Streams
    <3> QED
      BY <2>2, <2>3, <3>1, <3>2 DEF Streams, Intact
  <2>4. CASE v # w
    <3>1. received'[v] = received[v] /\ wpc'[v] = wpc[v]
      BY <1>c, <2>1, <2>4 DEF Goto
    <3>2. ~overlap /\ ppc[v] = "use" => buf'[at[v]] = buf[at[v]]
      BY <2>1, <2>2, <2>4, OthersKept
    <3> QED
      BY <1>b, <2>2, <3>1, <3>2 DEF Streams, Intact
  <2> QED
    BY <2>3, <2>4
<1>7. ASSUME NEW w \in Workers, CleanBuffer(w) PROVE Streams(v)'
  <2>1. UNCHANGED <<conv, at, ppc, overlap, received>> /\ ppc[w] = "use" /\ wpc[w] = "clean"
    BY <1>7, InUse DEF Using, CleanBuffer, client, poolFlags
  <2>2. wpc'[v] \in {"begin", "buffer"} => wpc[v] \in {"begin", "buffer"}
    BY <1>7, <1>c, CleanDoes DEF Goto
  <2>3. CASE UNCHANGED <<buf, wrapped>>
    BY <1>1, <2>1, <2>2, <2>3
  <2>4. CASE /\ Ends(buf[at[w]]) # {}
             /\ buf' = [buf EXCEPT ![at[w]] = Shifted(buf[at[w]])]
             /\ wrapped' = [wrapped EXCEPT ![w] = TRUE]
    <3>1. CASE v = w
      <4> SUFFICES ASSUME ~overlap, Len(conv[w]) = 1
                   PROVE  buf'[at[w]] = Stream(w, received[w])
        BY <1>b, <1>c, <2>1, <2>2, <2>4, <3>1 DEF Streams, Intact
      <4>1. buf[at[w]] = Stream(w, received[w])
        BY <1>b, <2>1, <3>1 DEF Streams, Intact
      <4> DEFINE s == Stream(w, received[w])
      <4>2. received[w] \in 0 .. 2
        BY SingleIsShort
      <4>3. s \in Contents /\ Len(s) = received[w]
        BY <1>c, <4>1, StreamShape
      <4>4. \A k \in Ends(s) : k = 2 /\ received[w] = 2
        BY <4>2, StreamEnds
      <4>5. LastEnd(s) = Len(s)
        <5>1. s \in Seq(PieceSet)
          BY <4>3 DEF Contents
        <5>2. LastEnd(s) \in Ends(s)
          BY <2>4, <4>1, <5>1, LastEndFound
        <5> QED
          BY <4>3, <4>4, <5>2
      <4>6. Shifted(s) = s
        BY <2>4, <4>1, <4>3, <4>5, CleanedBuffer
      <4> QED
        BY <1>c, <2>4, <4>1, <4>6
    <3>2. CASE v # w
      <4>1. wrapped'[v] = wrapped[v]
        BY <1>c, <2>4, <3>2
      <4>2. ~overlap /\ ppc[v] = "use" => buf'[at[v]] = buf[at[v]]
        BY <2>1, <2>4, <3>2, OthersKept
      <4> QED
        BY <1>b, <2>1, <2>2, <4>1, <4>2 DEF Streams, Intact
    <3> QED
      BY <3>1, <3>2
  <2> QED
    BY <1>7, <2>3, <2>4, CleanDoes
<1>8. ASSUME NEW w \in Workers,
             RecvNothing(w) \/ NoRequest(w) \/ ProcessPOST(w) \/ ProcessGET(w) \/ LeavePage(w)
               \/ PollReady(w) \/ PollTimeout(w)
      PROVE  Streams(v)'
  <2>1. /\ UNCHANGED <<conv, received, wrapped, buf, at, ppc>>
        /\ \E l \in Using : Goto(w, l)
    BY <1>8 DEF Using, LeavePage, RecvNothing, NoRequest, ProcessPOST, ProcessGET, PollReady, PollTimeout,
                client, poolFlags, AfterReply
  <2>2. wpc'[v] \in {"begin", "buffer"} => wpc[v] \in {"begin", "buffer"}
    BY <1>c, <2>1 DEF Goto, Using
  <2> QED
    BY <1>1, <2>1, <2>2
<1>9. CASE UNCHANGED <<conv, received, wrapped, buf, at, ppc, wpc>>
  BY <1>1, <1>9
<1> QED
  BY <1>2, <1>3, <1>4, <1>5, <1>6, <1>7, <1>8, <1>9
     DEF Next, WorkerStep, Send, HangUp, DrainPermit, vars, client, poolFlags, worker

LEMMA StreamAlways == Spec => []StreamInv
  BY StreamInit, StreamNext, ServiceAlways, PoolPromises, PTL DEF Spec

-----------------------------------------------------------------------------
(* The answers. *)
LEMMA OnlyGetAnswers ==
  ASSUME [Next]_vars, ServiceInv
  PROVE  \/ \E w \in Workers : ProcessGET(w)
         \/ replies' = replies /\ \A w \in Workers : wrapped[w] => wrapped'[w]
<1>1. CASE UNCHANGED <<replies, wrapped>>
  BY <1>1
<1>2. ASSUME NEW w \in Workers, CleanBuffer(w)
      PROVE  replies' = replies /\ \A v \in Workers : wrapped[v] => wrapped'[v]
  <2>1. replies' = replies /\ (wrapped' = wrapped \/ wrapped' = [wrapped EXCEPT ![w] = TRUE])
    BY <1>2, CleanDoes DEF CleanBuffer
  <2>2. wrapped \in [Workers -> BOOLEAN]
    BY DEF ServiceInv, TypeInv
  <2> QED
    BY <2>1, <2>2
<1> QED
  BY <1>1, <1>2 DEF Next, WorkerStep, Send, HangUp, Begin, ScanBuffers, ClearBuffer, End, Recv,
     RecvNothing, NoRequest, ProcessPOST, LeavePage, DrainPermit, PollReady, PollTimeout, vars, worker

LEMMA Appended ==
  ASSUME NEW S, NEW q \in Seq(S), NEW x \in S, NEW k \in DOMAIN Append(q, x)
  PROVE  \/ k \in DOMAIN q /\ Append(q, x)[k] = q[k]
         \/ k = Len(q) + 1 /\ Append(q, x)[k] = x
  OBVIOUS

(* What is answered is the request of the worker's own client, and without  *)
(* a cleaned buffer one of which it has received everything.               *)
LEMMA SaidIsOwn ==
  ASSUME ServiceInv, OwnPieces, StreamInv, ~overlap,
         NEW w \in Workers, ppc[w] = "use", Asked(buf[at[w]]) # "nothing", NEW st \in Statuses
  PROVE  LET x == Said(w, buf[at[w]], st)
         IN x \in Reply /\ x.worker = w /\ (wrapped[w] \/ x.whole)
<1> DEFINE s == buf[at[w]]
           p == s[First(s)]
           x == Said(w, s, st)
<1>1. s \in Contents /\ received[w] \in Nat
  BY DEF ServiceInv, TypeInv
<1>2. First(s) \in 1 .. Len(s) /\ p \in PieceSet
  BY <1>1, FoundRequest
<1>3. p.worker = w
  <2>1. First(s) \in DOMAIN s
    BY <1>1, <1>2 DEF Contents
  <2> QED
    BY <2>1 DEF OwnPieces
<1>4. ASSUME ~wrapped[w] PROVE 2 * p.number <= received[w]
  <2>1. s = Stream(w, received[w])
    BY <1>4 DEF StreamInv, Streams, Intact
  <2> QED
    BY <1>1, <2>1, StreamMatch
<1>6. x = [worker |-> w, number |-> p.number, status |-> st, whole |-> 2 * p.number <= received[w]]
  BY <1>3 DEF Said
<1>7. (2 * p.number <= received[w]) \in BOOLEAN /\ p.number \in Nat
  BY <1>2 DEF PieceSet
<1> HIDE DEF s, p, x
<1>8. x \in Reply /\ x.worker = w /\ (x.whole <=> 2 * p.number <= received[w])
  BY <1>6, <1>7 DEF Reply
<1> QED
  BY <1>4, <1>8 DEF x, s

LEMMA AnswersNext ==
  ASSUME ServiceInv, OwnPieces, StreamInv, OwnWholeAnswers, [Next]_vars
  PROVE  OwnWholeAnswers'
<1> SUFFICES ASSUME ~overlap', NEW v \in Workers, NEW k \in DOMAIN replies'[v]
             PROVE  replies'[v][k].worker = v /\ (wrapped'[v] \/ replies'[v][k].whole)
  BY DEF OwnWholeAnswers
<1>1. ~overlap
  BY OverlapStays
<1>2. ASSUME replies'[v] = replies[v], wrapped[v] => wrapped'[v]
      PROVE  replies'[v][k].worker = v /\ (wrapped'[v] \/ replies'[v][k].whole)
  BY <1>1, <1>2 DEF OwnWholeAnswers
<1>3. ASSUME NEW w \in Workers, ProcessGET(w)
      PROVE  replies'[v][k].worker = v /\ (wrapped'[v] \/ replies'[v][k].whole)
  <2>1. /\ wrapped' = wrapped /\ ppc[w] = "use" /\ Asked(buf[at[w]]) # "nothing"
        /\ \/ replies' = replies
           \/ \E st \in Statuses :
                replies' = [replies EXCEPT ![w] = Append(@, Said(w, buf[at[w]], st))]
    BY <1>3, GetDoes
  <2>2. ASSUME NEW st \in Statuses
        PROVE  LET x == Said(w, buf[at[w]], st)
               IN x \in Reply /\ x.worker = w /\ (wrapped[w] \/ x.whole)
    BY <1>1, <2>1, SaidIsOwn
  <2>3. CASE replies'[v] = replies[v]
    BY <1>2, <2>1, <2>3
  <2>4. ASSUME NEW st \in Statuses,
               v = w /\ replies'[v] = Append(replies[v], Said(w, buf[at[w]], st))
        PROVE  replies'[v][k].worker = v /\ (wrapped'[v] \/ replies'[v][k].whole)
    <3> DEFINE x == Said(w, buf[at[w]], st)
    <3>0. x \in Reply /\ x.worker = w /\ (wrapped[w] \/ x.whole)
      BY <2>2
    <3> HIDE DEF x
    <3>1. replies[v] \in Seq(Reply)
      BY DEF ServiceInv, TypeInv
    <3>2. \/ k \in DOMAIN replies[v] /\ replies'[v][k] = replies[v][k]
          \/ replies'[v][k] = x
      BY <2>4, <3>0, <3>1, Appended DEF x
    <3> QED
      BY <1>1, <2>1, <2>4, <3>0, <3>2 DEF OwnWholeAnswers
  <2>5. replies \in [Workers -> Seq(Reply)]
    BY DEF ServiceInv, TypeInv
  <2> QED
    BY <2>1, <2>3, <2>4, <2>5
<1> QED
  BY <1>2, <1>3, OnlyGetAnswers

(* A client is answered its own requests, and none before it has arrived to *)
(* its end; unless two workers came by one buffer or a buffer was cleaned.  *)
THEOREM AnswersAreOwn == Spec => []OwnWholeAnswers
<1>1. Init => OwnWholeAnswers
  BY DEF Init, OwnWholeAnswers
<1>2. ServiceInv /\ OwnPieces /\ StreamInv /\ OwnWholeAnswers /\ [Next]_vars => OwnWholeAnswers'
  BY AnswersNext
<1> QED
  BY <1>1, <1>2, ServiceAlways, PoolPromises, StreamAlways, PTL DEF Spec

-----------------------------------------------------------------------------
(* A client that sends a single request. *)
RightStatus(r) ==
  IF r.connection = "none" THEN "bad request"
  ELSE IF r.uri \in Pages THEN "ok" ELSE "not found"

Fits(r, status) ==
  status = RightStatus(r) \/ (RightStatus(r) = "ok" /\ status = "not found")

(* Once it is answered everything has been received, so that no recv gets   *)
(* its worker back to where an answer is given.                            *)
Answering == {"leave", "unwind", "poll", "recv", "end", "done"}

Answered(w) ==
  /\ received[w] = 2 /\ wpc[w] \in Answering
  /\ Len(replies[w]) = 1 /\ conv[w][1].method = "GET"
  /\ Fits(conv[w][1], replies[w][1].status)

Single(w) == ~overlap /\ Len(conv[w]) = 1 => replies[w] = <<>> \/ Answered(w)

SingleInv == \A w \in Workers : Single(w)

(* What is found in all that such a client sends. *)
LEMMA SingleFound ==
  ASSUME ServiceInv, NEW w \in Workers, NEW n \in 0 .. 2, Asked(Stream(w, n)) # "nothing"
  PROVE  /\ n = 2 /\ Asked(Stream(w, n)) = conv[w][1].method
         /\ Status(Stream(w, n)) = RightStatus(conv[w][1])
<1> DEFINE s == Stream(w, n)
           r == conv[w][1]
<1>1. /\ s \in Seq(PieceSet) /\ Len(s) = n
      /\ \A j \in 1 .. n : s[j] = Piece(w, j)
  BY StreamShape
<1>2. Ends(s) = {k \in 1 .. n : k % 2 = 0}
  BY StreamEnds
<1>3. First(s) \in Lines(s) /\ (\E e \in Ends(s) : e > First(s)) /\ Matches(s) # {}
  <2>1. Matches(s) # {}
    BY DEF Asked
  <2> QED
    BY <1>1, <2>1, FirstFound DEF Matches
<1>4. First(s) \in 1 .. n
  BY <1>1, <1>3 DEF Lines
<1> HIDE DEF s
<1>5. n = 2 /\ First(s) = 1 /\ Ends(s) = {2}
  BY <1>2, <1>3, <1>4
<1>6. Request(s[1]) = r /\ Request(s[2]) = r
  <2>1. (1 + 1) \div 2 = 1 /\ (2 + 1) \div 2 = 1
    OBVIOUS
  <2>2. s[1] = Piece(w, 1) /\ s[2] = Piece(w, 2)
    BY <1>1, <1>5
  <2> QED
    BY <2>1, <2>2 DEF Piece, Request
<1> HIDE DEF r
<1>7. Asked(s) = r.method
  BY <1>3, <1>5, <1>6 DEF Asked
<1>8. Connection(s) = r.connection
  <2>1. CASE r.connection = "none"
    <3>1. Headers(s) = {}
      BY <1>5, <1>6, <2>1 DEF Headers
    <3> QED
      BY <2>1, <3>1 DEF Connection
  <2>2. CASE r.connection # "none"
    <3>1. Headers(s) = {2}
      BY <1>5, <1>6, <2>2 DEF Headers
    <3>2. (CHOOSE k \in Headers(s) : \A j \in Headers(s) : j <= k) = 2
      BY <3>1
    <3> QED
      BY <1>6, <3>1, <3>2 DEF Connection
  <2> QED
    BY <2>1, <2>2
<1>9. Status(s) = RightStatus(r)
  BY <1>5, <1>6, <1>8 DEF Status, RightStatus
<1> QED
  BY <1>5, <1>7, <1>9 DEF s, r

LEMMA SingleStep ==
  ASSUME ServiceInv, StreamInv, [Next]_vars, NEW v \in Workers, Single(v), NEW w \in Workers,
         ProcessGET(w)
  PROVE  Single(v)'
<1>1. /\ UNCHANGED <<conv, received, overlap>> /\ wpc[w] = "match"
      /\ Asked(buf[at[w]]) = "GET" /\ ppc[w] = "use"
      /\ \/ replies' = replies
         \/ \E st \in Statuses :
              /\ st = Status(buf[at[w]]) \/ (st = "not found" /\ Status(buf[at[w]]) = "ok")
              /\ replies' = [replies EXCEPT ![w] = Append(@, Said(w, buf[at[w]], st))]
      /\ \E l \in {"leave", "unwind", "end"} : Goto(w, l)
  BY GetDoes
<1>2. replies \in [Workers -> Seq(Reply)] /\ wpc \in [Workers -> Labels]
  BY DEF ServiceInv, TypeInv
<1>3. CASE v # w
  BY <1>1, <1>2, <1>3 DEF Single, Answered, Goto, Fits, RightStatus
<1>4. CASE v = w
  <2> SUFFICES ASSUME ~overlap, Len(conv[w]) = 1 PROVE replies'[w] = <<>> \/ Answered(w)'
    BY <1>1, <1>4 DEF Single
  <2>1. replies[w] = <<>>
    BY <1>1, <1>4 DEF Single, Answered, Answering
  <2>2. buf[at[w]] = Stream(w, received[w]) /\ received[w] \in 0 .. 2
    BY <1>1, SingleIsShort DEF StreamInv, Streams, Intact
  <2> DEFINE s == Stream(w, received[w])
  <2>3. received[w] = 2 /\ conv[w][1].method = "GET" /\ Status(s) = RightStatus(conv[w][1])
    <3>1. Asked(s) = "GET"
      BY <1>1, <2>2
    <3>2. Asked(s) # "nothing"
      BY <3>1
    <3> HIDE DEF s
    <3>3. received[w] = 2 /\ Asked(s) = conv[w][1].method /\ Status(s) = RightStatus(conv[w][1])
      BY <2>2, <3>2, SingleFound DEF s
    <3> QED
      BY <3>1, <3>3
  <2>4. CASE replies'[w] = replies[w]
    BY <2>1, <2>4
  <2>5. ASSUME NEW st \in Statuses, st = Status(s) \/ (st = "not found" /\ Status(s) = "ok"),
               replies'[w] = Append(replies[w], Said(w, s, st))
        PROVE  Answered(w)'
    <3>1. Len(replies'[w]) = 1 /\ replies'[w][1] = Said(w, s, st)
      <4> DEFINE answer == Said(w, s, st)
      <4>1. replies'[w] = Append(<<>>, answer)
        BY <2>1, <2>5
      <4> HIDE DEF answer
      <4>2. Len(replies'[w]) = 1 /\ replies'[w][1] = answer
        BY ONLY <4>1
      <4> QED
        BY <4>2 DEF answer
    <3>2. Said(w, s, st).status = st
      BY DEF Said
    <3>3. wpc'[w] \in Answering
      BY <1>1, <1>2 DEF Goto, Answering
    <3> HIDE DEF s
    <3>4. received'[w] = 2 /\ conv'[w] = conv[w] /\ Fits(conv[w][1], st)'
      BY <1>1, <2>3, <2>5 DEF RightStatus, Fits
    <3> QED
      BY <1>1, <2>3, <3>1, <3>2, <3>3, <3>4 DEF Answered, Fits, RightStatus
  <2> QED
    BY <1>1, <1>2, <2>2, <2>4, <2>5
<1> QED
  BY <1>3, <1>4

LEMMA SingleNext == ServiceInv /\ StreamInv /\ SingleInv /\ [Next]_vars => SingleInv'
<1> SUFFICES ASSUME ServiceInv, StreamInv, SingleInv, [Next]_vars, NEW v \in Workers
             PROVE  Single(v)'
  BY DEF SingleInv
<1>a. Single(v) /\ (overlap => overlap')
  BY OverlapStays DEF SingleInv
<1>b. /\ received \in [Workers -> Nat] /\ wpc \in [Workers -> Labels]
      /\ replies \in [Workers -> Seq(Reply)]
  BY DEF ServiceInv, TypeInv
<1>1. ASSUME UNCHANGED <<conv, replies>>, received'[v] = received[v],
             wpc[v] \in Answering => wpc'[v] \in Answering
      PROVE  Single(v)'
  BY <1>a, <1>1 DEF Single, Answered, Fits, RightStatus
<1>2. CASE UNCHANGED <<conv, replies, received, wpc>>
  BY <1>1, <1>2
<1>3. ASSUME NEW w \in Workers, Begin(w) \/ ClearBuffer(w) PROVE Single(v)'
  <2>1. /\ UNCHANGED <<conv, replies, received>> /\ wpc[w] \in {"begin", "buffer"}
        /\ \A u \in Workers \ {w} : wpc'[u] = wpc[u]
    <3>1. CASE Begin(w)
      BY <1>b, <3>1 DEF Begin, Goto, client
    <3>2. CASE ClearBuffer(w)
      <4>1. InPool(w)
        BY DEF ServiceInv
      <4> QED
        BY <1>b, <3>2, <4>1 DEF ClearBuffer, Goto, client, InPool
    <3> QED
      BY <1>3, <3>1, <3>2
  <2> QED
    BY <1>1, <2>1 DEF Answering
<1>4. ASSUME NEW w \in Workers, Recv(w) PROVE Single(v)'
  <2>1. PICK k \in Nat \ {0} :
          /\ received[w] + k <= sent[w]
          /\ received' = [received EXCEPT ![w] = received[w] + k]
          /\ Goto(w, IF received[w] + k = Size THEN "clean" ELSE "match")
    BY <1>4, RecvDoes
  <2>2. UNCHANGED <<conv, replies, overlap>>
    BY <1>4 DEF Recv, client, poolFlags
  <2>3. CASE v # w
    BY <1>1, <1>b, <2>1, <2>2, <2>3 DEF Goto
  <2>4. CASE v = w
    <3>1. ASSUME Len(conv[w]) = 1 PROVE received[w] # 2
      <4>1. sent[w] \in 0 .. 2 /\ received[w] \in 0 .. 2
        BY <3>1, SingleIsShort
      <4> QED
        BY <2>1, <4>1
    <3> QED
      BY <1>a, <2>2, <2>4, <3>1 DEF Single, Answered, Answering
  <2> QED
    BY <2>3, <2>4
<1>5. ASSUME NEW w \in Workers, CleanBuffer(w) \/ NoRequest(w) \/ ProcessPOST(w) PROVE Single(v)'
  <2>1. /\ UNCHANGED <<conv, replies, received>> /\ wpc[w] \in {"clean", "match"}
        /\ \A u \in Workers \ {w} : wpc'[u] = wpc[u]
    BY <1>5, <1>b DEF CleanBuffer, NoRequest, ProcessPOST, Goto, client
  <2> QED
    BY <1>1, <2>1 DEF Answering
<1>6. ASSUME NEW w \in Workers,
             RecvNothing(w) \/ LeavePage(w) \/ PollReady(w) \/ PollTimeout(w) \/ End(w)
      PROVE  Single(v)'
  <2>1. /\ UNCHANGED <<conv, replies, received>>
        /\ \E l \in Answering : wpc' = [wpc EXCEPT ![w] = l]
    BY <1>6 DEF Answering, LeavePage, AfterReply, RecvNothing, PollReady, PollTimeout, End, Goto, client
  <2> QED
    BY <1>1, <1>b, <2>1
<1>7. ASSUME NEW w \in Workers, ProcessGET(w) PROVE Single(v)'
  BY <1>a, <1>7, SingleStep
<1> QED
  BY <1>2, <1>3, <1>4, <1>5, <1>6, <1>7
     DEF Next, WorkerStep, Send, HangUp, ScanBuffers, DrainPermit, vars, client, worker

(* A client that sends a single request is answered once at most, and with  *)
(* what it asked for, or told that there is no page when the file could not *)
(* be opened; unless two workers came by one buffer.                       *)
THEOREM SingleIsAnsweredOnce == Spec => []SingleAnsweredOnce
<1>1. Init => SingleInv
  BY DEF Init, SingleInv, Single
<1>2. ServiceInv /\ SingleInv => SingleAnsweredOnce
  <2> SUFFICES ASSUME ServiceInv, SingleInv, NEW w \in Workers, ~overlap, Len(conv[w]) = 1
               PROVE  /\ Len(replies[w]) <= 1
                      /\ \A k \in DOMAIN replies[w] :
                           /\ conv[w][1].method = "GET"
                           /\ Fits(conv[w][1], replies[w][k].status)
    BY DEF SingleAnsweredOnce, RightStatus, Fits
  <2>1. replies[w] = <<>> \/ Answered(w)
    BY DEF SingleInv, Single
  <2>2. replies[w] \in Seq(Reply)
    BY DEF ServiceInv, TypeInv
  <2>3. CASE replies[w] = <<>>
    BY <2>3
  <2>4. CASE Answered(w)
    <3>1. DOMAIN replies[w] = {1}
      BY <2>2, <2>4 DEF Answered
    <3> QED
      BY <2>4, <3>1 DEF Answered
  <2> QED
    BY <2>1, <2>3, <2>4
<1> QED
  BY <1>1, <1>2, SingleNext, ServiceAlways, StreamAlways, PTL DEF Spec
=============================================================================
