------------------------- MODULE BufferPool_proofs -------------------------
(***************************************************************************)
(* Proofs about BufferPool, for every set of threads and size of the pool. *)
(***************************************************************************)
EXTENDS BufferPool, TLAPS

LEMMA NextBufferType == \A i \in Buffers : NextBuffer(i) \in Buffers
  BY PoolAssumption DEF Buffers, NextBuffer

LEMMA ZeroIsBuffer == 0 \in Buffers
  BY PoolAssumption DEF Buffers

LEMMA TypeInit == Init => TypeOK
  BY ZeroIsBuffer DEF Init, TypeOK

LEMMA TypeNext == TypeOK /\ [Next]_vars => TypeOK'
<1> SUFFICES ASSUME TypeOK, [Next]_vars PROVE TypeOK'
  OBVIOUS
<1>1. ASSUME NEW t \in Threads, GetBuffer(t) PROVE TypeOK'
  BY <1>1, ZeroIsBuffer DEF TypeOK, GetBuffer
<1>2. ASSUME NEW t \in Threads, SkipBusy(t) PROVE TypeOK'
  BY <1>2, NextBufferType DEF TypeOK, SkipBusy
<1>3. ASSUME NEW t \in Threads, SeeFree(t) PROVE TypeOK'
  BY <1>3 DEF TypeOK, SeeFree
<1>4. ASSUME NEW t \in Threads, Claim(t) PROVE TypeOK'
  BY <1>4 DEF TypeOK, Claim
<1>5. ASSUME NEW t \in Threads, Clear(t) PROVE TypeOK'
  BY <1>5 DEF TypeOK, Clear, Cleared
<1>6. ASSUME NEW t \in Threads, Receive(t) PROVE TypeOK'
  BY <1>6 DEF TypeOK, Receive
<1>7. ASSUME NEW t \in Threads, CleanBuffer(t) PROVE TypeOK'
  BY <1>7 DEF TypeOK, CleanBuffer
<1>8. ASSUME NEW t \in Threads, Release(t) PROVE TypeOK'
  BY <1>8 DEF TypeOK, Release
<1>9. CASE UNCHANGED vars
  BY <1>9 DEF TypeOK, vars
<1> QED
  BY <1>1, <1>2, <1>3, <1>4, <1>5, <1>6, <1>7, <1>8, <1>9 DEF Next, Acquire

(* Every variable has its type; in particular the scan stays in the pool.   *)
THEOREM TypeCorrect == Spec => []TypeOK
  BY TypeInit, TypeNext, PTL DEF Spec

-----------------------------------------------------------------------------
LEMMA LostNext == TypeOK /\ NoLostBuffer /\ [Next]_vars => NoLostBuffer'
<1> SUFFICES ASSUME TypeOK, NoLostBuffer, [Next]_vars,
                    NEW i \in Buffers, busy'[i]
             PROVE  \E t \in Threads : pc'[t] \in {"clear", "use"} /\ at'[t] = i
  BY DEF NoLostBuffer, Holders
<1>1. busy[i] => \E t \in Threads : pc[t] \in {"clear", "use"} /\ at[t] = i
  BY DEF NoLostBuffer, Holders
<1>2. ASSUME NEW t \in Threads, GetBuffer(t) \/ SkipBusy(t) \/ SeeFree(t)
      PROVE  \E u \in Threads : pc'[u] \in {"clear", "use"} /\ at'[u] = i
  BY <1>1, <1>2 DEF TypeOK, GetBuffer, SkipBusy, SeeFree
<1>3. ASSUME NEW t \in Threads, Claim(t)
      PROVE  \E u \in Threads : pc'[u] \in {"clear", "use"} /\ at'[u] = i
  <2>1. CASE at[t] = i
    BY <1>3, <2>1 DEF TypeOK, Claim
  <2>2. CASE at[t] # i
    BY <1>1, <1>3, <2>2 DEF TypeOK, Claim
  <2> QED
    BY <2>1, <2>2
<1>4. ASSUME NEW t \in Threads, Clear(t) \/ Receive(t) \/ CleanBuffer(t)
      PROVE  \E u \in Threads : pc'[u] \in {"clear", "use"} /\ at'[u] = i
  BY <1>1, <1>4 DEF TypeOK, Clear, Receive, CleanBuffer
<1>5. ASSUME NEW t \in Threads, Release(t)
      PROVE  \E u \in Threads : pc'[u] \in {"clear", "use"} /\ at'[u] = i
  BY <1>1, <1>5 DEF TypeOK, Release, FlagOf
<1>6. CASE UNCHANGED vars
  BY <1>1, <1>6 DEF vars
<1> QED
  BY <1>2, <1>3, <1>4, <1>5, <1>6 DEF Next, Acquire

(* The pool never shrinks: a buffer that is marked busy is held by a thread *)
(* that will release it, even after two threads were given the same one.    *)
THEOREM PoolNeverShrinks == Spec => []NoLostBuffer
<1>1. Init => NoLostBuffer
  BY DEF Init, NoLostBuffer
<1> QED
  BY <1>1, LostNext, TypeCorrect, PTL DEF Spec

-----------------------------------------------------------------------------
(* While no two threads have been between the test and the set of one flag, *)
(* a flag is set exactly while the buffer is held, and a thread that is     *)
(* about to set it is alone.                                                *)
ExclusiveInv ==
  ~overlap =>
    /\ \A t, u \in Threads :
         /\ pc[t] \in {"clear", "use"} /\ pc[u] \in {"clear", "use"} /\ at[t] = at[u] => t = u
         /\ pc[t] = "claim" /\ pc[u] = "claim" /\ at[t] = at[u] => t = u
    /\ \A t \in Threads :
         /\ pc[t] = "claim" => ~busy[at[t]]
         /\ pc[t] \in {"clear", "use"} => busy[at[t]]

LEMMA ExclusiveNext == TypeOK /\ ExclusiveInv /\ [Next]_vars => ExclusiveInv'
<1> SUFFICES ASSUME TypeOK, ExclusiveInv, [Next]_vars PROVE ExclusiveInv'
  OBVIOUS
<1>1. ASSUME NEW t \in Threads, GetBuffer(t) \/ SkipBusy(t) PROVE ExclusiveInv'
  BY <1>1 DEF TypeOK, ExclusiveInv, GetBuffer, SkipBusy
<1>2. ASSUME NEW t \in Threads, SeeFree(t) PROVE ExclusiveInv'
  BY <1>2 DEF TypeOK, ExclusiveInv, SeeFree
<1>3. ASSUME NEW t \in Threads, Claim(t) PROVE ExclusiveInv'
  BY <1>3 DEF TypeOK, ExclusiveInv, Claim
<1>4. ASSUME NEW t \in Threads, Clear(t) \/ Receive(t) \/ CleanBuffer(t) PROVE ExclusiveInv'
  BY <1>4 DEF TypeOK, ExclusiveInv, Clear, Receive, CleanBuffer
<1>5. ASSUME NEW t \in Threads, Release(t) PROVE ExclusiveInv'
  BY <1>5 DEF TypeOK, ExclusiveInv, Release, FlagOf
<1>6. CASE UNCHANGED vars
  BY <1>6 DEF ExclusiveInv, vars
<1> QED
  BY <1>1, <1>2, <1>3, <1>4, <1>5, <1>6 DEF Next, Acquire

LEMMA ExclusiveInit == Init => ExclusiveInv
  BY DEF Init, ExclusiveInv

(* Test and set of a flag, done in two steps, are the only way two requests *)
(* come to share a buffer.                                                  *)
THEOREM ExclusiveButForOverlap == Spec => []ExclusiveUnlessOverlap
<1>1. ExclusiveInv => ExclusiveUnlessOverlap
  BY DEF ExclusiveInv, ExclusiveUnlessOverlap, Holders
<1> QED
  BY <1>1, ExclusiveInit, ExclusiveNext, TypeCorrect, PTL DEF Spec

-----------------------------------------------------------------------------
LEMMA OwnBytesNext ==
  TypeOK /\ ExclusiveInv /\ OwnBytesUnlessOverlap /\ [Next]_vars => OwnBytesUnlessOverlap'
<1> SUFFICES ASSUME TypeOK, ExclusiveInv, OwnBytesUnlessOverlap, [Next]_vars
             PROVE  OwnBytesUnlessOverlap'
  OBVIOUS
<1>1. ASSUME NEW t \in Threads,
             GetBuffer(t) \/ SkipBusy(t) \/ SeeFree(t) \/ Claim(t) \/ Release(t)
      PROVE  OwnBytesUnlessOverlap'
  BY <1>1 DEF TypeOK, OwnBytesUnlessOverlap, GetBuffer, SkipBusy, SeeFree, Claim, Release
<1>2. ASSUME NEW t \in Threads, Clear(t) PROVE OwnBytesUnlessOverlap'
  BY <1>2 DEF TypeOK, ExclusiveInv, OwnBytesUnlessOverlap, Clear, Cleared
<1>3. ASSUME NEW t \in Threads, Receive(t) PROVE OwnBytesUnlessOverlap'
  BY <1>3 DEF TypeOK, ExclusiveInv, OwnBytesUnlessOverlap, Receive
<1>4. ASSUME NEW t \in Threads, CleanBuffer(t) PROVE OwnBytesUnlessOverlap'
  BY <1>4 DEF TypeOK, ExclusiveInv, OwnBytesUnlessOverlap, CleanBuffer
<1>5. CASE UNCHANGED vars
  BY <1>5 DEF OwnBytesUnlessOverlap, vars
<1> QED
  BY <1>1, <1>2, <1>3, <1>4, <1>5 DEF Next, Acquire

(* memset and exclusiveness together keep requests apart.                   *)
THEOREM OwnBytesButForOverlap == Spec => []OwnBytesUnlessOverlap
<1>1. Init => OwnBytesUnlessOverlap
  BY DEF Init, OwnBytesUnlessOverlap
<1> QED
  BY <1>1, ExclusiveInit, ExclusiveNext, OwnBytesNext, TypeCorrect, PTL DEF Spec
=============================================================================
