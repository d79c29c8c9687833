----------------------------- MODULE BufferPool -----------------------------
(***************************************************************************)
(* The pool of receive buffers each server keeps                           *)
(* (httpRecvBuffers<MAX_CLIENTS, 2048>, src/http_recv_buffers.h).  Every   *)
(* request has a thread of its own; the thread takes a buffer when it      *)
(* begins and gives it back when the token of it is destroyed.  There is   *)
(* no lock: the flag of a buffer is tested in one step and set in another. *)
(***************************************************************************)
EXTENDS Naturals, FiniteSets

CONSTANTS
  Threads,  \* threads that process requests of one server
  N         \* number of buffers

ASSUME PoolAssumption == N \in Nat \ {0}

VARIABLES
  busy,     \* busy[i]: busy_flags[i]
  mem,      \* mem[i]: the threads whose received bytes are in buffer i
  pc,       \* pc[t]: where in getBuffer, or after it, thread t is
  at,       \* at[t]: the buffer t looks at or has
  overlap   \* history: two threads have been between test and set of one flag

vars == <<busy, mem, pc, at, overlap>>

Buffers == 0 .. N - 1

(* Threads that have been given buffer i and have not released it. *)
Holders(i) == {t \in Threads : pc[t] \in {"clear", "use"} /\ at[t] = i}

Init ==
  /\ busy = [i \in Buffers |-> FALSE]
  /\ mem = [i \in Buffers |-> {}]
  /\ pc = [t \in Threads |-> "idle"]
  /\ at = [t \in Threads |-> 0]
  /\ overlap = FALSE

(* The scan goes round the pool until it meets a free buffer. *)
NextBufferMutant(i) == i + 1
NextBuffer(i) == (i + 1) % N

(* memset *)
ClearedMutant(i) == mem[i]
Cleared(i) == {}

(* The flag a token's destructor resets. *)
FlagOfMutant(t) == 0
FlagOf(t) == at[t]

GetBuffer(t) ==
  /\ pc[t] = "idle"
  /\ pc' = [pc EXCEPT ![t] = "scan"]
  /\ at' = [at EXCEPT ![t] = 0]
  /\ UNCHANGED <<busy, mem, overlap>>

SkipBusy(t) ==
  /\ pc[t] = "scan"
  /\ busy[at[t]]
  /\ at' = [at EXCEPT ![t] = NextBuffer(@)]
  /\ UNCHANGED <<busy, mem, pc, overlap>>

SeeFree(t) ==
  /\ pc[t] = "scan"
  /\ ~busy[at[t]]
  /\ pc' = [pc EXCEPT ![t] = "claim"]
  /\ overlap' = (overlap \/ \E u \in Threads : pc[u] = "claim" /\ at[u] = at[t])
  /\ UNCHANGED <<busy, mem, at>>

Claim(t) ==
  /\ pc[t] = "claim"
  /\ busy' = [busy EXCEPT ![at[t]] = TRUE]
  /\ pc' = [pc EXCEPT ![t] = "clear"]
  /\ UNCHANGED <<mem, at, overlap>>

Clear(t) ==
  /\ pc[t] = "clear"
  /\ mem' = [mem EXCEPT ![at[t]] = Cleared(at[t])]
  /\ pc' = [pc EXCEPT ![t] = "use"]
  /\ UNCHANGED <<busy, at, overlap>>

(* recv appends to what is in the buffer. *)
Receive(t) ==
  /\ pc[t] = "use"
  /\ mem' = [mem EXCEPT ![at[t]] = @ \union {t}]
  /\ UNCHANGED <<busy, pc, at, overlap>>

(* cleanBuffer moves the bytes behind the last header to the front; which   *)
(* threads' bytes remain depends on what they have written over.            *)
CleanBuffer(t) ==
  /\ pc[t] = "use"
  /\ \E kept \in SUBSET mem[at[t]] : mem' = [mem EXCEPT ![at[t]] = kept]
  /\ UNCHANGED <<busy, pc, at, overlap>>

(* processRequest returns or throws; the bytes stay in the buffer. *)
Release(t) ==
  /\ pc[t] = "use"
  /\ busy' = [busy EXCEPT ![FlagOf(t)] = FALSE]
  /\ pc' = [pc EXCEPT ![t] = "idle"]
  /\ UNCHANGED <<mem, at, overlap>>

Acquire(t) == SkipBusy(t) \/ SeeFree(t) \/ Claim(t) \/ Clear(t)

Next ==
  \E t \in Threads :
    GetBuffer(t) \/ Acquire(t) \/ Receive(t) \/ CleanBuffer(t) \/ Release(t)

Spec == Init /\ [][Next]_vars

(* Threads inside getBuffer are scheduled.  That requests come to an end is *)
(* not assumed.                                                             *)
FairSpec == Spec /\ \A t \in Threads : WF_vars(Acquire(t))

-----------------------------------------------------------------------------
(* Every variable has its type. *)
TypeOK ==
  /\ busy \in [Buffers -> BOOLEAN]
  /\ mem \in [Buffers -> SUBSET Threads]
  /\ pc \in [Threads -> {"idle", "scan", "claim", "clear", "use"}]
  /\ at \in [Threads -> Buffers]
  /\ overlap \in BOOLEAN

(* A buffer marked busy has a thread that will release it: whatever the     *)
(* races on its flag, the pool never loses a buffer.                        *)
NoLostBuffer == \A i \in Buffers : busy[i] => Holders(i) # {}

(* The test and the set of a flag are the only place where two threads can  *)
(* come by the same buffer: releases, restarted scans and buffers handed on *)
(* never give one buffer to two.                                            *)
ExclusiveUnlessOverlap ==
  ~overlap => \A i \in Buffers : \A t, u \in Holders(i) : t = u

(* A request never sees bytes of an earlier request in its buffer.          *)
OwnBytesUnlessOverlap ==
  ~overlap => \A t \in Threads : pc[t] = "use" => mem[at[t]] \subseteq {t}

Active == {t \in Threads : pc[t] # "idle"}

(* A request gets a buffer unless at some moment there are more requests    *)
(* than buffers, even when no other request ever ends.                      *)
BufferGranted ==
  \A t \in Threads :
    pc[t] = "scan" ~> (pc[t] = "use" \/ Cardinality(Active) > N)
=============================================================================
