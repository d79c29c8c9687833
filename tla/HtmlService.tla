---------------------------- MODULE HtmlService ----------------------------
(***************************************************************************)
(* The connections of the HTML server (HtmlServer::processRequest,         *)
(* src/html_server.cpp) and the pool they take their receive buffers from. *)
(* A worker keeps one buffer as long as its connection lasts: each recv    *)
(* appends to what is there, and the whole buffer is then searched for a   *)
(* request.  A request is two pieces, its request line and the headers     *)
(* with which it ends; a recv gets one or several pieces.                  *)
(*                                                                         *)
(* The pool is BufferPool: its steps are those of this module that touch   *)
(* its flags, and a buffer belongs to the threads with pieces in it.       *)
(***************************************************************************)
EXTENDS Naturals, FiniteSets, SequencesExt

CONSTANTS
  Workers,        \* threads, one per connection
  N,              \* number of buffers
  Size,           \* pieces a buffer holds
  Conversations,  \* Conversations[w]: what the client of w may send, as sequences of requests
  Pages,          \* URIs of the objects, each of which has a page
  Files           \* the files in which the page of an object is kept, two in the code

ASSUME ServiceAssumption ==
  /\ N \in Nat \ {0} /\ Size \in Nat \ {0}
  /\ \A w \in Workers : \A c \in Conversations[w] :
       /\ c \in Seq(ToSet(c))
       /\ \A i \in DOMAIN c : /\ c[i].method \in {"GET", "POST", "PUT"}
                             /\ c[i].connection \in {"close", "keep-alive", "none"}

VARIABLES
  conv,      \* conv[w]: the requests the client of w sends
  sent,      \* sent[w]: pieces it has sent
  gone,      \* gone[w]: it has closed its end
  busy, at, ppc, overlap, \* the pool: busy, at, pc and overlap of BufferPool
  buf,       \* buf[i]: the pieces in buffer i, up to the first zero byte
  received,  \* received[w]: what processRequest counts
  wpc,       \* wpc[w]: where in processRequest it is
  polls,     \* polls[w]: the event it polls for, "in" or "out"
  file,      \* file[w]: the page file it has an accessor of, <<URI, file>>, or <<>>
  permits,   \* permits[f]: the semaphore of page file f
  replies,   \* history: replies[w], the answers sent
  wrapped    \* history: wrapped[w], its buffer was cleaned while it used it

client == <<conv, sent, gone>>
poolFlags == <<busy, at, ppc, overlap>>
worker == <<received, wpc, polls, replies, wrapped>>
access == <<file, permits>>
vars == <<client, poolFlags, buf, worker, access>>

Buffers == 0 .. N - 1
PageFiles == Pages \X Files
Owners(s) == {s[k].worker : k \in DOMAIN s}

Pool == INSTANCE BufferPool
  WITH Threads <- Workers, pc <- ppc, mem <- [i \in Buffers |-> Owners(buf[i])]

Init ==
  /\ conv \in [Workers -> UNION {Conversations[w] : w \in Workers}]
  /\ \A w \in Workers : conv[w] \in Conversations[w]
  /\ sent = [w \in Workers |-> 0]
  /\ gone = [w \in Workers |-> FALSE]
  /\ buf = [i \in Buffers |-> <<>>]
  /\ Pool!Init
  /\ received = [w \in Workers |-> 0]
  /\ wpc = [w \in Workers |-> "begin"]
  /\ polls = [w \in Workers |-> "in"]
  /\ file = [w \in Workers |-> <<>>]
  /\ permits = [f \in PageFiles |-> 0]
  /\ replies = [w \in Workers |-> <<>>]
  /\ wrapped = [w \in Workers |-> FALSE]

Goto(w, to) == wpc' = [wpc EXCEPT ![w] = to]

-----------------------------------------------------------------------------
(* The client. *)

Send(w) ==
  /\ ~gone[w] /\ sent[w] < 2 * Len(conv[w])
  /\ sent' = [sent EXCEPT ![w] = @ + 1]
  /\ UNCHANGED <<conv, gone, poolFlags, buf, worker, access>>

HangUp(w) ==
  /\ ~gone[w]
  /\ gone' = [gone EXCEPT ![w] = TRUE]
  /\ UNCHANGED <<conv, sent, poolFlags, buf, worker, access>>

-----------------------------------------------------------------------------
(* Taking and releasing a buffer. *)

(* The clients loop starts a worker when there is something to be read. *)
Begin(w) ==
  /\ wpc[w] = "begin"
  /\ sent[w] > 0 \/ gone[w]
  /\ buf' = buf
  /\ Pool!GetBuffer(w)
  /\ Goto(w, "buffer")
  /\ UNCHANGED <<client, received, polls, replies, wrapped, access>>

ScanBuffers(w) ==
  /\ buf' = buf
  /\ Pool!SkipBusy(w) \/ Pool!SeeFree(w) \/ Pool!Claim(w)
  /\ UNCHANGED <<client, worker, access>>

(* memset *)
ClearedMutant(i) == buf[i]
Cleared(i) == <<>>

ClearBuffer(w) ==
  /\ ppc[w] = "clear"
  /\ buf' = [buf EXCEPT ![at[w]] = Cleared(at[w])]
  /\ ppc' = [ppc EXCEPT ![w] = "use"]
  /\ Goto(w, "recv")
  /\ UNCHANGED <<client, busy, at, overlap, received, polls, replies, wrapped, access>>

(* processRequest returns or throws: the token gives the buffer back and    *)
(* the connection is closed.                                                *)
End(w) ==
  /\ wpc[w] = "end" /\ ppc[w] = "use"
  /\ buf' = buf
  /\ Pool!Release(w)
  /\ Goto(w, "done")
  /\ UNCHANGED <<client, received, polls, replies, wrapped, access>>

-----------------------------------------------------------------------------
(* Receiving. *)

Piece(w, k) == [worker |-> w, number |-> (k + 1) \div 2, part |-> 2 - (k % 2)]
Request(p) == conv[p.worker][p.number]

Room(w) == Size - received[w]

(* What does not fit behind what another thread has written is cut off. *)
Recv(w) ==
  /\ wpc[w] = "recv"
  /\ \E k \in 1 .. Room(w) :
       LET i == at[w]
           all == buf[i] \o [j \in 1 .. k |-> Piece(w, received[w] + j)]
       IN /\ received[w] + k <= sent[w]
          /\ buf' = [buf EXCEPT ![i] = IF Len(all) > Size THEN SubSeq(all, 1, Size) ELSE all]
          /\ received' = [received EXCEPT ![w] = @ + k]
          /\ Goto(w, IF received[w] + k = Size THEN "clean" ELSE "match")
  /\ UNCHANGED <<client, poolFlags, polls, replies, wrapped, access>>

(* recv returns nothing: at the end of what a client that has closed its    *)
(* end had sent, and when it is given no room.  It waits as long as there   *)
(* is nothing to be returned.                                               *)
RecvNothing(w) ==
  /\ wpc[w] = "recv"
  /\ IF Room(w) = 0 THEN sent[w] > received[w] \/ gone[w] ELSE gone[w] /\ sent[w] = received[w]
  /\ Goto(w, "end")
  /\ UNCHANGED <<client, poolFlags, buf, received, polls, replies, wrapped, access>>

(* A full buffer: what is behind its last complete header moves to the      *)
(* front, and the rest stays as it was.  The count is not reduced.          *)
Ends(s) == {k \in DOMAIN s : s[k].part = 2}
LastEnd(s) == CHOOSE k \in Ends(s) : \A j \in Ends(s) : j <= k

CleanBuffer(w) ==
  /\ wpc[w] = "clean"
  /\ LET s == buf[at[w]]
     IN IF Ends(s) = {}
        THEN /\ Goto(w, "end")
             /\ UNCHANGED <<buf, wrapped>>
        ELSE LET leftover == SubSeq(s, LastEnd(s) + 1, Len(s))
             IN /\ buf' = [buf EXCEPT ![at[w]] = leftover \o SubSeq(s, Len(leftover) + 1, Len(s))]
                /\ wrapped' = [wrapped EXCEPT ![w] = TRUE]
                /\ Goto(w, "match")
  /\ UNCHANGED <<client, poolFlags, received, polls, replies, access>>

-----------------------------------------------------------------------------
(* The regular expressions, on what is in the buffer. *)

Lines(s) == {k \in DOMAIN s : s[k].part = 1}

(* The first request line, if the end of some header is behind it. *)
MatchesMutant(s) == Lines(s)
Matches(s) == {k \in Lines(s) : \E e \in Ends(s) : e > k}
First(s) == CHOOSE k \in Matches(s) : \A j \in Matches(s) : k <= j

Asked(s) == IF Matches(s) = {} THEN "nothing" ELSE Request(s[First(s)]).method

(* The last Connection header behind it. *)
Headers(s) == {k \in Ends(s) : k > First(s) /\ Request(s[k]).connection # "none"}
Connection(s) ==
  IF Headers(s) = {} THEN "none"
  ELSE Request(s[CHOOSE k \in Headers(s) : \A j \in Headers(s) : j <= k]).connection

(* What is answered to the buffer, and whether the connection stays. *)
Status(s) ==
  IF Connection(s) = "none" THEN "bad request"
  ELSE IF Request(s[First(s)]).uri \notin Pages THEN "not found"
  ELSE "ok"

(* Every recv in the code above is followed by this search of the buffer.   *)
NoRequest(w) ==
  /\ wpc[w] = "match"
  /\ Asked(buf[at[w]]) \in {"nothing", "PUT"}
  /\ Goto(w, "poll")
  /\ UNCHANGED <<client, poolFlags, buf, received, polls, replies, wrapped, access>>

(* processRequestPOST is empty: the connection is closed unanswered. *)
ProcessPOST(w) ==
  /\ wpc[w] = "match"
  /\ Asked(buf[at[w]]) = "POST"
  /\ Goto(w, "end")
  /\ UNCHANGED <<client, poolFlags, buf, received, polls, replies, wrapped, access>>

AfterReplyMutant == "match"
AfterReply == "poll"

(* What a worker sends: an answer to the request at p of its buffer.        *)
Answers(w, p, status) ==
  replies' = [replies EXCEPT ![w] = Append(@,
    [worker |-> p.worker, number |-> p.number, status |-> status,
     whole |-> 2 * p.number <= received[p.worker]])]

(* getHTMLFile: the accessor's constructor releases the semaphore of the    *)
(* file that is valid at the moment.                                        *)
TakesPage(w, f) ==
  /\ file' = [file EXCEPT ![w] = f]
  /\ permits' = [permits EXCEPT ![f] = @ + 1]

(* An answer, or a failure to deliver it.  Requests that are refused before *)
(* a page is taken return or throw.  With the page the worker comes to the  *)
(* accessor's destructor ("leave"); it does so while it unwinds, and ends   *)
(* then, when the file cannot be opened, the page is not delivered or the   *)
(* connection is not to stay.                                               *)
ProcessGET(w) ==
  /\ wpc[w] = "match"
  /\ Asked(buf[at[w]]) = "GET"
  /\ LET s == buf[at[w]]
         p == s[First(s)]
     IN \/ /\ Status(s) # "ok"
           /\ Answers(w, p, Status(s)) \/ UNCHANGED replies
           /\ Goto(w, "end")
           /\ UNCHANGED access
        \/ /\ Status(s) = "ok"
           /\ \E f \in Files : TakesPage(w, <<Request(p).uri, f>>)
           /\ \/ /\ Answers(w, p, "ok")
                 /\ Goto(w, IF Connection(s) = "close" THEN "unwind" ELSE "leave")
              \/ /\ Answers(w, p, "not found") \/ UNCHANGED replies
                 /\ Goto(w, "unwind")
  /\ polls' = [polls EXCEPT ![w] = "out"]
  /\ UNCHANGED <<client, poolFlags, buf, received, wrapped>>

(* The destructor acquires the semaphore: without a permit it waits.        *)
LeavePage(w) ==
  /\ wpc[w] \in {"leave", "unwind"}
  /\ permits[file[w]] > 0
  /\ permits' = [permits EXCEPT ![file[w]] = @ - 1]
  /\ file' = [file EXCEPT ![w] = <<>>]
  /\ Goto(w, IF wpc[w] = "leave" THEN AfterReply ELSE "end")
  /\ UNCHANGED <<client, poolFlags, buf, received, polls, replies, wrapped>>

(* The refresh thread is about to write the file again and takes a permit.  *)
DrainPermit(f) ==
  /\ permits[f] > 0
  /\ permits' = [permits EXCEPT ![f] = @ - 1]
  /\ UNCHANGED <<client, poolFlags, buf, worker, file>>

-----------------------------------------------------------------------------
(* Waiting for more: poll with the events that were set last. *)

FirstPollMutant(w) == "out"
FirstPoll(w) == polls[w]

(* There is more to be read, or, after an answer, room to write.  A client  *)
(* that has gone may be reported with POLLHUP or without.                   *)
PollReady(w) ==
  /\ wpc[w] = "poll"
  /\ FirstPoll(w) = "in" => sent[w] > received[w] \/ gone[w]
  /\ \/ Goto(w, "recv")
     \/ gone[w] /\ Goto(w, "end")
  /\ UNCHANGED <<client, poolFlags, buf, received, polls, replies, wrapped, access>>

PollTimeout(w) ==
  /\ wpc[w] = "poll" /\ FirstPoll(w) = "in"
  /\ Goto(w, "end")
  /\ UNCHANGED <<client, poolFlags, buf, received, polls, replies, wrapped, access>>

-----------------------------------------------------------------------------
WorkerStep(w) ==
  \/ Begin(w) \/ ScanBuffers(w) \/ ClearBuffer(w) \/ End(w)
  \/ Recv(w) \/ RecvNothing(w) \/ CleanBuffer(w)
  \/ NoRequest(w) \/ ProcessPOST(w) \/ ProcessGET(w) \/ LeavePage(w)
  \/ PollReady(w) \/ PollTimeout(w)

Next ==
  \/ \E w \in Workers : Send(w) \/ HangUp(w) \/ WorkerStep(w)
  \/ \E f \in PageFiles : DrainPermit(f)

Spec == Init /\ [][Next]_vars

(* Workers are scheduled, and their polls time out.  Clients may do nothing.*)
FairSpec == Spec /\ \A w \in Workers : WF_vars(WorkerStep(w))

-----------------------------------------------------------------------------
(* The workers use the pool as its own specification says: between them     *)
(* they never hold a flag they did not set or touch a buffer they do not    *)
(* have.                                                                    *)
PoolSpec == Pool!Spec

(* What a client is sent answers its own request, and one that has arrived  *)
(* to its end; unless two workers came by one buffer, or a full buffer was  *)
(* cleaned, which leaves the end of one request behind the next one's start.*)
OwnWholeAnswers ==
  ~overlap => \A w \in Workers : \A k \in DOMAIN replies[w] :
    replies[w][k].worker = w /\ (wrapped[w] \/ replies[w][k].whole)

(* The request is never taken out of the buffer; all the same a client that *)
(* sends a single one is answered once at most, and with what it asked for, *)
(* or told that there is no page when its file could not be opened.         *)
SingleAnsweredOnce ==
  \A w \in Workers : ~overlap /\ Len(conv[w]) = 1 =>
    /\ Len(replies[w]) <= 1
    /\ \A k \in DOMAIN replies[w] :
         LET r == conv[w][1]
         IN /\ r.method = "GET"
            /\ r.connection = "none" <=> replies[w][k].status = "bad request"
            /\ replies[w][k].status = "ok" => r.uri \in Pages

(* A worker that waits in recv for a client that was answered and says      *)
(* nothing more: no timeout ends this wait.  And one that waits in the      *)
(* accessor's destructor for a permit that the refresh thread has taken.    *)
Silent(w) == wpc[w] = "recv" /\ polls[w] = "out" /\ ~gone[w] /\ sent[w] = received[w]
Stranded(w) == wpc[w] \in {"leave", "unwind"} /\ permits[file[w]] = 0
Held(w) == Silent(w) \/ Stranded(w)

(* A connection comes to its end and gives its buffer back, also when its   *)
(* buffer has been filled, unless from some moment on its worker is held    *)
(* for ever in one of these two waits, or all buffers are by such workers.  *)
EndsUnlessHeld ==
  \A w \in Workers :
    \/ []<>(wpc[w] \in {"begin", "done"})
    \/ <>[](\/ Held(w)
            \/ /\ wpc[w] = "buffer"
               /\ \A i \in Buffers : \E u \in Workers : Held(u) /\ at[u] = i)
=============================================================================
