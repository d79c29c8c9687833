--------------------------- MODULE PagePingPong ---------------------------
(***************************************************************************)
(* The HTML page of a DatabaseObj (src/database_obj.cpp).                  *)
(*                                                                         *)
(* The main thread executes the method calls that change the dynamic       *)
(* properties of the object, and wakes the refresh thread after each.  The *)
(* refresh thread writes a new page into the one of two files that is not  *)
(* valid and then flips which one is.  The workers of the HTML server send *)
(* the valid file to their clients; each holds a permit of the file's      *)
(* semaphore while it does (PingPongClientAccess).                         *)
(*                                                                         *)
(* A property's value is abstracted to a version number that every change  *)
(* of it counts up, and a page to the versions it shows.                   *)
(***************************************************************************)
EXTENDS Naturals, FiniteSets

CONSTANTS
  Props,        \* names of the dynamic properties
  Readers,      \* worker threads of the HTML server
  MaxVersion,   \* bound: changes of one property
  MaxFiles,     \* bound: file descriptors left open that are counted
  FilesRunOut   \* TRUE iff the process may own no more than MaxFiles descriptors

ASSUME PingPongAssumption ==
  /\ MaxVersion \in Nat
  /\ MaxFiles \in Nat
  /\ FilesRunOut \in BOOLEAN
  /\ IsFiniteSet(Readers)

VARIABLES
  \* the object and the main thread
  present,      \* the dynamic properties that exist
  ver,          \* ver[q]: how often property q has changed
  main,         \* "idle", or "notify" between setProperty and notifyRefresh
  refreshSem,   \* counter of refresh_semaphore_
  \* the refresh thread
  rpc,          \* where in refreshHtml it is
  target,       \* the page it writes
  todo,         \* listed properties it has not read yet
  snap,         \* snap[q]: version of q in the page it writes
  fout,         \* TRUE iff it has the file open
  \* the two pages
  valid,        \* ping_pong_state_: the page clients are to read
  file,         \* file[p]: contents of page p
  sem,          \* sem[p]: counter of page p's semaphore
  \* the workers
  pc,           \* pc[r]: where in processRequestGET worker r is
  page,         \* page[r]: the page it took
  got,          \* got[r]: its fopen succeeded
  intact,       \* intact[r]: all it has sent or measured is the page it took
  leaked,       \* FILE objects opened, none of which is ever closed
  \* history variables
  base,         \* base[r]: contents of page[r] when r took it
  flipped,      \* flipped[r]: the valid page has changed since r took its page
  lost          \* lost[p]: permits of page p the refresh thread has drained

dbVars == <<present, ver, main>>
refreshVars == <<rpc, target, todo, snap, fout>>
workerVars == <<pc, page, got, intact, base>>
vars == <<present, ver, main, refreshSem, rpc, target, todo, snap, fout,
          valid, file, sem, pc, page, got, intact, leaked, base, flipped, lost>>

Pages == {0, 1}
Versions == [Props -> 0 .. MaxVersion]
Contents == [state : {"blank", "partial", "whole"}, ver : Versions]

NoVersion == [q \in Props |-> 0]
BlankPage == [state |-> "blank", ver |-> NoVersion]

(* Workers that have entered page p and not left it. *)
Registered(p) == {r \in Readers : page[r] = p /\ pc[r] \in {"send", "unregister"}}

-----------------------------------------------------------------------------
(* Small decisions of the code, each followed or preceded by the way it    *)
(* could be wrong (the ...Mutant definitions are used by no specification). *)

(* refreshHtml writes the page clients are not sent to. *)
TargetPageMutant == valid
TargetPage == 1 - valid

(* StatesPair::flip *)
FlipMutant(p) == p + 1
FlipPage(p) == 1 - p

(* getHTMLFile reads the page the state pair names. *)
ReadPageMutant == 1 - valid
ReadPage == valid

(* PingPongClientAccess is built on the semaphore of the page that was      *)
(* loaded, which need not be the valid one any more.                        *)
PermitPageMutant(r) == valid
PermitPage(r) == page[r]

(* Descriptors in use: those never closed and the refresh thread's own. *)
OpenFiles == leaked + (IF fout THEN 1 ELSE 0)
CanOpen == FilesRunOut => OpenFiles < MaxFiles

-----------------------------------------------------------------------------
Init ==
  /\ present = {} /\ ver = NoVersion /\ main = "idle" /\ refreshSem = 0
  /\ rpc = "idle" /\ target = 1 /\ todo = {} /\ snap = NoVersion /\ fout = FALSE
  /\ valid = 0
  /\ file = [p \in Pages |-> BlankPage]
  /\ sem = [p \in Pages |-> 0] /\ lost = [p \in Pages |-> 0]
  /\ pc = [r \in Readers |-> "idle"] /\ page = [r \in Readers |-> 0]
  /\ got = [r \in Readers |-> FALSE] /\ intact = [r \in Readers |-> TRUE]
  /\ base = [r \in Readers |-> BlankPage] /\ flipped = [r \in Readers |-> FALSE]
  /\ leaked = 0

-----------------------------------------------------------------------------
(* The main thread.  The calls arrive through a BlockingQueuedConnection,   *)
(* hence one after the other; refused calls change nothing.                 *)

SetProperty(q) ==
  /\ main = "idle"
  /\ ver[q] < MaxVersion
  /\ ver' = [ver EXCEPT ![q] = @ + 1]
  /\ main' = "notify"
  /\ UNCHANGED <<refreshSem, refreshVars, valid, file, sem, workerVars, leaked,
                 flipped, lost>>

AddProperty(q) ==
  /\ q \notin present
  /\ present' = present \union {q}
  /\ SetProperty(q)

DeleteProperty(q) ==
  /\ q \in present
  /\ present' = present \ {q}
  /\ SetProperty(q)

SetPropertyAttr(q) ==
  /\ q \in present
  /\ present' = present
  /\ SetProperty(q)

(* refresh_semaphore_.release().  The counter may already be at the         *)
(* maximum of a binary semaphore, which the standard leaves undefined:      *)
(* libstdc++ counts on, other libraries leave it at one.                    *)
ReleaseRefreshMutant ==
  refreshSem' \in IF rpc = "idle" THEN {1, refreshSem + 1} ELSE {refreshSem}
ReleaseRefresh == refreshSem' \in {1, refreshSem + 1}

NotifyRefresh ==
  /\ main = "notify"
  /\ ReleaseRefresh
  /\ main' = "idle"
  /\ UNCHANGED <<present, ver, refreshVars, valid, file, sem, workerVars, leaked,
                 flipped, lost>>

-----------------------------------------------------------------------------
(* The refresh thread: a timer tries the semaphore and runs refreshHtml. *)

RefreshBegin ==
  /\ rpc = "idle"
  /\ refreshSem > 0
  /\ refreshSem' = refreshSem - 1
  /\ target' = TargetPage
  /\ rpc' = "drain"
  /\ UNCHANGED <<dbVars, todo, snap, fout, valid, file, sem, workerVars, leaked,
                 flipped, lost>>

(* One turn of "while(page.semaphores.try_acquire());" takes a permit that  *)
(* some worker will want back; the loop ends when there is none left.       *)
DrainPermit ==
  /\ rpc = "drain"
  /\ sem[target] > 0
  /\ sem' = [sem EXCEPT ![target] = @ - 1]
  /\ lost' = [lost EXCEPT ![target] = @ + 1]
  /\ UNCHANGED <<dbVars, refreshSem, refreshVars, valid, file, workerVars, leaked,
                 flipped>>

DrainDone ==
  /\ rpc = "drain"
  /\ sem[target] = 0
  /\ rpc' = "open"
  /\ UNCHANGED <<dbVars, refreshSem, target, todo, snap, fout, valid, file, sem,
                 workerVars, leaked, flipped, lost>>

(* Opening truncates the file; when the open fails nobody notices. *)
OpenPage ==
  /\ rpc = "open"
  /\ fout' = CanOpen
  /\ file' = IF CanOpen THEN [file EXCEPT ![target].state = "partial"] ELSE file
  /\ rpc' = "names"
  /\ UNCHANGED <<dbVars, refreshSem, target, todo, snap, valid, sem, workerVars,
                 leaked, flipped, lost>>

(* dynamicPropertyNames(): what is not listed will be missing in the page. *)
ListNames ==
  /\ rpc = "names"
  /\ todo' = present
  /\ snap' = [q \in Props |-> IF q \in present THEN snap[q] ELSE ver[q]]
  /\ rpc' = "read"
  /\ UNCHANGED <<dbVars, refreshSem, target, fout, valid, file, sem, workerVars,
                 leaked, flipped, lost>>

(* One turn of the loop: a property deleted since reads as an invalid       *)
(* value, which saves nothing, so that the page shows its deletion.         *)
ReadProperty(q) ==
  /\ rpc = "read"
  /\ q \in todo
  /\ todo' = todo \ {q}
  /\ snap' = [snap EXCEPT ![q] = ver[q]]
  /\ UNCHANGED <<dbVars, refreshSem, rpc, target, fout, valid, file, sem,
                 workerVars, leaked, flipped, lost>>

(* The tail is written and close() flushes. *)
ClosePage ==
  /\ rpc = "read"
  /\ todo = {}
  /\ file' = IF fout THEN [file EXCEPT ![target] = [state |-> "whole", ver |-> snap]]
                     ELSE file
  /\ fout' = FALSE
  /\ rpc' = "flip"
  /\ UNCHANGED <<dbVars, refreshSem, target, todo, snap, valid, sem, workerVars,
                 leaked, flipped, lost>>

Flip ==
  /\ rpc = "flip"
  /\ valid' = FlipPage(valid)
  /\ flipped' = [r \in Readers |-> pc[r] # "idle"]
  /\ rpc' = "idle"
  /\ UNCHANGED <<dbVars, refreshSem, target, todo, snap, fout, file, sem,
                 workerVars, leaked, lost>>

-----------------------------------------------------------------------------
(* A worker of the HTML server that answers a GET. *)

LoadState(r) ==
  /\ pc[r] = "idle"
  /\ page' = [page EXCEPT ![r] = ReadPage]
  /\ base' = [base EXCEPT ![r] = file[valid]]
  /\ intact' = [intact EXCEPT ![r] = TRUE]
  /\ flipped' = [flipped EXCEPT ![r] = FALSE]
  /\ pc' = [pc EXCEPT ![r] = "open"]
  /\ UNCHANGED <<dbVars, refreshSem, refreshVars, valid, file, sem, got, leaked, lost>>

(* fopen, and size() of the file as it is now. *)
OpenFile(r) ==
  /\ pc[r] = "open"
  /\ got' = [got EXCEPT ![r] = CanOpen]
  /\ leaked' = IF CanOpen /\ leaked < MaxFiles THEN leaked + 1 ELSE leaked
  /\ intact' = [intact EXCEPT ![r] = file[page[r]] = base[r]]
  /\ pc' = [pc EXCEPT ![r] = "register"]
  /\ UNCHANGED <<dbVars, refreshSem, refreshVars, valid, file, sem, page, base,
                 flipped, lost>>

(* The constructor of PingPongClientAccess; without a file the answer is    *)
(* NOT_FOUND, and the accessor is destroyed at once.                        *)
Register(r) ==
  /\ pc[r] = "register"
  /\ sem' = [sem EXCEPT ![PermitPage(r)] = @ + 1]
  /\ pc' = [pc EXCEPT ![r] = IF got[r] THEN "send" ELSE "unregister"]
  /\ UNCHANGED <<dbVars, refreshSem, refreshVars, valid, file, page, got, intact,
                 base, leaked, flipped, lost>>

(* One sendfile: a piece of the file as it is now. *)
SendChunk(r) ==
  /\ pc[r] = "send"
  /\ intact' = [intact EXCEPT ![r] = @ /\ file[page[r]] = base[r]]
  /\ UNCHANGED <<dbVars, refreshSem, refreshVars, valid, file, sem, pc, page, got,
                 base, leaked, flipped, lost>>

(* All of content_len was sent, or the connection failed or timed out. *)
FinishSend(r) ==
  /\ pc[r] = "send"
  /\ pc' = [pc EXCEPT ![r] = "unregister"]
  /\ UNCHANGED <<dbVars, refreshSem, refreshVars, valid, file, sem, page, got,
                 intact, base, leaked, flipped, lost>>

(* The destructor of PingPongClientAccess: it waits for a permit, and does  *)
(* not close the file.                                                      *)
Unregister(r) ==
  /\ pc[r] = "unregister"
  /\ sem[page[r]] > 0
  /\ sem' = [sem EXCEPT ![page[r]] = @ - 1]
  /\ pc' = [pc EXCEPT ![r] = "idle"]
  /\ UNCHANGED <<dbVars, refreshSem, refreshVars, valid, file, page, got, intact,
                 base, leaked, flipped, lost>>

-----------------------------------------------------------------------------
(* The process dies and is started again.  Only the files survive: the      *)
(* constructor's open(NewOnly) fails on files that exist and leaves them as *)
(* they are, page 0 is valid again, no property exists and nothing wakes    *)
(* the refresh thread.                                                      *)
Crash ==
  /\ \A q \in present : ver[q] < MaxVersion
  /\ present' = {}
  /\ ver' = [q \in Props |-> IF q \in present THEN ver[q] + 1 ELSE ver[q]]
  /\ main' = "idle" /\ refreshSem' = 0
  /\ rpc' = "idle" /\ target' = 1 /\ todo' = {} /\ snap' = NoVersion /\ fout' = FALSE
  /\ valid' = 0
  /\ sem' = [p \in Pages |-> 0] /\ lost' = [p \in Pages |-> 0]
  /\ pc' = [r \in Readers |-> "idle"] /\ page' = [r \in Readers |-> 0]
  /\ got' = [r \in Readers |-> FALSE] /\ intact' = [r \in Readers |-> TRUE]
  /\ base' = [r \in Readers |-> BlankPage] /\ flipped' = [r \in Readers |-> FALSE]
  /\ leaked' = 0
  /\ UNCHANGED file

-----------------------------------------------------------------------------
MainStep(q) == AddProperty(q) \/ DeleteProperty(q) \/ SetPropertyAttr(q)

RefreshStep ==
  \/ RefreshBegin \/ DrainPermit \/ DrainDone \/ OpenPage \/ ListNames
  \/ \E q \in Props : ReadProperty(q)
  \/ ClosePage \/ Flip

ReaderStep(r) == OpenFile(r) \/ Register(r) \/ FinishSend(r) \/ Unregister(r)

Next ==
  \/ \E q \in Props : MainStep(q)
  \/ NotifyRefresh
  \/ RefreshStep
  \/ \E r \in Readers : LoadState(r) \/ SendChunk(r) \/ ReaderStep(r)

Spec == Init /\ [][Next]_vars

(* Every thread is scheduled; waiting for a client ends after               *)
(* WAIT_TIMEOUT_MS at the latest.  Nothing makes clients ask.               *)
FairSpec ==
  /\ Spec
  /\ WF_vars(NotifyRefresh)
  /\ WF_vars(RefreshStep)
  /\ \A r \in Readers : WF_vars(ReaderStep(r))

(* The same with crashes and restarts. *)
CrashSpec == Init /\ [][Next \/ Crash]_vars

-----------------------------------------------------------------------------
(* Every variable has its type. *)
TypeOK ==
  /\ present \subseteq Props /\ ver \in Versions
  /\ main \in {"idle", "notify"} /\ refreshSem \in Nat
  /\ rpc \in {"idle", "drain", "open", "names", "read", "flip"}
  /\ target \in Pages /\ todo \subseteq Props /\ snap \in Versions /\ fout \in BOOLEAN
  /\ valid \in Pages /\ file \in [Pages -> Contents]
  /\ sem \in [Pages -> Nat] /\ lost \in [Pages -> Nat]
  /\ pc \in [Readers -> {"idle", "open", "register", "send", "unregister"}]
  /\ page \in [Readers -> Pages]
  /\ got \in [Readers -> BOOLEAN] /\ intact \in [Readers -> BOOLEAN]
  /\ base \in [Readers -> Contents] /\ flipped \in [Readers -> BOOLEAN]
  /\ leaked \in 0 .. MaxFiles

(* "There is always one valid page file" (database_obj.h:234): the page the *)
(* state pair names is never one that refreshHtml is in the middle of.      *)
ValidPageWhole == file[valid].state # "partial"

(* What a worker sends is the page that was valid when it took it, as long  *)
(* as no flip has happened since: up to there two files are enough, however *)
(* slow the client and however often properties change.                     *)
IntactUntilFlip ==
  \A r \in Readers :
    pc[r] # "idle" /\ ~flipped[r] => intact[r] /\ file[page[r]] = base[r]

(* A permit is only ever held by a worker that is in the page, or has been  *)
(* taken from one by the drain loop of refreshHtml: the destructor of an    *)
(* accessor waits for nothing but that loop.                                *)
PermitsConserved ==
  \A p \in Pages : Cardinality(Registered(p)) = sem[p] + lost[p]

(* When nothing is left to do, the valid page shows every property as it is: *)
(* a notification that comes while a refresh is under way is not forgotten.  *)
QuietPageCurrent ==
  main = "idle" /\ refreshSem = 0 /\ rpc = "idle" => file[valid].ver = ver

(* The valid page shows each property in a state it had, and never returns  *)
(* to an older one.                                                         *)
Publication == INSTANCE PagePublication WITH published <- file[valid].ver
PublicationSpec == Publication!Spec

(* Every change reaches the valid page, or a later one does, whatever the   *)
(* clients do.                                                              *)
EventuallyPublished ==
  \A q \in Props : \A v \in 1 .. MaxVersion :
    ver[q] >= v ~> file[valid].ver[q] >= v

-----------------------------------------------------------------------------
(* What comments of the code say and the code does not do. *)

(* "Ping pong for non-blocking client read" (database_obj.h:233): a worker  *)
(* that sends a page comes to its end.                                      *)
ReadsFinish == \A r \in Readers : pc[r] = "send" ~> pc[r] = "idle"
=============================================================================
