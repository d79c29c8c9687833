# Verification of JSON_RPC_server

TLA+ models of the JSON-RPC 2.0 server and the small CMS around it, their model
checking with TLC, and proofs of their main theorems with TLAPS. Paths and line
numbers are those of the repository's sources under `src/`.

The repository also holds the generated documentation of the server
(`docs/html`). Its search panel is the only JavaScript there that reacts to events in
sequences, and it is modelled too (`SearchPanel`, `SearchResults`). It was written by the
documentation generator, runs in a reader's browser and shares nothing with the
server: what is said of it says nothing about the server.

## 1. The system

One process holds a tree of objects (today a single `DatabaseObj`, the root), a
JSON-RPC server on port 12345 through which clients call the object's methods,
and an HTML server on port 12346 that shows the object's properties as a page.

```
 client ──tcp──> servers loop ──append──> array of clients ──poll──> clients loop
                 (1 thread)               (1 per server)             (1 thread per server)
                                                                         │ starts
                                                                         v
   pool of receive buffers <──take/give back── worker (1 detached thread per request)
                                                │                       │
                          JSON-RPC: BlockingQueuedConnection      HTML: sendfile
                                                v                       v
                                        main thread             two page files
                                    (Qt event loop, methods)  (page0.html, page1.html)
                                                │ notifyRefresh         ^
                                                └──> refresh thread ────┘
```

### Components

| Component | State it keeps | Operations | Talks to | What makes it correct |
|---|---|---|---|---|
| **Page of a DatabaseObj** (`database_obj.cpp/.h`, `html_server.h`) | dynamic properties; `refresh_semaphore_`; two page files, a counting semaphore for each; `ping_pong_state_`, which names the valid page | `addProperty`, `deleteProperty`, `setPropertyAttr`, `notifyRefresh`, `refreshHtml`, `getHTMLFile`, the accessor's constructor and destructor | main thread (method calls), refresh thread, HTML workers | the published page is whole, shows states the properties had, never goes back, catches up with every change; a reader gets the page it took |
| **Pool of receive buffers** (`http_recv_buffers.h`) | a busy flag and 2048 bytes per buffer | `getBuffer`, received bytes, the token's destructor, `cleanBuffer` | every worker of a server | a buffer belongs to one request; none is lost; a request that may have one gets one |
| **Servers loop and clients loop** (`servers_wrapper.cpp`, `server.cpp`) | the server's array of client descriptors with their `revents` | `accept` and append; poll; scan; clean; end of a worker | each other, through the array, under two different mutexes; workers | each open connection has exactly one owner; a worker starts when there is something to read; clients that can be read are served |
| **JSON-RPC request** (`json_rpc_server.cpp/.h`) | bytes received, the parsed call, the response | receive, dispatch, receive the body, check, invoke, respond, send the form page | pool, main thread's event queue, client | a method is executed once and only for a complete valid call; the response tells what happened and says which call it answers; a worker ends |
| **HTML connection** (`html_server.cpp/.h`) | one buffer for all requests of a keep-alive connection; the events it polls for | receive, clean a full buffer, match, respond, wait for more | pool, page (its accessor's permit) | answers are the client's own and to whole requests; a connection ends and gives its buffer back |
| **ServersWrapper** (`servers_wrapper.h/.cpp`) | polled sockets, the map of arrays, their lock, loop handles | `addOneServer`, `startListenLoop`, `stopListenLoop`, the servers loop | threads that add servers, both loops | a server is added once and completely; each connection reaches its server; the loop can be stopped |
| **Search panel** (`docs/html/search/search.js`, `SearchBox`; `docs/html/menu.js`) | the text, the one last searched for, two timers, the selected section, two windows, the focus | typing, releasing a key, selecting, closing, the two timeouts | the frame with the results | what is shown is what the field says once the user pauses |
| **Search results** (`search.js`, `SearchResults`, `createResults`) | rows and children, which are folded, the focus, `lastKey`, `repeatOn` | load, fold, move with the keys | the search panel | keys reach each displayed item and no other; one press, one move |
| Menus, folding (`docs/html/menu.js`, `dynsections.js`, `menudata.js`), `jquery.js` | markup | – | – | single toggles, data, third-party code |
| Property types (`database_obj.h`, `UserMetaTypes`) | value types | writing a value as HTML | `refreshHtml` | formatting only |
| Application start (`main.cpp`) | – | constructs the above | – | fixes the initial states |
| Form page (`jsonrpc.html.in`), tests (`tests/`) | – | – | – | no state on the server |

### What is hard to test here

* **Five kinds of threads** (main, refresh, servers loop, clients loops,
  workers) share state with few locks. The interesting orders are those of two
  or three threads within microseconds: a flag tested and then set, a state
  pair loaded and a file opened later, an append and an erase under different
  mutexes.
* **Slow clients.** A worker may hold a page while the page is refreshed
  several times.
* **Partial failure.** `open` of the page is not checked; the main thread
  executes a call whose client is gone.
* **Restart.** The page files survive the process, what they should show does
  not.
* **Boundaries.** A binary semaphore released twice, 64-bit ids in an `int`,
  more clients than buffers, a buffer that is full.
* **Focus and timers** in the search panel: a key goes down in one element and
  comes up in another, a timer runs out after what started it was taken back.

`PROJECT.json` lists these as hazards, each with its line and the properties that
cover it, or the reason why none does yet.

## 2. Modules

| Module | Contents |
|---|---|
| `PagePublication` | abstract specification: what the page promises to whoever looks at it |
| `PagePingPong` | the page: main thread, refresh thread, workers, crash and restart |
| `PagePingPong_proofs` | theorems about it |
| `BufferPool` | the pool: any number of threads in `getBuffer` |
| `BufferPool_proofs` | theorems about it |
| `ClientsLoop` | servers loop, clients loop and the array between them |
| `ClientsLoop_proofs` | theorems about it |
| `JsonRpcRequest` | the life of a JSON-RPC request and the call of the main thread |
| `JsonRpcRequest_proofs` | theorems about it |
| `HtmlService` | the connections of the HTML server, on the pool |
| `HtmlService_proofs` | theorems about it, with those about the pool |
| `ServersWrapper` | adding servers, the servers loop, starting and stopping it |
| `ServersWrapper_proofs` | theorems about it |
| `SearchPanel` | the search panel of the generated documentation |
| `SearchPanel_proofs` | theorems about it |
| `SearchResults` | the frame with its results |
| `SearchResults_proofs` | theorems about it |
| `MC...` | instances for TLC: symmetry, a constraint, sets of requests |

Definitions called `...Mutant` stand before the definition they vary. They
describe a plausible slip in the code and are used by no specification; replacing
the definition by its mutant makes TLC find the property named in `PROJECT.json`
violated, which shows that the property depends on that line.

### PagePingPong

State and code: `present` is the set of names `dynamicPropertyNames()` returns,
`ver[q]` counts changes of property q and stands for its value, `refreshSem` is
`refresh_semaphore_`, `valid` is `ping_pong_state_`, `file[p]` the contents of a
page file (blank, partial or whole, with the versions it shows), `sem[p]` its
`semaphores`. `rpc` is the program counter of the refresh thread and `pc[r]` that
of a worker.

* *Main thread:* `AddProperty`, `DeleteProperty`, `SetPropertyAttr`, each the
  change alone; `NotifyRefresh` follows as a step of its own, because the refresh
  thread reads properties without a lock and can run between the two.
* *Refresh thread* (`refreshHtml`): `RefreshBegin`, `DrainPermit` (one turn of
  `while(page.semaphores.try_acquire());`), `DrainDone`, `OpenPage` (truncates),
  `ListNames`, `ReadProperty` (one turn of the loop), `ClosePage`, `Flip`.
* *Worker* (`processRequestGET`, `getHTMLFile`, `sendResponse`): `LoadState`,
  `OpenFile`, `Register` (constructor of the accessor), `SendChunk` (one
  `sendfile`), `FinishSend` (all sent, timeout or error), `Unregister`
  (destructor, which waits for a permit).
* *Crash:* everything but the files is lost; the constructor's
  `open(NewOnly)` leaves existing files alone.

History variables: `base[r]` (the page as it was when r took it), `flipped[r]`
(whether the valid page has changed since), `lost[p]` (permits the refresh
thread has drained).

Assumptions: the list of property names and single property values are read
atomically (Qt gives no such promise; the code has a data race here whose
torn outcomes are not modelled); `setPropertyAttr` is called for properties that
exist; releasing a binary semaphore at its maximum, which the standard leaves
undefined, yields 1 or one more than it was, the outcomes of the common
libraries; a GET that finds no file still builds the accessor, as in the code.
Calls that change nothing (`listProperties`, refused calls, and `addChild`,
`deleteChild` and `listChildren`, which are stubs) have no action.

### BufferPool

`busy[i]` is `busy_flags[i]`; `mem[i]` is the set of threads whose bytes buffer i
contains. `getBuffer` is `SkipBusy` (go on to the next), `SeeFree` (the `if` on
line 108), `Claim` (line 109) and `Clear` (the `memset` of line 110). `Release` is
the token's destructor. `CleanBuffer` keeps what is behind the last header of a full
buffer, so that no thread's bytes appear that were not there. `overlap` records that two threads were between test and
set of one flag, so that properties can say what else may go wrong (nothing).

### ClientsLoop

The array is its memory (`mem`, `rev`) and the number of live elements
(`finish`): elements outlive their removal, as in a vector whose capacity is
reserved. `emplace_back` is `Construct` and `Commit`, one turn of the cleaning
loop is `CleanShift` and `CleanPop`, since nothing orders appends and erases: the
first hold `servers_lock_`, the second `clients_lock_`. `Commit` and `CleanPop` may use
the size as it is or as it was read earlier, the two orders a compiler can
produce. `raced` records that an append and an erase have overlapped.

`erase(end())` is undefined behaviour; it is modelled by what libstdc++ does for
these element types: nothing is moved, the size goes down by one and the last element
is destroyed, which closes its descriptor. `poll` may report "in" (with or
without POLLHUP) or POLLHUP alone; POSIX allows both. `unclosed` collects the
connections dropped after POLLHUP alone. The capacity `Cap` (`MAX_CLIENTS`) is
never exceeded here: the guard `finish < Cap` of `Accept` bounds the model, and the code
has no such test (`servers_wrapper.cpp:41-55`). Growth frees memory that `poll` still
writes to, and the outcomes of that are not those of any one build.

### JsonRpcRequest

A request is a record of what the code distinguishes: the HTTP method, whether
the pattern of the method matches, whether the URI names an object, the length of
the body, and for the body how it parses, its version, its id and its method. It
arrives in pieces, two for the head and `length` for the body.

* *Client* (external): `ClientSends` one piece; `ClientChanges`: closes its side,
  resets, or stops reading.
* *Worker:* `Start`, `Receive` (one `recv` and the dispatch on the patterns),
  `PollAgain`, `ReceiveTimeout`, `ReceiveEnds`, `ReceiveBody`, `Process`
  (`processRequestPOST` up to `invokeMethod`), `SendResponse`, `SendHeader` (the form
  page's head, then `fopen`), `SendFails`.
* *Main thread:* `Execute` takes the oldest call, executes the method, which may
  refuse its parameters, and lets the worker go on.

`Verdict` has the checks of `processRequestPOST` in their order: a member that is
missing is created as null by the non-const `operator[]`, so that a missing id is a
notification and an array (a batch) fails the version check. `Narrow` is the
conversion of the id to `int`, of which `IntLimit` is one more than the largest.
`IdMember` is what becomes of it in a response: both formats put the member in quotes
(`json_rpc_server.cpp:318`, `381`), so that the id of a response is a JSON *string*, the digits of
the number or the letters null, and never the number that was sent.

Assumptions: requests, results and responses fit their buffers;
no object is deleted while a worker addresses it, which holds as
`deleteChild` is a stub.

### HtmlService

A composition: `BufferPool` is instantiated with the busy flags of this module and, for
the bytes of a buffer, the set of threads whose pieces are in it; `PoolSpec` says that
what the workers do is a behaviour of the pool. A request is two pieces, its
request line and the rest of its head. `Begin` and `ScanBuffers` are `getBuffer`; `Recv`
(any number of pieces that fit) counts in `received`; `CleanBuffer` moves what is
behind the last head to the front *and leaves the count as it is*, as the code does;
`NoRequest`, `ProcessPOST` and `ProcessGET` are the search of the whole buffer; `PollReady`
and `PollTimeout` the wait at the end of the loop, for `polls[w]`, the events that
were set last. `End` is every return and throw.

What the model has and a reader may not expect: the pattern matches from the first
request line to the last end of a head, so the second request on a
connection is answered with the URI of the first and the `Connection` header of the last; after
an answer the connection polls for `POLLOUT` and then waits in `recv` without timeout; a
full and cleaned buffer leaves no room, so that the next `recv` returns 0 and the
connection ends.

`ProcessGET` stands for the whole answer or a failure to deliver it; how a page is sent is
`PagePingPong`'s subject. Its accessor is here: the constructor releases the semaphore of one
of the object's page files (`TakesPage`; whichever is valid, hence any of them), and the worker
then comes to the destructor, in the normal course ("leave") or while it returns or unwinds
("unwind"), and waits there for a permit (`LeavePage`). `DrainPermit` is the refresh thread,
which may take a permit at any time. A page file that cannot be opened is answered with "not
found", and its accessor has a permit too.

Assumptions: `recv` with room 0 waits for data, as Linux does; the ends of strings are
found inside the buffer (with a buffer full to the last byte, `strstr` reads on behind
it); what does not fit behind another thread's bytes after an overlap is cut off (the
code writes behind the end); heads end where a piece ends.

### ServersWrapper

`addOneServer` is `Call`, `Lock`, `Find` (and the early return), `EmplaceBack`, `Listen` or
`ListenFails` (the exception, which leaves the socket among the polled ones), `TryEmplace`,
`StartListeningLoop`; any number of threads run it. The loop is `LoopTop`, `LoopLock`, `Poll`,
then for each position `Skip`, `AcceptFails`, or `Accept` and `Resolve`, and `RoundEnds`. Poll and accept are
two steps, between which a client may give up (`Abort`). `AcceptFails` is an `accept` that fails
although a client waits, as with too many open descriptors: the loop goes on to the next
position without a word (`servers_wrapper.cpp:43`), and the client stays in the queue. The lock is a variable, and
steps inside a critical section are steps of their own, so that what a missing or shorter
lock would do can be seen. `StartListenLoop`, `StopListenLoop` and `Join` belong to one thread.

### SearchPanel and SearchResults

JavaScript runs one handler at a time: each action is a whole handler, and what
interleaves are keys, mouse, the two timeouts and the message `take_focus`. `box` is the
object and the elements it controls, `pending` counts timeouts that will call `Search`, of
which `keyTimeout` knows at most one. Texts are a small set with two functions, the text
without its spaces and without its leading ones: the code compares the first with
the second. A text of spaces alone is not the empty one but is searched like it. The text of the label
may be put into the field by `Activate`, which makes it inactive, or be typed by the user, which the
code does not tell apart everywhere (`Blank`: nothing to search for, or the label and inactive).

Three history variables mark what takes a text its search or a popup its text. Each is
taken back as soon as the code makes it good:

* `untracked`: a selection searched while a timeout was running, which is then out of
  reach (`search.js:288`); until all timeouts have run out.
* `skipped`: shift and Down, or a focus moved away before the key came up, left the text
  without a timeout, or its search threw; until a key comes up in the field, a text is
  searched or the results are closed.
* `blanked`: results are displayed over a blank field, since a timeout came when the field was empty,
  had nothing but spaces or had got its label back, or since the label was taken out of the field
  under them; until they are closed or a text is searched.

What the model has and a reader may not expect: Down in the selection window goes
one item beyond the last (`search.js:295`), and a search then throws. Enter and Escape run
`OnSelectItem` first: when it throws, the selection window is not closed and the focus stays in it
(`SelectionThrows`, beside `SelectionEnds`), and as the handler has not returned false, the browser
lets Enter click on the item that has the focus (`search.js:809`). The table of this
repository (`searchdata.js`) is empty, so that every search of its documentation
throws; Escape in the results moves the focus to the field before the key comes up, and its
release there then leaves the field.

In `SearchResults` item `<<i, 0>>` is row i and `<<i, c>>` its child c - 1. `Nav` is what a key does,
`KeyDown`, `KeyPress` and `KeyUp` are the filter `ProcessKeys` before it. Names that match a
term are next to each other, as in the sorted tables the generator writes
(`SortedAssumption`): in another table Up would look for children under the number of a
hidden row (`search.js:631`).

Assumptions: text is changed by keys alone (a paste with the mouse reaches no handler); an
element that is no longer displayed loses the focus; what the pages of results
contain (their listener for `take_focus`) is not in the repository and is modelled as its
sender expects it.

## 3. Runs

### That pass

| Run | Specification and bounds | Question |
|---|---|---|
| `page_workers` | `CrashSpec`; 1 property, 2 workers, 3 changes, 2 counted descriptors that run out; symmetry | Do readers and the refresh thread keep apart, whatever fails? |
| `page_publication` | `FairSpec`; 2 properties, 1 worker, 2 changes of each | Does the page keep its promise to its readers? |
| `pool` | `FairSpec`; 3 threads, 2 buffers | Is a buffer lost, shared or refused? |
| `loop` | `FairSpec`; 3 descriptors, capacity 2, until append and erase overlap | Does each connection have one owner, and is it served? |
| `json_request` | `FairSpec`; 16 requests for one worker, a valid call for the other, ids of 3 bits | Is a call executed and answered as it should be? |
| `html_service` | `FairSpec`; 2 connections, 1 buffer of 3 pieces, 1 page file, 5 conversations for one client and one for the other | Does each client get its own answers, and does a connection end? |
| `wrapper` | `FairSpec`; 2 servers, 2 threads with 2 calls each, 2 connections | Are servers added once and connections passed on, whatever the order? |
| `search_panel` | `FairSpec`; 3 texts besides the empty one and the label, one of them blank, 2 sections or none, 2 timers | Does the panel show what was typed? |
| `search_results` | `Spec`; 5 names, 4 terms, all foldings | Do keys reach what is displayed? |

* `page_workers` shows `TypeOK`, `IntactUntilFlip` (a worker sends exactly the page it
  took as long as no flip has happened since, even if it has measured the file,
  registered and sent pieces in between) and `PermitsConserved` (workers in a page =
  permits + permits drained: only the drain loop can make a destructor wait).
  Three changes give three flips, enough for a worker to hold a page that is
  rewritten while a second one takes and leaves both; more repeat this.
* `page_publication` shows `ValidPageWhole`, `QuietPageCurrent` (no lost wake-up: when
  nothing is left to do the page is up to date), `PublicationSpec` (each step is a
  step or a stutter of `PagePublication`) and `EventuallyPublished`. Two properties
  are what a page needs to mix states of different moments; two changes of each
  let one fall before and one after its property has been read.
* `pool` shows that the missing atomicity of test and set is the only flaw of
  exclusion (`ExclusiveUnlessOverlap`, `OwnBytesUnlessOverlap`), that races never
  lose a buffer (`NoLostBuffer`), and that `getBuffer` ends unless there are more
  active requests than buffers (`BufferGranted`). Three threads on two buffers
  have both cases.
* `loop` shows `OneOwner` (no double close, no descriptor with two workers, and no
  connection is forgotten, but for POLLHUP alone), `FreshEvents`
  (`revents` left in reused elements start no worker) and `ReadyClientServed`. Three
  descriptors and two places let a descriptor be accepted again while others
  are in the array. The constraint `UntilRaced` stops where an append and an erase
  have overlapped, after which a connection may lie behind the end of the array; the properties are about states before, and the liveness property
  holds of a behaviour that reaches an overlap by its last disjunct, so that the
  constraint hides nothing of what they say.
* `json_request` shows `ExecutedForCallsOnly`, `AnswerTellsOutcome` (a result or refused
  parameters exactly after an execution, with the call's id as a string, of its low bits when it does not fit an `int`), `BlockedAreQueued` (workers that block are
  those whose calls wait) and `WorkerEnds`. The requests differ from a
  valid call in one or two members, at least one for each branch; the second
  worker makes the queue longer than one. Head and body of two pieces and one
  are received together, apart, or in part.
* `html_service` shows `OwnWholeAnswers` (no client is answered for another's request or for half of
  one, but for overlaps in the pool and for buffers that were cleaned, where the
  end of one request stands behind the start of the next), `SingleAnsweredOnce` (although the
  request stays in the buffer), `PoolSpec` and `EndsUnlessHeld`: a connection ends and gives its
  buffer back, also when its buffer was filled, unless its worker is held for ever in one of two waits,
  `recv` for a client that was answered and keeps silent, or the accessor's destructor after the
  refresh thread has taken its permit; or waits for a buffer while every one is held like this. One
  page file instead of two lets both workers meet at one semaphore with fewer states. Two requests in a buffer of three pieces
  fill it with and without a complete head in front; one buffer makes the second
  connection wait for it or share it.
* `wrapper` shows `AddedOnce`, `AlwaysResolved` (the exception of `servers_wrapper.cpp:51` is never
  thrown), `PassedToOwn`, `WaitingAccepted` (no busy server keeps another's clients waiting; an
  `accept` that fails now and then does not lose the client, and only one that fails on its server again and
  again keeps it waiting) and
  `StopReturns`. Two threads and two servers have both orders of a duplicate and a
  failed `listen` before a second attempt; two connections are one round with two
  accepts or two rounds.
* `search_panel` shows `OneTimer`, `PausedShowsField`, `EscapeIsFinal`, `NothingVanishes`
  and `TypedIsSearched`. Two texts differ by an inner space, and one has nothing but
  a space, the cases the comparisons have to tell apart; a second timer is what `untracked` is about.
  `OneTimer` and `EscapeIsFinal` leave out `untracked`, `PausedShowsField` leaves out `skipped` and `blanked`, and
  `TypedIsSearched` leaves out `skipped`, each as long as it lasts: after an Escape an untracked timeout
  does open the results again, and a late one does leave them open over a blank field. What these
  properties show is that there is no other way to get there, and that the panel comes back from it.
* `search_results` shows `FocusIsSeen`, `UpUndoesDown` (and no item is out of reach) and `FirstPressIgnored`. Five names have
  rows hidden before, between other terms' and behind, with and without children.

### That show a disagreement

| Run | What the repository says | What happens |
|---|---|---|
| `page_reads_finish` | "Ping pong for non-blocking client read" (`database_obj.h:233`) | `refreshHtml` drains the permit of a worker still in the page; its destructor waits for ever |
| `page_lost_change` | "you can modify html page" (`readme.md:16`) | accessors leak a descriptor each; without one, the refresh writes nothing and flips to the older page |
| `loop_idle` | "Cleaning hang or processing clients" (`server.cpp:126`) | cleaning empties the array and closes idle clients |

Each of these runs has the smallest instance in which the disagreement appears.

Further disagreements are in the models, without a run of their own: two threads may get one
buffer ("exclusive token", `http_recv_buffers.h:73`; the properties say `Unless
Overlap`); an append that overlaps an erase ends up behind the array
(`servers_wrapper.h:71`; `UntilRaced`); an id wider than an `int` is narrowed, and when that
gives 0 the call is executed and never answered (`readme.md:8`; the second part of `AnswerTellsOutcome`);
every id in a response is a string, though `readme.md:8` claims JSON-RPC 2.0, in which it is the request's own, and
requests are refused unless theirs is a number (`IdMember`); the
search panel opens or keeps its popup over an empty field (`search.js:224`, `335`; `blanked`); after a crash
in a refresh of page 0 the half-written file is the valid page (`database_obj.h:234`;
`ValidPageWhole` is therefore claimed of `Spec` and not of `CrashSpec`).

### Bounds and deadlock

`MaxVersion` bounds changes of a property, `MaxFiles` the descriptors that are counted,
`MaxWork` the workers of one descriptor (a second one is already a violation), `Cap` the
array, `IntLimit` the ids, `HeadPieces` and `length` the pieces of a request, `Size` the pieces
of a buffer, `Files` the files of a page (two in the code, one in the run), `MaxCalls` the calls a thread makes to add servers (without it two threads could
hand the lock to each other for ever), `MaxTimers` the pending searches, `SectionCount` the sections of a table. Deadlock
is checked for all modules but three: `PagePingPong`, which
stops when all changes are used up and the workers wait for permits (the
subject of `page_reads_finish`), and `JsonRpcRequest` and `HtmlService`, in which each
worker handles one connection and is done. Symmetry is used only where no liveness is checked.

### Fairness

* Threads inside the code are scheduled: weak fairness of each worker's steps, of
  each loop and of the refresh thread, which polls its semaphore with a timer of
  interval 0. The steps are enabled until taken, so that weak fairness says no
  more than that the operating system runs the thread.
* Waits for a client have the timeout `WAIT_TIMEOUT_MS`; hence `FinishSend`,
  `ReceiveTimeout`, `SendFails` and `PollTimeout` are among the fair steps.
* `Execute` is fair as `main` ends in `exec()` and methods do not block.
* Nothing is assumed of clients (`Send`, `HangUp`, `ClientSends`, `ClientChanges`), of new
  requests (`GetBuffer`, `LoadState`, `Accept`), of the refresh thread in `HtmlService` (`DrainPermit`), of
  whether `accept` succeeds (`AcceptFails`), or of the end of requests in `BufferPool`
  and of workers in `ClientsLoop`.
* A mutex favours nobody (`ServersWrapper`): a thread gets it if it stays free long
  enough. The loop that has released it may take it again at once, so that nothing is
  claimed of a thread that adds a server while the loop runs.
* In the browser, timeouts run out and a key that is down comes up. `TypedIsSearched` is about
  behaviours in which the user stops pressing keys, since each key restarts the timer.

## 4. Proofs

TLAPS checks the following for every value of the constants: any set of properties,
any finite set of workers, any number of threads, connections, requests, buffers and
changes, any width of an `int`, any texts, tables and pages. All invariants and action properties
that the passing runs check are theorems, `PublicationSpec` and `PoolSpec` among them.

`PagePingPong_proofs`, of `Spec` (no crash; with and without free descriptors unless
said):

* `TypeCorrect`: `[]TypeOK`.
* `ValidPageAlwaysWhole`: `[]ValidPageWhole`. Not inductive: a step that opens a page
  must know that the page is not the valid one. `WritingInv` says that while a
  refresh is under way its target is the other page, and that a partial page is
  the target of a refresh between open and close.
* `IntactReads`: `[]IntactUntilFlip`. `ReadingInv` adds that a worker whose page has not
  been flipped since has the valid page; with `WritingInv` the refresh thread
  writes another one.
* `NoChangeForgotten`: `[]QuietPageCurrent`, if page files can be opened
  (`~FilesRunOut`). `CurrentInv` says what is up to date while no
  notification is outstanding (none in the semaphore, and the main thread not
  between a change and its notification): between refreshes the valid page, during
  one every property already read, before the flip the finished page. A change
  makes a notification outstanding, and the refresh that takes it reads everything
  again.
* `ImplementsPublication`: `Spec => PublicationSpec`, if page files can be opened. `Flip`
  is the abstract `Publish`, a change is `Change`, every other step stutters.
  `VersionInv` says that the page being written is no older than the valid one and
  no newer than the properties.
* `PermitsAlwaysConserved`: `[]PermitsConserved`, by counting: each step that enters or
  leaves `Registered(p)` changes the semaphore by one. Here the finiteness of the
  set of workers is needed.

Of `CrashSpec`: `TypeCorrectInCrashes`, `IntactReadsInCrashes` and `PermitsConservedInCrashes`.
A crash may leave a half written page behind, even the valid one, so `WritingInv` does not survive;
its first part, `TargetInv` (the refresh thread writes the page that is not valid), does, and
it is all that `ReadingInv` needs.

`BufferPool_proofs`, of `Spec`:

* `TypeCorrect`: `[]TypeOK`; the scan stays in the pool.
* `PoolNeverShrinks`: `[]NoLostBuffer`, inductive with `TypeOK`: a claim makes its thread a
  holder, and a release frees the flag of its own buffer.
* `ExclusiveButForOverlap`: `[]ExclusiveUnlessOverlap`. `ExclusiveInv` adds what a thread
  between test and set knows: without overlap the flag it saw is still free and
  nobody else is about to set it, and the buffer of a holder is marked busy.
* `OwnBytesButForOverlap`: `[]OwnBytesUnlessOverlap`, from exclusion.

`ServersWrapper_proofs`, of `Spec`, for any set of servers, threads and connections:
`TypeCorrect`, `ServersAddedOnce` (`[]AddedOnce`), `ServerAlwaysFound` (`[]AlwaysResolved`) and
`ConnectionsArrive` (`[]PassedToOwn`), all from one inductive invariant, `IInv`. `LockHeld` says that whoever
is between taking and releasing the lock has it; `Progress` what a thread in `addOneServer`
has found and done so far (that its server is not among the polled ones stays true
because nobody else can add one meanwhile); `ListeningServed` that a listening server has been
started or is just being added, so that none is half added while the loop has the lock;
`InHand` that the one accepted connection is the loop's `client`, of the server at its
position.

`ClientsLoop_proofs`, of `Spec`, for any set of descriptors and any capacity:

* `TypeCorrect`: `[]TypeOK`, a lemma of the others. That the array does not outgrow its capacity is
  assumed by the guard of `Accept` and not shown; `Room` says that the room seen then is still there at the append.
* `WorkersHaveInput` and `OwnersAreUnique`: `[]FreshEvents` and `[]OneOwner`, from one invariant,
  `LoopInv`, of states before the first overlap. `HandOver` says that what each loop has read of
  the array is still so: the size, the element just constructed and its empty `revents`, and that
  elements appended during a poll have none. `Single` says that a descriptor is in the array once
  (`Once`) and in one hand (`OneHand`: array, worker or servers loop), and open while it is in one. `OneOwner`
  counts elements, and follows as the set of elements of a descriptor has at most one.

`JsonRpcRequest_proofs`, of `Spec`, for any workers, requests and `IntLimit`:

* `TypeCorrect`: `[]TypeOK`; `Narrow` gives an `int` for every id (`NarrowType`), negative ones
  too, and changes none that fits (`NarrowKeeps`).
* `QueueIsBlocked`: `[]BlockedAreQueued`. The main thread takes the first call from the queue: no
  worker is in it twice (`Left`), so that its worker is blocked no more.
* `OnceAndForCalls`: `[]ExecutedForCallsOnly`. `ControlInv` says where nothing has been executed yet,
  and that a worker is blocked only after all checks of its request and with all of its body.
* `AnswersAreTrue`: `[]AnswerTellsOutcome`, of every id, also one that does not fit an `int`. `OutcomeInv` relates the reply a worker is about to send
  to what has been executed, and what was sent to both.

`HtmlService_proofs`, of `Spec`, for any workers, conversations and pages, any number and size of
buffers:

* `UsesPool`: `Spec => PoolSpec`, step by step (`PoolStep`): each step of a worker is a step of
  `BufferPool` under the refinement mapping, which takes a buffer to the set of workers with
  pieces in it, or leaves the pool alone; `ServiceInv` adds that a worker has its buffer from
  `recv` to its end. The theorems about `BufferPool` then hold here: its
  proofs are instantiated (`PoolProofs`), and `PoolPromises` states what they say of workers.
* `AnswersAreOwn`: `[]OwnWholeAnswers`. That the request found is the worker's own is what the
  pool promises; that it is whole needs `StreamInv`: a buffer that was not cleaned has all that
  its client sent, in order, from the start (`StreamGrows`), where the end of a head behind
  a request line is that of the same request or a later one (`StreamMatch`).
* `SingleIsAnsweredOnce`: `[]SingleAnsweredOnce`. `SingleInv`: once answered, the client has sent
  everything and the worker has received it, so that no later `recv` leads to a second answer.
  `StreamInv` covers the cleaned buffer here, since a whole single request is moved onto itself.

`SearchPanel_proofs`, of `Spec`, for any texts, tables and bounds:

* `TypeCorrect` (`[]TypeOK`), with `TimerTracked`: a timeout the box knows of is pending.
* `TimerIsUnique` (`[]OneTimer`), `FocusStaysVisible` (`[]NothingVanishes`, also when a selection throws)
  and `EscapeStaysFinal` (`[]EscapeIsFinal`, for an Escape that no untracked timeout outlives; with
  `EscapeInv`: after Escape has come up no key is down).
* `PopupFollowsField`: `[]PausedShowsField`, except while a text is `skipped` or results are `blanked`. `PausedInv`
  says it of all pauses, those in which a key is down that types nothing into the field included, and adds
  that an inactive field holds the label, that hidden results are forgotten, and that displayed
  results are those last searched for unless they are `blanked`. What a thrown selection leaves is `ThrownBox` and
  `SelectPaused`; what the focus leaves is `MovedFocus`.

`SearchResults_proofs`, of `Spec`, for any pages, terms and foldings: `FocusStaysSeen`
(`[]FocusIsSeen`), `FirstKeypressDoesNothing` (`FirstPressIgnored`, from `KeyInv`: repetition is off
when a key goes down) and `UpInvertsDown` (`[]UpUndoesDown`), from lemmas on how the functions find
the next and the previous row that matches (`NextFinds`, `RowBelow`, `RowAbove`).

The assumptions are the named `ASSUME`s of the modules, which TLC evaluates in each run:
`PingPongAssumption`, `PoolAssumption`, `WrapperAssumption`, `LoopAssumption` and
`ServiceAssumption` (types; descriptors are positive, and there is at least one buffer and place);
`RequestAssumption` (requests are records as described above, with any number as id);
`TextAssumption` (how texts without spaces relate) and `PanelAssumption` (tables are arrays);
`PageAssumption` and `SortedAssumption` (a page is an array, each of its names occurs somewhere, and
names that match a term are next to each other).

**Only model-checked:** liveness (`EventuallyPublished`, `BufferGranted`, `ReadyClientServed`,
`WorkerEnds`, `EndsUnlessHeld`, `WaitingAccepted`, `StopReturns`, `TypedIsSearched`), as the prover
does not reason about fairness and ENABLED. `ValidPageWhole`, `QuietPageCurrent` and `PublicationSpec`
are not claimed of `CrashSpec`: a crash breaks them.

## 5. Not modelled

* The destruction of servers and pools and the removal of closed servers
  (`servers_wrapper.cpp:58`): `main` adds two servers, never stops, and reaches no destructor of
  a server or a pool. A destructor of a server could not return, since its clients loop cannot be stopped
  (`server.cpp:79`), nor could that of a pool (`http_recv_buffers.h:88`).
* Growth of the client array beyond its capacity, and `strstr` behind the end of a full
  buffer: undefined behaviour without a set of outcomes to choose from.
* SIGPIPE when a client resets between `poll` and `send`.
* Values and HTML of properties, texts of responses, Windows.
* Of the generated documentation: placing of windows, `menu.js`, `dynsections.js`
  (they toggle single elements), `jquery.js`, data.

## 6. Plan

1. Done: the page with its abstract specification, the pool, the two loops, the
   JSON-RPC request; proofs of the page and of the pool.
2. Done: the HTML service as a composition with the pool, the registration of
   servers with its proofs, the search panel and its results.
3. A composition of pool and JSON-RPC request (bytes of two requests in one
   shared buffer: what is executed after an overlap).
4. Done: proofs of all invariants and action properties of the passing runs, of the use of
   the pool by the HTML service, and of the page under crashes.
5. Lemmas of the liveness properties that are safety: what a held worker waits for
   (`EndsUnlessHeld`), that a refresh reads each listed property once (`EventuallyPublished`).
6. The properties of `ClientsLoop` after an overlap: what is still true of an array that
   has lost an element.
