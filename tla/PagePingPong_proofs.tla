------------------------ MODULE PagePingPong_proofs ------------------------
(***************************************************************************)
(* Proofs about PagePingPong, for every set of properties, every finite    *)
(* set of workers and every bound.                                         *)
(***************************************************************************)
EXTENDS PagePingPong, FiniteSetTheorems, TLAPS

USE DEF Pages

LEMMA PagesFact == \A p \in Pages : 1 - p \in Pages /\ 1 - p # p /\ 1 - (1 - p) = p
  OBVIOUS

-----------------------------------------------------------------------------
(* Every variable has its type, in every reachable state: in particular a   *)
(* refresh never asks for a third page and a version never exceeds what the *)
(* main thread counted.                                                     *)
LEMMA BlankPageType == NoVersion \in Versions /\ BlankPage \in Contents
<1>1. NoVersion \in Versions
  BY PingPongAssumption DEF NoVersion, Versions
<1> QED
  BY <1>1 DEF BlankPage, Contents

LEMMA TypeInit == Init => TypeOK
<1> SUFFICES ASSUME Init PROVE TypeOK
  OBVIOUS
<1>1. /\ present \subseteq Props /\ ver \in Versions /\ main \in {"idle", "notify"}
      /\ refreshSem \in Nat /\ todo \subseteq Props /\ snap \in Versions
      /\ fout \in BOOLEAN /\ target \in Pages /\ valid \in Pages
      /\ rpc \in {"idle", "drain", "open", "names", "read", "flip"}
  BY BlankPageType DEF Init
<1>2. leaked \in 0 .. MaxFiles
  BY PingPongAssumption DEF Init
<1>3. /\ file \in [Pages -> Contents] /\ base \in [Readers -> Contents]
      /\ sem \in [Pages -> Nat] /\ lost \in [Pages -> Nat]
  BY BlankPageType DEF Init
<1>4. /\ pc \in [Readers -> {"idle", "open", "register", "send", "unregister"}]
      /\ page \in [Readers -> Pages] /\ got \in [Readers -> BOOLEAN]
      /\ intact \in [Readers -> BOOLEAN] /\ flipped \in [Readers -> BOOLEAN]
  BY DEF Init
<1> QED
  BY <1>1, <1>2, <1>3, <1>4 DEF TypeOK

LEMMA TypeMain == ASSUME TypeOK, NEW q \in Props, MainStep(q) PROVE TypeOK'
<1>1. ver' \in Versions /\ main' = "notify" /\ present' \subseteq Props
  BY PingPongAssumption DEF TypeOK, MainStep, AddProperty, DeleteProperty, SetPropertyAttr,
     SetProperty, Versions
<1>2. UNCHANGED <<refreshSem, refreshVars, valid, file, sem, workerVars, leaked, flipped, lost>>
  BY DEF MainStep, AddProperty, DeleteProperty, SetPropertyAttr, SetProperty
<1> QED
  BY <1>1, <1>2 DEF TypeOK, refreshVars, workerVars

LEMMA TypeNotify == TypeOK /\ NotifyRefresh => TypeOK'
  BY DEF TypeOK, NotifyRefresh, ReleaseRefresh, refreshVars, workerVars

LEMMA TypeRefresh == TypeOK /\ RefreshStep => TypeOK'
<1> SUFFICES ASSUME TypeOK, RefreshStep PROVE TypeOK'
  OBVIOUS
<1> USE DEF dbVars, workerVars
<1>1. CASE RefreshBegin
  BY <1>1, PagesFact DEF TypeOK, RefreshBegin, TargetPage
<1>2. CASE DrainPermit
  BY <1>2 DEF TypeOK, DrainPermit, refreshVars
<1>3. CASE DrainDone
  BY <1>3 DEF TypeOK, DrainDone
<1>4. CASE OpenPage
  <2>1. file' \in [Pages -> Contents]
    BY <1>4 DEF TypeOK, OpenPage, Contents
  <2>2. fout' \in BOOLEAN
    BY <1>4 DEF TypeOK, OpenPage, CanOpen, OpenFiles
  <2> QED
    BY <1>4, <2>1, <2>2 DEF TypeOK, OpenPage
<1>5. CASE ListNames
  BY <1>5 DEF TypeOK, ListNames, Versions
<1>6. ASSUME NEW q \in Props, ReadProperty(q) PROVE TypeOK'
  BY <1>6 DEF TypeOK, ReadProperty, Versions
<1>7. CASE ClosePage
  <2>1. file' \in [Pages -> Contents]
    BY <1>7 DEF TypeOK, ClosePage, Contents
  <2> QED
    BY <1>7, <2>1 DEF TypeOK, ClosePage
<1>8. CASE Flip
  BY <1>8, PagesFact DEF TypeOK, Flip, FlipPage
<1> QED
  BY <1>1, <1>2, <1>3, <1>4, <1>5, <1>6, <1>7, <1>8 DEF RefreshStep

LEMMA TypeReader ==
  ASSUME TypeOK, NEW r \in Readers, LoadState(r) \/ SendChunk(r) \/ ReaderStep(r)
  PROVE  TypeOK'
<1> USE DEF dbVars, refreshVars
<1>1. CASE LoadState(r)
  BY <1>1 DEF TypeOK, LoadState, ReadPage
<1>2. CASE OpenFile(r)
  <2>1. CanOpen \in BOOLEAN /\ leaked' \in 0 .. MaxFiles
    BY <1>2, PingPongAssumption DEF TypeOK, OpenFile, CanOpen, OpenFiles
  <2> QED
    BY <1>2, <2>1 DEF TypeOK, OpenFile
<1>3. CASE Register(r)
  BY <1>3 DEF TypeOK, Register, PermitPage
<1>4. CASE SendChunk(r)
  BY <1>4 DEF TypeOK, SendChunk
<1>5. CASE FinishSend(r)
  BY <1>5 DEF TypeOK, FinishSend
<1>6. CASE Unregister(r)
  BY <1>6 DEF TypeOK, Unregister
<1> QED
  BY <1>1, <1>2, <1>3, <1>4, <1>5, <1>6 DEF ReaderStep

LEMMA TypeNext == TypeOK /\ [Next]_vars => TypeOK'
<1>1. TypeOK /\ UNCHANGED vars => TypeOK'
  BY DEF TypeOK, vars
<1> QED
  BY <1>1, TypeMain, TypeNotify, TypeRefresh, TypeReader DEF Next

THEOREM TypeCorrect == Spec => []TypeOK
  BY TypeInit, TypeNext, PTL DEF Spec

-----------------------------------------------------------------------------
(* The refresh thread writes the page that is not valid, from the moment it *)
(* has begun until it flips, and only a page it has open is incomplete.     *)
(* The first holds after a crash as well, the second does not: it is where  *)
(* a half written page stays.                                              *)
TargetInv ==
  /\ rpc # "idle" => target = 1 - valid
  /\ fout => rpc \in {"names", "read"}

WritingInv ==
  /\ TargetInv
  /\ \A p \in Pages : file[p].state = "partial" => p = target /\ fout

(* A worker that has seen no flip is in the valid page. *)
ReadingInv ==
  \A r \in Readers :
    pc[r] # "idle" /\ ~flipped[r] =>
      page[r] = valid /\ intact[r] /\ file[page[r]] = base[r]

LEMMA WritingInit == Init => WritingInv
  BY DEF Init, WritingInv, TargetInv, BlankPage

LEMMA TargetInit == Init => TargetInv
  BY WritingInit DEF WritingInv

LEMMA TargetNext == TypeOK /\ TargetInv /\ [Next]_vars => TargetInv'
<1> SUFFICES ASSUME TypeOK, TargetInv, [Next]_vars PROVE TargetInv'
  OBVIOUS
<1>1. CASE UNCHANGED <<rpc, target, valid, fout>>
  BY <1>1 DEF TargetInv
<1>2. CASE RefreshBegin
  BY <1>2 DEF RefreshBegin, TargetInv, TargetPage
<1>3. CASE DrainDone \/ OpenPage \/ ListNames \/ ClosePage
  BY <1>3 DEF DrainDone, OpenPage, ListNames, ClosePage, TargetInv
<1>4. CASE Flip
  BY <1>4 DEF Flip, TargetInv
<1>5. ASSUME NEW q \in Props, ReadProperty(q) \/ MainStep(q)
      PROVE  UNCHANGED <<rpc, target, valid, fout>>
  BY <1>5 DEF ReadProperty, MainStep, AddProperty, DeleteProperty, SetPropertyAttr, SetProperty,
     refreshVars
<1>6. CASE DrainPermit \/ NotifyRefresh
  BY <1>1, <1>6 DEF DrainPermit, NotifyRefresh, refreshVars
<1>7. ASSUME NEW r \in Readers, LoadState(r) \/ SendChunk(r) \/ ReaderStep(r)
      PROVE  UNCHANGED <<rpc, target, valid, fout>>
  BY <1>7 DEF LoadState, SendChunk, ReaderStep, OpenFile, Register, FinishSend, Unregister,
     refreshVars
<1>8. CASE UNCHANGED vars
  BY <1>1, <1>8 DEF vars
<1> QED
  BY <1>1, <1>2, <1>3, <1>4, <1>5, <1>6, <1>7, <1>8 DEF Next, RefreshStep

LEMMA WritingNext == TypeOK /\ WritingInv /\ [Next]_vars => WritingInv'
<1> SUFFICES ASSUME TypeOK, WritingInv, [Next]_vars PROVE WritingInv'
  OBVIOUS
<1>a. TargetInv /\ TargetInv'
  BY TargetNext DEF WritingInv
<1>1. CASE UNCHANGED <<target, fout, file>>
  BY <1>a, <1>1 DEF WritingInv
<1>2. CASE RefreshBegin
  BY <1>a, <1>2 DEF RefreshBegin, WritingInv, TargetInv
<1>3. CASE OpenPage
  <2>1. /\ ~fout /\ target' = target /\ fout' = CanOpen
        /\ file' = IF CanOpen THEN [file EXCEPT ![target].state = "partial"] ELSE file
    BY <1>a, <1>3 DEF OpenPage, TargetInv
  <2>2. ASSUME NEW p \in Pages, file'[p].state = "partial" PROVE p = target /\ fout'
    BY <2>1, <2>2 DEF WritingInv, TypeOK, Contents
  <2> QED
    BY <1>a, <2>1, <2>2 DEF WritingInv
<1>4. CASE ClosePage
  <2>1. ASSUME NEW p \in Pages PROVE file'[p].state # "partial"
    BY <1>4 DEF ClosePage, WritingInv, TypeOK, Contents
  <2> QED
    BY <1>a, <2>1 DEF WritingInv
<1>5. CASE DrainPermit \/ DrainDone \/ ListNames \/ Flip \/ NotifyRefresh
  BY <1>1, <1>5 DEF DrainPermit, DrainDone, ListNames, Flip, NotifyRefresh, refreshVars
<1>6. ASSUME NEW q \in Props, ReadProperty(q) \/ MainStep(q) PROVE UNCHANGED <<target, fout, file>>
  BY <1>6 DEF ReadProperty, MainStep, AddProperty, DeleteProperty, SetPropertyAttr, SetProperty,
     refreshVars
<1>7. ASSUME NEW r \in Readers, LoadState(r) \/ SendChunk(r) \/ ReaderStep(r)
      PROVE  UNCHANGED <<target, fout, file>>
  BY <1>7 DEF LoadState, SendChunk, ReaderStep, OpenFile, Register, FinishSend, Unregister,
     refreshVars
<1>8. CASE UNCHANGED vars
  BY <1>1, <1>8 DEF vars
<1> QED
  BY <1>1, <1>2, <1>3, <1>4, <1>5, <1>6, <1>7, <1>8 DEF Next, RefreshStep

(* A page file is only written while it is not the valid one. *)
LEMMA ValidFileKept ==
  ASSUME TypeOK, TargetInv, OpenPage \/ ClosePage
  PROVE  file'[valid] = file[valid] /\ valid' = valid
  BY DEF TypeOK, TargetInv, OpenPage, ClosePage, Contents

(* No step of the refresh thread disturbs the page that the state pair      *)
(* names: what clients are sent to is never half written.                   *)
THEOREM ValidPageAlwaysWhole == Spec => []ValidPageWhole
<1>1. TypeOK /\ WritingInv => ValidPageWhole
  BY DEF TypeOK, WritingInv, TargetInv, ValidPageWhole
<1> QED
  BY <1>1, WritingInit, WritingNext, TypeCorrect, PTL DEF Spec

-----------------------------------------------------------------------------
LEMMA ReadingInit == Init => ReadingInv
  BY DEF Init, ReadingInv

LEMMA ReadingNext == TypeOK /\ TargetInv /\ ReadingInv /\ [Next]_vars => ReadingInv'
<1> SUFFICES ASSUME TypeOK, TargetInv, ReadingInv, [Next]_vars PROVE ReadingInv'
  OBVIOUS
<1>1. CASE UNCHANGED <<pc, flipped, page, intact, base, valid, file>>
  BY <1>1 DEF ReadingInv
<1>2. CASE OpenPage \/ ClosePage
  <2>1. UNCHANGED <<pc, flipped, page, intact, base>>
    BY <1>2 DEF OpenPage, ClosePage, workerVars
  <2> QED
    BY <1>2, <2>1, ValidFileKept DEF ReadingInv
<1>3. CASE Flip
  BY <1>3 DEF Flip, ReadingInv, workerVars
<1>4. ASSUME NEW r \in Readers, LoadState(r) \/ SendChunk(r) \/ ReaderStep(r)
      PROVE  ReadingInv'
  <2>1. valid' = valid /\ file' = file
    BY <1>4 DEF LoadState, SendChunk, ReaderStep, OpenFile, Register, FinishSend, Unregister
  <2>2. ASSUME NEW s \in Readers, s # r
        PROVE  /\ pc'[s] = pc[s] /\ page'[s] = page[s] /\ base'[s] = base[s]
               /\ (intact'[s] <=> intact[s]) /\ (flipped'[s] <=> flipped[s])
    BY <1>4, <2>2 DEF TypeOK, LoadState, SendChunk, ReaderStep, OpenFile, Register, FinishSend,
       Unregister
  <2>3. CASE LoadState(r)
    <3>1. page'[r] = valid /\ intact'[r] /\ base'[r] = file[valid]
      BY <2>3 DEF LoadState, ReadPage, TypeOK
    <3> QED
      BY <2>1, <2>2, <3>1 DEF ReadingInv
  <2>4. CASE SendChunk(r) \/ OpenFile(r)
    <3>1. /\ pc[r] # "idle" /\ page'[r] = page[r] /\ base'[r] = base[r]
          /\ flipped' = flipped
          /\ intact[r] /\ file[page[r]] = base[r] => intact'[r]
      BY <2>4 DEF SendChunk, OpenFile, TypeOK
    <3> QED
      BY <2>1, <2>2, <3>1 DEF ReadingInv
  <2>5. CASE Register(r) \/ FinishSend(r) \/ Unregister(r)
    <3>1. pc[r] # "idle" /\ UNCHANGED <<page, base, flipped, intact>>
      BY <2>5 DEF Register, FinishSend, Unregister
    <3> QED
      BY <2>1, <2>2, <3>1 DEF ReadingInv
  <2> QED
    BY <1>4, <2>3, <2>4, <2>5 DEF ReaderStep
<1>5. CASE RefreshBegin \/ DrainPermit \/ DrainDone \/ ListNames \/ NotifyRefresh
  BY <1>1, <1>5 DEF RefreshBegin, DrainPermit, DrainDone, ListNames, NotifyRefresh, workerVars
<1>6. ASSUME NEW q \in Props, ReadProperty(q) \/ MainStep(q)
      PROVE  UNCHANGED <<pc, flipped, page, intact, base, valid, file>>
  BY <1>6 DEF ReadProperty, MainStep, AddProperty, DeleteProperty, SetPropertyAttr, SetProperty,
     workerVars
<1>7. CASE UNCHANGED vars
  BY <1>1, <1>7 DEF vars
<1> QED
  BY <1>1, <1>2, <1>3, <1>4, <1>5, <1>6, <1>7 DEF Next, RefreshStep

(* Two files are enough until the first flip: a worker sends exactly the    *)
(* page it took as long as the refresh thread has not published another.    *)
THEOREM IntactReads == Spec => []IntactUntilFlip
<1>1. ReadingInv => IntactUntilFlip
  BY DEF ReadingInv, IntactUntilFlip
<1> QED
  BY <1>1, ReadingInit, ReadingNext, TargetInit, TargetNext, TypeCorrect, PTL DEF Spec

-----------------------------------------------------------------------------
(* What the refresh thread has read so far, while no notification is        *)
(* outstanding, is up to date.                                              *)
CurrentInv ==
  /\ rpc \in {"names", "read"} => fout
  /\ main = "idle" /\ refreshSem = 0 =>
       /\ rpc = "idle" => file[valid].ver = ver
       /\ rpc = "read" => \A q \in Props \ todo : snap[q] = ver[q]
       /\ rpc = "flip" => file[target].ver = ver

LEMMA CurrentInit == Init => CurrentInv
  BY DEF Init, CurrentInv, BlankPage

LEMMA CurrentNext ==
  ASSUME ~FilesRunOut, TypeOK, WritingInv, CurrentInv, [Next]_vars
  PROVE  CurrentInv'
<1>1. CASE UNCHANGED <<main, refreshSem, rpc, fout, file, valid, ver, snap, todo, target>>
  BY <1>1 DEF CurrentInv
<1>2. ASSUME NEW q \in Props, MainStep(q) PROVE CurrentInv'
  <2>1. main' = "notify" /\ rpc' = rpc /\ (fout' <=> fout)
    BY <1>2 DEF MainStep, AddProperty, DeleteProperty, SetPropertyAttr, SetProperty, refreshVars
  <2> QED
    BY <2>1 DEF CurrentInv
<1>3. CASE NotifyRefresh
  <2>1. refreshSem' # 0 /\ rpc' = rpc /\ (fout' <=> fout)
    BY <1>3 DEF NotifyRefresh, ReleaseRefresh, TypeOK, refreshVars
  <2> QED
    BY <2>1 DEF CurrentInv
<1>4. CASE RefreshBegin
  BY <1>4 DEF RefreshBegin, CurrentInv
<1>5. CASE DrainPermit
  BY <1>1, <1>5 DEF DrainPermit, dbVars, refreshVars
<1>6. CASE DrainDone
  BY <1>6 DEF DrainDone, CurrentInv
<1>7. CASE OpenPage
  <2>1. fout' /\ rpc' = "names"
    BY <1>7 DEF OpenPage, CanOpen
  <2> QED
    BY <2>1 DEF CurrentInv
<1>8. CASE ListNames
  <2>1. \A q \in Props \ todo' : snap'[q] = ver'[q]
    BY <1>8 DEF ListNames, dbVars
  <2>2. rpc' = "read" /\ fout'
    BY <1>8 DEF ListNames, CurrentInv
  <2> QED
    BY <2>1, <2>2 DEF CurrentInv
<1>9. ASSUME NEW q \in Props, ReadProperty(q) PROVE CurrentInv'
  <2>1. /\ rpc = "read" /\ rpc' = "read" /\ (fout' <=> fout) /\ ver' = ver
        /\ main' = main /\ refreshSem' = refreshSem
        /\ todo' = todo \ {q} /\ snap' = [snap EXCEPT ![q] = ver[q]]
    BY <1>9 DEF ReadProperty, dbVars
  <2>2. ASSUME main = "idle", refreshSem = 0, NEW s \in Props \ todo'
        PROVE  snap'[s] = ver'[s]
    BY <2>1, <2>2 DEF CurrentInv, TypeOK, Versions
  <2> QED
    BY <2>1, <2>2 DEF CurrentInv
<1>10. CASE ClosePage
  <2>1. /\ rpc = "read" /\ fout /\ todo = {} /\ rpc' = "flip" /\ UNCHANGED <<dbVars, refreshSem>>
        /\ target' = target
        /\ file' = [file EXCEPT ![target] = [state |-> "whole", ver |-> snap]]
    BY <1>10 DEF ClosePage, CurrentInv
  <2>2. file'[target'].ver = snap
    BY <2>1 DEF TypeOK
  <2>3. ASSUME main = "idle", refreshSem = 0 PROVE snap = ver
    BY <2>1, <2>3 DEF CurrentInv, TypeOK, Versions
  <2> QED
    BY <2>1, <2>2, <2>3 DEF CurrentInv, dbVars
<1>11. CASE Flip
  <2>1. /\ rpc = "flip" /\ rpc' = "idle" /\ UNCHANGED <<dbVars, refreshSem, file>>
        /\ valid' = target
    BY <1>11 DEF Flip, FlipPage, WritingInv, TargetInv
  <2> QED
    BY <2>1 DEF CurrentInv, dbVars
<1>12. ASSUME NEW r \in Readers, LoadState(r) \/ SendChunk(r) \/ ReaderStep(r)
       PROVE  UNCHANGED <<main, refreshSem, rpc, fout, file, valid, ver, snap, todo, target>>
  BY <1>12 DEF LoadState, SendChunk, ReaderStep, OpenFile, Register, FinishSend, Unregister,
     dbVars, refreshVars
<1>13. CASE UNCHANGED vars
  BY <1>1, <1>13 DEF vars
<1> QED
  BY <1>1, <1>2, <1>3, <1>4, <1>5, <1>6, <1>7, <1>8, <1>9, <1>10, <1>11, <1>12, <1>13
  DEF Next, RefreshStep

(* No change is forgotten, however the calls interleave with a refresh:     *)
(* when the main and the refresh thread have nothing left to do, the valid  *)
(* page is up to date.  It needs that the page file can be opened.          *)
THEOREM NoChangeForgotten == ASSUME ~FilesRunOut PROVE Spec => []QuietPageCurrent
<1>1. CurrentInv => QuietPageCurrent
  BY DEF CurrentInv, QuietPageCurrent
<1>2. TypeOK /\ WritingInv /\ CurrentInv /\ [Next]_vars => CurrentInv'
  BY CurrentNext
<1> QED
  BY <1>1, <1>2, CurrentInit, WritingInit, WritingNext, TypeCorrect, PTL DEF Spec

-----------------------------------------------------------------------------
(* Versions a page shows were reached, and what the refresh thread has read *)
(* is no older than what is published.                                      *)
VersionInv ==
  /\ \A q \in Props : snap[q] <= ver[q]
  /\ \A p \in Pages, q \in Props : file[p].ver[q] <= ver[q]
  /\ rpc = "read" => \A q \in Props \ todo : file[valid].ver[q] <= snap[q]
  /\ rpc = "flip" => \A q \in Props : file[valid].ver[q] <= file[target].ver[q]
  /\ rpc \in {"names", "read"} => fout

LEMMA VersionInit == Init => VersionInv
  BY DEF Init, VersionInv, BlankPage, NoVersion

LEMMA VersionsInNat == \A v \in Versions : \A q \in Props : v[q] \in Nat
  BY PingPongAssumption DEF Versions

LEMMA VersionNext ==
  ASSUME ~FilesRunOut, TypeOK, WritingInv, VersionInv, [Next]_vars
  PROVE  VersionInv'
<1> USE VersionsInNat
<1>1. CASE UNCHANGED <<rpc, fout, file, valid, ver, snap, todo, target>>
  BY <1>1 DEF VersionInv
<1>2. ASSUME NEW q \in Props, MainStep(q) PROVE VersionInv'
  <2>1. /\ UNCHANGED <<refreshVars, valid, file>>
        /\ ver' = [ver EXCEPT ![q] = @ + 1]
    BY <1>2 DEF MainStep, AddProperty, DeleteProperty, SetPropertyAttr, SetProperty
  <2>2. \A s \in Props : ver[s] <= ver'[s] /\ ver[s] \in Nat /\ ver'[s] \in Nat
    BY <2>1 DEF TypeOK, Versions
  <2>3. \A s \in Props : snap[s] \in Nat /\ \A p \in Pages : file[p].ver[s] \in Nat
    BY DEF TypeOK, Contents
  <2> QED
    BY <2>1, <2>2, <2>3 DEF VersionInv, refreshVars
<1>3. CASE OpenPage
  <2>1. /\ fout' /\ rpc' = "names" /\ UNCHANGED <<ver, snap>>
        /\ file' = [file EXCEPT ![target].state = "partial"]
    BY <1>3 DEF OpenPage, CanOpen, dbVars
  <2>2. \A p \in Pages : file'[p].ver = file[p].ver
    BY <2>1 DEF TypeOK, Contents
  <2> QED
    BY <2>1, <2>2 DEF VersionInv
<1>4. CASE ListNames
  <2>1. /\ \A q \in Props : snap'[q] = IF q \in present THEN snap[q] ELSE ver[q]
        /\ rpc' = "read" /\ UNCHANGED <<ver, valid, file>> /\ (fout' <=> fout)
        /\ todo' = present
    BY <1>4 DEF ListNames, dbVars
  <2>2. rpc = "names"
    BY <1>4 DEF ListNames
  <2>3. \A q \in Props : ver[q] \in Nat
    BY DEF TypeOK
  <2> QED
    BY <2>1, <2>2, <2>3 DEF VersionInv, TypeOK
<1>5. ASSUME NEW q \in Props, ReadProperty(q) PROVE VersionInv'
  <2>1. /\ rpc = "read" /\ rpc' = "read" /\ UNCHANGED <<ver, valid, file>> /\ (fout' <=> fout)
        /\ todo' = todo \ {q}
        /\ \A s \in Props : snap'[s] = IF s = q THEN ver[q] ELSE snap[s]
    BY <1>5 DEF ReadProperty, dbVars, TypeOK, Versions
  <2>2. \A s \in Props : ver[s] \in Nat
    BY DEF TypeOK
  <2> QED
    BY <2>1, <2>2 DEF VersionInv, TypeOK
<1>6. CASE ClosePage
  <2>1. /\ rpc = "read" /\ rpc' = "flip" /\ todo = {} /\ fout
        /\ UNCHANGED <<ver, valid, snap, target>>
        /\ file' = [file EXCEPT ![target] = [state |-> "whole", ver |-> snap]]
    BY <1>6 DEF ClosePage, dbVars, VersionInv
  <2>2. \A p \in Pages : file'[p].ver = IF p = target THEN snap ELSE file[p].ver
    BY <2>1 DEF TypeOK
  <2>3. valid \in Pages /\ target \in Pages /\ valid # target
    BY <2>1 DEF TypeOK, WritingInv, TargetInv
  <2> QED
    BY <2>1, <2>2, <2>3 DEF VersionInv
<1>7. CASE Flip
  BY <1>7 DEF Flip, VersionInv, dbVars, WritingInv, TargetInv
<1>8. CASE RefreshBegin
  BY <1>8 DEF RefreshBegin, VersionInv, dbVars
<1>9. CASE DrainDone
  BY <1>9 DEF DrainDone, VersionInv, dbVars
<1>10. CASE DrainPermit \/ NotifyRefresh
  BY <1>1, <1>10 DEF DrainPermit, NotifyRefresh, dbVars, refreshVars
<1>11. ASSUME NEW r \in Readers, LoadState(r) \/ SendChunk(r) \/ ReaderStep(r)
       PROVE  UNCHANGED <<rpc, fout, file, valid, ver, snap, todo, target>>
  BY <1>11 DEF LoadState, SendChunk, ReaderStep, OpenFile, Register, FinishSend, Unregister,
     dbVars, refreshVars
<1>12. CASE UNCHANGED vars
  BY <1>1, <1>12 DEF vars
<1> QED
  BY <1>1, <1>2, <1>3, <1>4, <1>5, <1>6, <1>7, <1>8, <1>9, <1>10, <1>11, <1>12
  DEF Next, RefreshStep

LEMMA PublicationInit == Init => Publication!Init
  BY DEF Init, Publication!Init, BlankPage, NoVersion

LEMMA PublicationNext ==
  ASSUME TypeOK, WritingInv, VersionInv, [Next]_vars
  PROVE  [Publication!Next]_(Publication!vars)
<1> USE VersionsInNat
<1>1. CASE UNCHANGED <<ver, file, valid>>
  BY <1>1 DEF Publication!vars
<1>2. ASSUME NEW q \in Props, MainStep(q) PROVE Publication!Change(q)
  BY <1>2 DEF MainStep, AddProperty, DeleteProperty, SetPropertyAttr, SetProperty,
     Publication!Change
<1>3. CASE OpenPage \/ ClosePage
  <2>1. ver' = ver
    BY <1>3 DEF OpenPage, ClosePage, dbVars
  <2> QED
    BY <1>3, <2>1, ValidFileKept DEF WritingInv, Publication!vars
<1>4. CASE Flip
  <2>1. rpc = "flip" /\ valid' = target /\ file' = file /\ ver' = ver
    BY <1>4 DEF Flip, FlipPage, WritingInv, TargetInv, dbVars
  <2>2. file[target].ver \in [Props -> Nat]
    BY PingPongAssumption DEF TypeOK, Contents, Versions
  <2>3. Publication!Publish
    BY <2>1, <2>2 DEF Publication!Publish, VersionInv, TypeOK
  <2> QED
    BY <2>3 DEF Publication!Next
<1>5. CASE RefreshBegin \/ DrainPermit \/ DrainDone \/ ListNames \/ NotifyRefresh
  BY <1>1, <1>5 DEF RefreshBegin, DrainPermit, DrainDone, ListNames, NotifyRefresh, dbVars
<1>6. ASSUME NEW q \in Props, ReadProperty(q) PROVE UNCHANGED <<ver, file, valid>>
  BY <1>6 DEF ReadProperty, dbVars
<1>7. ASSUME NEW r \in Readers, LoadState(r) \/ SendChunk(r) \/ ReaderStep(r)
      PROVE  UNCHANGED <<ver, file, valid>>
  BY <1>7 DEF LoadState, SendChunk, ReaderStep, OpenFile, Register, FinishSend, Unregister,
     dbVars
<1>8. CASE UNCHANGED vars
  BY <1>1, <1>8 DEF vars
<1> QED
  BY <1>1, <1>2, <1>3, <1>4, <1>5, <1>6, <1>7, <1>8 DEF Next, RefreshStep, Publication!Next

(* The two files, the flip and the refresh thread implement what a page is  *)
(* to be: the published page only ever moves forward, and shows nothing     *)
(* that was not so.  It needs that the page file can be opened.             *)
THEOREM ImplementsPublication == ASSUME ~FilesRunOut PROVE Spec => PublicationSpec
<1>1. TypeOK /\ WritingInv /\ VersionInv /\ [Next]_vars => VersionInv'
  BY VersionNext
<1>2. TypeOK /\ WritingInv /\ VersionInv /\ [Next]_vars
      => [Publication!Next]_(Publication!vars)
  BY PublicationNext
<1> QED
  BY <1>1, <1>2, VersionInit, PublicationInit, WritingInit, WritingNext, TypeCorrect, PTL
  DEF Spec, PublicationSpec, Publication!Spec

-----------------------------------------------------------------------------
(* Permits and workers are counted together.                                *)

LEMMA RegisteredFinite == \A p \in Pages : IsFiniteSet(Registered(p))
  BY FS_Subset, PingPongAssumption DEF Registered

LEMMA PermitsInit == Init => PermitsConserved
<1> SUFFICES ASSUME Init PROVE PermitsConserved
  OBVIOUS
<1>1. \A p \in Pages : Registered(p) = {} /\ sem[p] = 0 /\ lost[p] = 0
  BY DEF Init, Registered
<1> QED
  BY <1>1, FS_EmptySet DEF PermitsConserved

LEMMA PermitsNext == TypeOK /\ PermitsConserved /\ [Next]_vars => PermitsConserved'
<1> SUFFICES ASSUME TypeOK, PermitsConserved, [Next]_vars, NEW p \in Pages
             PROVE  Cardinality(Registered(p)') = sem'[p] + lost'[p]
  BY DEF PermitsConserved
<1>a. IsFiniteSet(Registered(p)) /\ Cardinality(Registered(p)) = sem[p] + lost[p]
  BY RegisteredFinite DEF PermitsConserved
<1>1. CASE UNCHANGED <<pc, page, sem, lost>>
  BY <1>1, <1>a DEF Registered
<1>2. CASE DrainPermit
  <2>1. Registered(p)' = Registered(p)
    BY <1>2 DEF DrainPermit, Registered, workerVars
  <2>2. sem'[p] + lost'[p] = sem[p] + lost[p]
    BY <1>2 DEF DrainPermit, TypeOK
  <2> QED
    BY <2>1, <2>2, <1>a
<1>3. ASSUME NEW r \in Readers, LoadState(r) \/ OpenFile(r) \/ FinishSend(r)
      PROVE  Cardinality(Registered(p)') = sem'[p] + lost'[p]
  <2>1. UNCHANGED <<sem, lost>>
    BY <1>3 DEF LoadState, OpenFile, FinishSend
  <2>2. \A s \in Readers : s \in Registered(p)' <=> s \in Registered(p)
    BY <1>3 DEF LoadState, OpenFile, FinishSend, Registered, TypeOK
  <2>3. Registered(p)' = Registered(p)
    BY <2>2 DEF Registered
  <2> QED
    BY <2>1, <2>3, <1>a
<1>4. ASSUME NEW r \in Readers, Register(r)
      PROVE  Cardinality(Registered(p)') = sem'[p] + lost'[p]
  <2>1. /\ pc[r] = "register" /\ page' = page /\ lost' = lost
        /\ sem'[p] = IF p = page[r] THEN sem[p] + 1 ELSE sem[p]
        /\ pc'[r] \in {"send", "unregister"}
        /\ \A s \in Readers : s # r => pc'[s] = pc[s]
    BY <1>4 DEF Register, PermitPage, TypeOK
  <2>2. CASE p = page[r]
    <3>1. Registered(p)' = Registered(p) \union {r} /\ r \notin Registered(p)
      BY <2>1, <2>2 DEF Registered
    <3>2. Cardinality(Registered(p)') = Cardinality(Registered(p)) + 1
      BY <3>1, <1>a, FS_AddElement
    <3> QED
      BY <2>1, <2>2, <3>2, <1>a DEF TypeOK
  <2>3. CASE p # page[r]
    <3>1. Registered(p)' = Registered(p)
      BY <2>1, <2>3 DEF Registered
    <3> QED
      BY <2>1, <2>3, <3>1, <1>a
  <2> QED
    BY <2>2, <2>3
<1>5. ASSUME NEW r \in Readers, Unregister(r)
      PROVE  Cardinality(Registered(p)') = sem'[p] + lost'[p]
  <2>1. /\ pc[r] = "unregister" /\ page' = page /\ lost' = lost
        /\ sem[page[r]] > 0
        /\ sem'[p] = IF p = page[r] THEN sem[p] - 1 ELSE sem[p]
        /\ pc'[r] = "idle"
        /\ \A s \in Readers : s # r => pc'[s] = pc[s]
    BY <1>5 DEF Unregister, TypeOK
  <2>2. CASE p = page[r]
    <3>1. Registered(p)' = Registered(p) \ {r} /\ r \in Registered(p)
      BY <2>1, <2>2 DEF Registered
    <3>2. Cardinality(Registered(p)') = Cardinality(Registered(p)) - 1
      BY <3>1, <1>a, FS_RemoveElement
    <3> QED
      BY <2>1, <2>2, <3>2, <1>a DEF TypeOK
  <2>3. CASE p # page[r]
    <3>1. Registered(p)' = Registered(p)
      BY <2>1, <2>3 DEF Registered
    <3> QED
      BY <2>1, <2>3, <3>1, <1>a
  <2> QED
    BY <2>2, <2>3
<1>6. ASSUME NEW r \in Readers, SendChunk(r) PROVE UNCHANGED <<pc, page, sem, lost>>
  BY <1>6 DEF SendChunk
<1>7. ASSUME NEW q \in Props, MainStep(q) \/ ReadProperty(q)
      PROVE  UNCHANGED <<pc, page, sem, lost>>
  BY <1>7 DEF MainStep, AddProperty, DeleteProperty, SetPropertyAttr, SetProperty, ReadProperty,
     workerVars
<1>8. CASE NotifyRefresh \/ RefreshBegin \/ DrainDone \/ OpenPage \/ ListNames \/ ClosePage \/ Flip
  BY <1>1, <1>8 DEF NotifyRefresh, RefreshBegin, DrainDone, OpenPage, ListNames, ClosePage, Flip,
     workerVars
<1>9. CASE UNCHANGED vars
  BY <1>1, <1>9 DEF vars
<1> QED
  BY <1>1, <1>2, <1>3, <1>4, <1>5, <1>6, <1>7, <1>8, <1>9 DEF Next, RefreshStep, ReaderStep

(* A worker waits in the destructor of its accessor only when the refresh   *)
(* thread has drained a permit of its page: permits in the semaphore and    *)
(* permits drained always add up to the workers in the page.                *)
THEOREM PermitsAlwaysConserved == Spec => []PermitsConserved
  BY PermitsInit, PermitsNext, TypeCorrect, PTL DEF Spec

-----------------------------------------------------------------------------
(* Crashes.  A crash leaves the files as they are and everything else as it *)
(* is at a start, so that what does not speak of their contents survives.   *)
LEMMA CrashKeeps ==
  ASSUME TypeOK, Crash
  PROVE  TypeOK' /\ TargetInv' /\ ReadingInv' /\ PermitsConserved'
<1>1. /\ present' \subseteq Props /\ main' \in {"idle", "notify"} /\ refreshSem' \in Nat
      /\ todo' \subseteq Props /\ snap' \in Versions /\ fout' \in BOOLEAN
      /\ target' \in Pages /\ valid' \in Pages /\ file' \in [Pages -> Contents]
      /\ rpc' \in {"idle", "drain", "open", "names", "read", "flip"}
  BY BlankPageType DEF Crash, TypeOK
<1>2. ver' \in Versions
  <2>1. ASSUME NEW q \in Props PROVE (IF q \in present THEN ver[q] + 1 ELSE ver[q]) \in 0 .. MaxVersion
    BY PingPongAssumption DEF Crash, TypeOK, Versions
  <2> QED
    BY <2>1 DEF Crash, Versions
<1>3. leaked' \in 0 .. MaxFiles
  BY PingPongAssumption DEF Crash
<1>4. /\ base' \in [Readers -> Contents] /\ sem' \in [Pages -> Nat] /\ lost' \in [Pages -> Nat]
      /\ pc' \in [Readers -> {"idle", "open", "register", "send", "unregister"}]
      /\ page' \in [Readers -> Pages] /\ got' \in [Readers -> BOOLEAN]
      /\ intact' \in [Readers -> BOOLEAN] /\ flipped' \in [Readers -> BOOLEAN]
  BY BlankPageType DEF Crash
<1>5. TargetInv' /\ ReadingInv'
  BY DEF Crash, TargetInv, ReadingInv
<1>6. PermitsConserved'
  <2>1. \A p \in Pages : Registered(p)' = {} /\ sem'[p] = 0 /\ lost'[p] = 0
    BY DEF Crash, Registered
  <2> QED
    BY <2>1, FS_EmptySet DEF PermitsConserved
<1> QED
  BY <1>1, <1>2, <1>3, <1>4, <1>5, <1>6 DEF TypeOK

LEMMA CrashNext ==
  /\ TypeOK /\ [Next \/ Crash]_vars => TypeOK'
  /\ TypeOK /\ TargetInv /\ [Next \/ Crash]_vars => TargetInv'
  /\ TypeOK /\ TargetInv /\ ReadingInv /\ [Next \/ Crash]_vars => ReadingInv'
  /\ TypeOK /\ PermitsConserved /\ [Next \/ Crash]_vars => PermitsConserved'
  BY TypeNext, TargetNext, ReadingNext, PermitsNext, CrashKeeps

(* A restart finds every variable of its type, whatever was under way.      *)
THEOREM TypeCorrectInCrashes == CrashSpec => []TypeOK
  BY TypeInit, CrashNext, PTL DEF CrashSpec

(* A worker sends the page it took until the first flip after that, even a  *)
(* page an earlier crash has left half written: refreshes go on writing the *)
(* other one.                                                              *)
THEOREM IntactReadsInCrashes == CrashSpec => []IntactUntilFlip
<1>1. ReadingInv => IntactUntilFlip
  BY DEF ReadingInv, IntactUntilFlip
<1> QED
  BY <1>1, ReadingInit, TargetInit, TypeInit, CrashNext, PTL DEF CrashSpec

(* No permit outlives the workers of a process that crashed.                *)
THEOREM PermitsConservedInCrashes == CrashSpec => []PermitsConserved
  BY PermitsInit, TypeInit, CrashNext, PTL DEF CrashSpec
=============================================================================
