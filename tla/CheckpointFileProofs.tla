------------------------- MODULE CheckpointFileProofs -------------------------
(***************************************************************************)
(* What the two files of a checkpoint guarantee, for any number of writers *)
(* and of writes, wherever they die and whenever the power fails; and that *)
(* together they are one register.                                         *)
(***************************************************************************)
EXTENDS CheckpointFile, TLAPS

\* The numbers of the writes that ended are those of writes that began, and every
\* file belongs to a write that began.
Numbers ==
  /\ over \subseteq 1..last
  /\ \A f \in files \union gone : f[1] <= last

BaseInv == TypeOK /\ Numbers

\* TypeOK in parts: the directory, the writers, the history, who owns a number.
DirectoryTyped ==
  /\ main \in Content /\ bak \in Content
  /\ mainCut \subseteq Content /\ bakCut \subseteq Content
  /\ files \subseteq File /\ gone \subseteq File

WritersTyped ==
  /\ pc \in [Writer -> PC]
  /\ ver \in [Writer -> Nat]
  /\ doomed \in [Writer -> SUBSET File]
  /\ copy \in [Writer -> Content]

HistoryTyped ==
  /\ damaged \in BOOLEAN
  /\ last \in Nat
  /\ over \subseteq Nat \ {0} /\ done \subseteq over /\ order \subseteq over \X Nat

Owned == \A w, x \in Writer : pc[w] # "idle" =>
  /\ ver[w] \in 1..last
  /\ ver[w] \notin over
  /\ pc[x] # "idle" /\ ver[x] = ver[w] => x = w

Copied == \A w \in Writer : pc[w] \in {"rotating", "copied"} => Valid(copy[w])


-----------------------------------------------------------------------------
\* The invariant is the conjunction of its parts.
LEMMA BaseParts ==
  BaseInv <=> DirectoryTyped /\ WritersTyped /\ HistoryTyped /\ Owned /\ Copied /\ Numbers
BY DEF BaseInv, TypeOK, DirectoryTyped, WritersTyped, HistoryTyped, Owned, Copied, Numbers

LEMMA BasePartsNext ==
  DirectoryTyped' /\ WritersTyped' /\ HistoryTyped' /\ Owned' /\ Copied' /\ Numbers' => BaseInv'
BY DEF BaseInv, TypeOK, DirectoryTyped, WritersTyped, HistoryTyped, Owned, Copied, Numbers

\* A relation from a set is one from a larger set.
LEMMA Widened ==
  ASSUME NEW A, NEW B, NEW R, A \subseteq B, R \subseteq A \X Nat PROVE R \subseteq B \X Nat
OBVIOUS

\* The first state has the types.
LEMMA BaseInit == Init => BaseInv
<1> SUFFICES ASSUME Init PROVE BaseInv
  OBVIOUS
<1> USE DEF Init
<1>1. DirectoryTyped
  BY DEF DirectoryTyped, Content, Absent
<1>2. WritersTyped
  BY DEF WritersTyped, PC, Content, Absent
<1>3. HistoryTyped
  BY DEF HistoryTyped
<1>4. Owned /\ Copied
  BY DEF Owned, Copied
<1>5. Numbers
  BY DEF Numbers
<1> QED BY <1>1, <1>2, <1>3, <1>4, <1>5, BaseParts

\* A step of a writer keeps the types and the numbers.
LEMMA BaseWrite == ASSUME BaseInv, NEW w \in Writer, Write(w) PROVE BaseInv'
<1>1. /\ DirectoryTyped /\ WritersTyped /\ HistoryTyped /\ Owned /\ Copied /\ Numbers
  BY BaseParts
<1>2. DirectoryTyped' /\ Numbers'
  <2> USE <1>1 DEF DirectoryTyped, WritersTyped, HistoryTyped, Owned, Copied, Numbers, Content,
        File, Absent, Torn, dirVars, history, Tmp, BakTmp, Goto
  <2>1. CASE Begin(w)
    BY <2>1 DEF Begin
  <2>2. CASE Unlink(w)
    BY <2>2 DEF Remove, Unlink
  <2>3. CASE WriteTmp(w)
    BY <2>3 DEF WriteTmp
  <2>4. CASE ReadMain(w)
    BY <2>4 DEF ReadMain
  <2>5. CASE WriteBakTmp(w)
    BY <2>5 DEF WriteBakTmp
  <2>6. CASE PlaceBackup(w)
    <3>1. bak' = copy[w] /\ bak' \in Content
      BY <2>6 DEF Remove, PlaceBackup
    <3> QED BY <2>6, <3>1 DEF Remove, PlaceBackup
  <2>7. CASE Place(w)
    <3>1. main' = ver[w] /\ main' \in Content
      BY <2>7 DEF Remove, Place
    <3> QED BY <2>7, <3>1 DEF Remove, Place
  <2>8. CASE Return(w)
    <3>1. ver[w] \in 1..last
      BY <2>8 DEF Return
    <3> QED BY <2>8, <3>1 DEF Return
  <2> QED BY <2>1, <2>2, <2>3, <2>4, <2>5, <2>6, <2>7, <2>8 DEF Write
<1>3. WritersTyped' /\ Copied'
  <2> USE <1>1 DEF DirectoryTyped, WritersTyped, HistoryTyped, Copied, PC, File, dirVars, history,
        Goto
  <2>1. CASE Begin(w)
    BY <2>1 DEF Begin
  <2>2. CASE Unlink(w)
    BY <2>2 DEF Remove, Unlink
  <2>3. CASE WriteTmp(w)
    BY <2>3 DEF WriteTmp
  <2>4. CASE ReadMain(w)
    BY <2>4 DEF ReadMain
  <2>5. CASE WriteBakTmp(w)
    BY <2>5 DEF WriteBakTmp
  <2>6. CASE PlaceBackup(w)
    BY <2>6 DEF Remove, PlaceBackup
  <2>7. CASE Place(w)
    BY <2>7 DEF Remove, Place
  <2>8. CASE Return(w)
    BY <2>8 DEF Return
  <2> QED BY <1>1, <2>1, <2>2, <2>3, <2>4, <2>5, <2>6, <2>7, <2>8 DEF Write
<1>4. HistoryTyped' /\ Owned'
  <2> USE <1>1 DEF WritersTyped, HistoryTyped, Owned, Numbers, PC, dirVars, history, Goto
  <2>1. CASE Begin(w)
    <3>1. HistoryTyped'
      BY <2>1 DEF Begin
    <3>2. Owned'
      BY <2>1 DEF Begin
    <3> QED BY <3>1, <3>2
  <2>2. CASE Unlink(w) \/ WriteTmp(w) \/ ReadMain(w) \/ WriteBakTmp(w) \/ PlaceBackup(w) \/ Place(w)
    BY <2>2 DEF Remove, Unlink, WriteTmp, ReadMain, WriteBakTmp, PlaceBackup, Place
  <2>3. CASE Return(w)
    <3>1. HistoryTyped'
      <4>1. over \subseteq over' /\ ver[w] \in Nat \ {0}
        <5>1. pc[w] # "idle" /\ over' = over \union {ver[w]}
          BY <2>3 DEF Return
        <5>2. ver[w] \in 1..last
          BY <5>1
        <5> QED BY <5>1, <5>2
      <4>2. order \subseteq over \X Nat
        OBVIOUS
      <4>3. order \subseteq over' \X Nat
        <5> HIDE DEF HistoryTyped, WritersTyped, Owned, Numbers
        <5> QED BY <4>1, <4>2, Widened
      <4> QED BY <2>3, <4>1, <4>3 DEF Return
    <3>2. Owned'
      BY <2>3 DEF Return
    <3> QED BY <3>1, <3>2
  <2> QED BY <2>1, <2>2, <2>3 DEF Write
<1> QED BY <1>2, <1>3, <1>4, BasePartsNext

\* So does a write that raises, fails or dies, and a power cut.
LEMMA BaseFault ==
  ASSUME BaseInv, (\E w \in Writer : Raise(w) \/ Fail(w) \/ Kill(w)) \/ PowerCut
  PROVE  BaseInv'
<1>1. /\ DirectoryTyped /\ WritersTyped /\ HistoryTyped /\ Owned /\ Copied /\ Numbers
  BY BaseParts
<1> USE <1>1
<1>2. ASSUME NEW w \in Writer, Raise(w) \/ Fail(w) \/ Kill(w) PROVE BaseInv'
  <2>1. DirectoryTyped' /\ Numbers'
    BY <1>2 DEF Remove, Raise, Fail, Kill, DirectoryTyped, Numbers, dirVars, history, Owned,
                HistoryTyped, Goto, WritersTyped
  <2>2. WritersTyped'
    BY <1>2 DEF Remove, Raise, Fail, Kill, WritersTyped, PC, Goto
  <2>3. HistoryTyped'
    <3>1. over \subseteq over' /\ over' \subseteq Nat \ {0}
      <4>1. \/ over' = over
            \/ pc[w] # "idle" /\ over' = over \union {ver[w]}
        BY <1>2 DEF Remove, Raise, Fail, Kill, history
      <4>2. pc[w] # "idle" => ver[w] \in 1..last
        BY DEF Owned
      <4>3. pc[w] # "idle" => ver[w] \in Nat \ {0}
        BY <4>2 DEF HistoryTyped
      <4> QED BY <4>1, <4>3 DEF HistoryTyped
    <3>2. order \subseteq over' \X Nat
      BY <3>1, Widened DEF HistoryTyped
    <3> QED BY <1>2, <3>1, <3>2 DEF Remove, Raise, Fail, Kill, HistoryTyped, history
  <2>4. Owned' /\ Copied'
    BY <1>2 DEF Remove, Raise, Fail, Kill, Owned, Copied, WritersTyped, PC, Goto, history
  <2> QED BY <2>1, <2>2, <2>3, <2>4, BasePartsNext
<1>3. CASE PowerCut
  <2>1. {ver[w] : w \in {x \in Writer : pc[x] # "idle"}} \subseteq 1..last
    BY DEF Owned
  <2>2. DirectoryTyped' /\ Numbers'
    BY <1>3, <2>1 DEF PowerCut, DirectoryTyped, Numbers, Content
  <2>3. WritersTyped' /\ Copied' /\ Owned'
    BY <1>3 DEF PowerCut, WritersTyped, PC, Copied, Owned
  <2>4. HistoryTyped'
    <3>1. over \subseteq over' /\ over' \subseteq Nat \ {0}
      <4> DEFINE ended == {ver[w] : w \in {x \in Writer : pc[x] # "idle"}}
      <4>1. over' = over \union ended
        BY <1>3 DEF PowerCut
      <4>2. ended \subseteq Nat \ {0}
        BY <2>1 DEF HistoryTyped
      <4> HIDE DEF ended
      <4> QED BY <4>1, <4>2 DEF HistoryTyped
    <3>2. order \subseteq over' \X Nat
      BY <3>1, Widened DEF HistoryTyped
    <3> QED BY <1>3, <3>1, <3>2 DEF PowerCut, HistoryTyped
  <2> QED BY <2>2, <2>3, <2>4, BasePartsNext
<1> QED BY <1>2, <1>3

\* Every step keeps the types and the numbers.
LEMMA BaseStep == BaseInv /\ [Next]_vars => BaseInv'
<1>1. ASSUME BaseInv, UNCHANGED vars PROVE BaseInv'
  BY <1>1 DEF vars, BaseInv, TypeOK, Numbers
<1> QED BY <1>1, BaseWrite, BaseFault DEF Next

\* Every variable has its type in every behaviour (write_checkpoint).
THEOREM TypeCorrect == Spec => []TypeOK
<1>1. BaseInv => TypeOK
  BY DEF BaseInv
<1> QED BY <1>1, BaseInit, BaseStep, PTL DEF Spec

-----------------------------------------------------------------------------
(***************************************************************************)
(* The temporary files                                                     *)
(***************************************************************************)

\* A writer lists only files of writes that began before its own.
DoomedOlder ==
  \A w \in Writer : pc[w] # "idle" => \A f \in doomed[w] : f[1] < ver[w]

\* Every step keeps it, and keeps the file of the newest write.
LEMMA NewestStep ==
  BaseInv /\ DoomedOlder /\ NewestKeepsItsFile /\ [Next]_vars
    => DoomedOlder' /\ NewestKeepsItsFile'
<1> SUFFICES ASSUME BaseInv, DoomedOlder, NewestKeepsItsFile, [Next]_vars
             PROVE  DoomedOlder' /\ NewestKeepsItsFile'
  OBVIOUS
<1>1. WritersTyped /\ Owned /\ Numbers /\ last \in Nat /\ files \subseteq File
  BY BaseParts DEF HistoryTyped, DirectoryTyped
<1> USE <1>1 DEF WritersTyped, Owned, Numbers, DoomedOlder, NewestKeepsItsFile, PC, File, Goto,
      dirVars, history
<1>2. ASSUME NEW w \in Writer, Write(w) PROVE DoomedOlder' /\ NewestKeepsItsFile'
  <2>1. CASE Begin(w)
    BY <2>1 DEF Begin
  <2>2. CASE Unlink(w)
    <3>1. PICK f \in doomed[w] : files' = files \ {f} /\ doomed' = [doomed EXCEPT ![w] = @ \ {f}]
      BY <2>2 DEF Remove, Unlink
    <3>2. pc[w] # "idle" /\ UNCHANGED <<pc, ver, last>>
      BY <2>2 DEF Remove, Unlink
    <3>3. f[1] < ver[w] /\ ver[w] <= last
      BY <3>2
    <3>4. \A x \in Writer : ver[x] = last => Tmp(x) # f
      BY <3>3 DEF Tmp
    <3>5. DoomedOlder'
      BY <3>1, <3>2
    <3>6. NewestKeepsItsFile'
      BY <3>1, <3>2, <3>4 DEF Tmp
    <3> QED BY <3>5, <3>6
  <2>3. CASE WriteTmp(w)
    BY <2>3 DEF WriteTmp, Tmp
  <2>4. CASE ReadMain(w) \/ WriteBakTmp(w)
    BY <2>4 DEF ReadMain, WriteBakTmp, Tmp
  <2>5. CASE PlaceBackup(w)
    <3>1. \A x \in Writer : Tmp(x) # BakTmp(w)
      BY DEF Tmp, BakTmp
    <3> QED BY <2>5, <3>1 DEF Remove, PlaceBackup, Tmp
  <2>6. CASE Place(w)
    BY <2>6 DEF Remove, Place, Tmp
  <2>7. CASE Return(w)
    BY <2>7 DEF Return, Tmp
  <2> QED BY <1>2, <2>1, <2>2, <2>3, <2>4, <2>5, <2>6, <2>7 DEF Write
<1>3. ASSUME NEW w \in Writer, Raise(w) \/ Kill(w) PROVE DoomedOlder' /\ NewestKeepsItsFile'
  BY <1>3 DEF Raise, Kill, Tmp
<1>4. ASSUME NEW w \in Writer, Fail(w) PROVE DoomedOlder' /\ NewestKeepsItsFile'
  <2>1. \A x \in Writer : x # w /\ pc[x] # "idle" => Tmp(x) \notin {Tmp(w), BakTmp(w)}
    BY <1>4 DEF Remove, Fail, Tmp, BakTmp
  <2> QED BY <1>4, <2>1 DEF Remove, Fail, Tmp
<1>5. CASE PowerCut
  BY <1>5 DEF PowerCut
<1>6. CASE UNCHANGED vars
  BY <1>6 DEF vars, Tmp
<1> QED BY <1>2, <1>3, <1>4, <1>5, <1>6 DEF Next

\* The removal of temporary files never takes that of the newest write
\* (write_checkpoint, the loop over what the glob found).
THEOREM NewestKept == Spec => []NewestKeepsItsFile
<1>1. Init => DoomedOlder /\ NewestKeepsItsFile
  BY DEF Init, DoomedOlder, NewestKeepsItsFile
<1> QED BY <1>1, BaseInit, BaseStep, NewestStep, PTL DEF Spec

\* What began after a write was over lists that write's files, and has none
\* left when it writes its own.
OrphansListed ==
  \A u \in Writer, f \in files : pc[u] # "idle" /\ <<f[1], ver[u]>> \in order =>
    pc[u] \in {"sweeping", "failing"} /\ f \in doomed[u]

\* Nor can a power cut bring back one that was removed.
NoneComesBack == \A f \in gone : ~Superseded(f[1])

OrphansInv == OrphansListed /\ NoneComesBack /\ OrphansGo

\* Only what is over precedes anything.
LEMMA OrderOver == BaseInv => \A a, b : <<a, b>> \in order => a \in over /\ a \in Nat /\ b \in Nat
BY DEF BaseInv, TypeOK

\* Every step keeps it, and leaves no orphan behind.
LEMMA OrphansStep ==
  BaseInv /\ OrphansInv /\ [Next]_vars => OrphansInv'
<1> SUFFICES ASSUME BaseInv, OrphansInv, [Next]_vars PROVE OrphansInv'
  OBVIOUS
<1>1. /\ WritersTyped /\ Owned /\ Numbers /\ last \in Nat /\ files \subseteq File
      /\ done \subseteq over
  BY BaseParts DEF HistoryTyped, DirectoryTyped
<1>a. \A a, b : <<a, b>> \in order => a \in over
  BY OrderOver
<1> USE <1>1 DEF WritersTyped, Owned, Numbers, OrphansInv, OrphansListed, NoneComesBack, OrphansGo,
      Superseded, PC, File, Goto, dirVars, history
<1>2. ASSUME NEW w \in Writer, Write(w) PROVE OrphansInv'
  <2>1. CASE Begin(w)
    <3>1. \A a, b : <<a, b>> \in order' /\ b # last + 1 => <<a, b>> \in order
      BY <2>1 DEF Begin
    <3>2. \A u \in Writer : u # w /\ pc[u] # "idle" => ver[u] # last + 1
      OBVIOUS
    <3>3. \A u \in done : u # last + 1
      OBVIOUS
    <3> QED BY <2>1, <3>1, <3>2, <3>3 DEF Begin
  <2>2. CASE Unlink(w)
    BY <2>2 DEF Remove, Unlink
  <2>3. CASE WriteTmp(w) \/ WriteBakTmp(w)
    <3>1. /\ \A f \in files' : f \in files \/ f[1] = ver[w]
          /\ pc[w] # "idle" /\ UNCHANGED <<gone, order, ver, doomed, done>>
      BY <2>3 DEF WriteTmp, WriteBakTmp, Tmp, BakTmp
    <3>2. \A b : <<ver[w], b>> \notin order
      BY <3>1, <1>a
    <3>3. \A u \in Writer : pc'[u] = pc[u] \/ u = w
      BY <2>3 DEF WriteTmp, WriteBakTmp
    <3>4. pc'[w] # "idle" /\ (pc[w] = "sweeping" => doomed[w] = {})
      BY <2>3 DEF WriteTmp, WriteBakTmp
    <3>5. OrphansGo' /\ NoneComesBack'
      BY <3>1, <3>2
    <3>6. OrphansListed'
      BY <2>3, <3>1, <3>2, <3>3, <3>4 DEF WriteTmp, WriteBakTmp
    <3> QED BY <3>5, <3>6
  <2>4. CASE ReadMain(w) \/ PlaceBackup(w) \/ Place(w)
    BY <2>4 DEF Remove, ReadMain, PlaceBackup, Place
  <2>5. CASE Return(w)
    BY <2>5 DEF Return
  <2> QED BY <1>2, <2>1, <2>2, <2>3, <2>4, <2>5 DEF Write
<1>3. ASSUME NEW w \in Writer, Raise(w) \/ Fail(w) \/ Kill(w) PROVE OrphansInv'
  BY <1>3 DEF Remove, Raise, Fail, Kill
<1>4. CASE PowerCut
  BY <1>4 DEF PowerCut
<1>5. CASE UNCHANGED vars
  BY <1>5 DEF vars
<1> QED BY <1>2, <1>3, <1>4, <1>5 DEF Next

\* No temporary file is left of a write that was over before one that returned
\* began (write_checkpoint, "o temporario orfao e removido na proxima gravacao").
THEOREM OrphansRemoved == Spec => []OrphansGo
<1>1. Init => OrphansInv
  BY DEF Init, OrphansInv, OrphansListed, NoneComesBack, OrphansGo
<1>2. OrphansInv => OrphansGo
  BY DEF OrphansInv
<1> QED BY <1>1, <1>2, BaseInit, BaseStep, OrphansStep, PTL DEF Spec

-----------------------------------------------------------------------------
(***************************************************************************)
(* What a reader finds                                                     *)
(***************************************************************************)

\* Two writes returned, one after the other.
TwoReturned == \E v \in done : Superseded(v)

\* checkpoint.json, whatever a power cut leaves of it: it is never torn unless
\* it was damaged, it is there once a write returned, and it is not superseded.
\* Whoever placed its own knows that it is valid and not over before itself.
MainSound ==
  /\ main \in mainCut
  /\ ~damaged => \A c \in mainCut :
       c # Torn /\ ~Superseded(c) /\ (done # {} => Valid(c))
  /\ \A u \in Writer : pc[u] = "placed" => Valid(main) /\ <<main, ver[u]>> \notin order

\* The backup is never torn.  A write that began after one that returned has a
\* valid backup in place before its own checkpoint, so that once two returned
\* either the backup is there or the damaged file was written again.
BackupSound ==
  /\ bak \in bakCut
  /\ Torn \notin bakCut
  /\ ~damaged => \A w \in Writer, v \in done :
       pc[w] \in {"placing", "placed"} /\ <<v, ver[w]>> \in order => Valid(bak)
  /\ TwoReturned => \/ \A c \in bakCut : Valid(c)
                    \/ damaged /\ \A c \in mainCut : Valid(c)

ReadInv == MainSound /\ BackupSound

\* In the first state nothing returned.
LEMMA ReadInit == Init => ReadInv
<1> SUFFICES ASSUME Init PROVE ReadInv
  OBVIOUS
<1>1. ~TwoReturned /\ (\A c : ~Superseded(c))
  BY DEF Init, Superseded, TwoReturned
<1>2. Torn # Absent
  BY DEF Torn, Absent
<1>3. MainSound
  BY <1>1, <1>2 DEF Init, MainSound
<1>4. BackupSound
  BY <1>1, <1>2 DEF Init, BackupSound
<1> QED BY <1>3, <1>4 DEF ReadInv

\* Beginning a write supersedes nothing.
LEMMA ReadBegin == ASSUME BaseInv, ReadInv, NEW w \in Writer, Begin(w) PROVE ReadInv'
<1>1. WritersTyped /\ Owned /\ Numbers /\ last \in Nat /\ done \subseteq over
  BY BaseParts DEF HistoryTyped
<1>2. \A a, b : b # last + 1 => (<<a, b>> \in order' <=> <<a, b>> \in order)
  BY DEF Begin
<1>3. \A u \in Writer : u # w /\ pc[u] # "idle" => ver[u] # last + 1
  BY <1>1 DEF Owned
<1>4. \A u \in done : u # last + 1
  BY <1>1 DEF Numbers
<1>5. \A c : Superseded(c)' <=> Superseded(c)
  BY <1>2, <1>4 DEF Superseded, Begin
<1>6. TwoReturned' <=> TwoReturned
  <2>1. UNCHANGED done
    BY DEF Begin
  <2> QED BY <1>5, <2>1 DEF TwoReturned
<1>7. UNCHANGED <<main, bak, mainCut, bakCut, damaged, done>>
  BY DEF Begin, dirVars
<1>8. \A u \in Writer : pc'[u] \in {"placing", "placed"} =>
        u # w /\ pc'[u] = pc[u] /\ ver'[u] = ver[u]
  BY <1>1 DEF Begin, Goto, WritersTyped
<1>9. MainSound'
  BY <1>2, <1>3, <1>5, <1>7, <1>8 DEF ReadInv, MainSound
<1>10. BackupSound'
  BY <1>2, <1>3, <1>6, <1>7, <1>8 DEF ReadInv, BackupSound
<1> QED BY <1>9, <1>10 DEF ReadInv

\* Preparing the files of a write: what is in place stays, and one that finds
\* no valid checkpoint to keep has none that returned before it.
LEMMA ReadPrepare ==
  ASSUME BaseInv, ReadInv, NEW w \in Writer,
         Unlink(w) \/ WriteTmp(w) \/ ReadMain(w) \/ WriteBakTmp(w)
  PROVE  ReadInv'
<1>1. WritersTyped
  BY BaseParts
<1>2. UNCHANGED <<main, bak, mainCut, bakCut, damaged, done, order, ver>>
  BY DEF Remove, Unlink, WriteTmp, ReadMain, WriteBakTmp, dirVars, history
<1>3. (TwoReturned' <=> TwoReturned) /\ \A c : Superseded(c)' <=> Superseded(c)
  BY <1>2 DEF TwoReturned, Superseded
<1>4. \A u \in Writer : pc'[u] \in {"placing", "placed"} =>
        pc'[u] = pc[u] \/ (u = w /\ pc'[u] = "placing" /\ ~Valid(main))
  BY <1>1 DEF Remove, Unlink, WriteTmp, ReadMain, WriteBakTmp, Goto, WritersTyped, PC
<1>5. MainSound'
  BY <1>2, <1>3, <1>4 DEF ReadInv, MainSound
<1>6. ~damaged /\ done # {} => Valid(main)
  BY DEF ReadInv, MainSound
<1>7. BackupSound'
  BY <1>2, <1>3, <1>4, <1>6 DEF ReadInv, BackupSound
<1> QED BY <1>5, <1>7 DEF ReadInv

\* The backup that is put in place is a valid checkpoint.
LEMMA ReadPlaceBackup == ASSUME BaseInv, ReadInv, NEW w \in Writer, PlaceBackup(w) PROVE ReadInv'
<1>1. WritersTyped /\ Copied
  BY BaseParts DEF Numbers
<1>2. UNCHANGED <<main, mainCut, damaged, done, order, ver>>
  BY DEF Remove, PlaceBackup, history
<1>3. (TwoReturned' <=> TwoReturned) /\ \A c : Superseded(c)' <=> Superseded(c)
  BY <1>2 DEF TwoReturned, Superseded
<1>4. \A u \in Writer : pc'[u] = "placed" => pc[u] = "placed"
  BY <1>1 DEF Remove, PlaceBackup, Goto, WritersTyped
<1>5. Valid(bak') /\ bakCut' = bakCut \union {bak'}
  BY <1>1 DEF Remove, PlaceBackup, Copied
<1>6. bak' # Torn
  BY <1>5 DEF Valid, Torn
<1>7. MainSound'
  BY <1>2, <1>3, <1>4 DEF ReadInv, MainSound
<1>8. BackupSound'
  BY <1>2, <1>3, <1>5, <1>6 DEF ReadInv, BackupSound
<1> QED BY <1>7, <1>8 DEF ReadInv

\* The checkpoint that is put in place is valid, and over before no write.
LEMMA ReadPlace == ASSUME BaseInv, ReadInv, NEW w \in Writer, Place(w) PROVE ReadInv'
<1>1. WritersTyped /\ Owned /\ last \in Nat
  BY BaseParts DEF Numbers, HistoryTyped
<1>2. UNCHANGED <<bak, bakCut, damaged, done, order, ver>>
  BY DEF Remove, Place, history
<1>3. (TwoReturned' <=> TwoReturned) /\ \A c : Superseded(c)' <=> Superseded(c)
  BY <1>2 DEF TwoReturned, Superseded
<1>4. \A u \in Writer : pc'[u] = pc[u] \/ (u = w /\ pc[u] = "placing" /\ pc'[u] = "placed")
  BY <1>1 DEF Remove, Place, Goto, WritersTyped
<1>5. main' = ver[w] /\ mainCut' = mainCut \union {main'}
  BY <1>1 DEF Remove, Place
<1>6. ver[w] \in 1..last /\ ver[w] \notin over
  BY <1>1 DEF Remove, Place, Owned
<1>7. Valid(main') /\ main' # Torn
  BY <1>1, <1>5, <1>6 DEF Valid, Torn
<1>8. \A b : <<main', b>> \notin order
  BY <1>5, <1>6, OrderOver
<1>9. ~Superseded(main')
  BY <1>8 DEF Superseded
<1>10. MainSound'
  <2>1. \A c \in mainCut' : c \in mainCut \/ c = main'
    BY <1>5
  <2>2. main' \in mainCut'
    BY <1>5
  <2>3. ASSUME ~damaged, NEW c \in mainCut'
        PROVE  c # Torn /\ ~Superseded(c) /\ (done # {} => Valid(c))
    BY <2>1, <2>3, <1>7, <1>9 DEF ReadInv, MainSound
  <2> QED BY <2>2, <2>3, <1>2, <1>3, <1>7, <1>8 DEF MainSound
<1>11. BackupSound'
  BY <1>2, <1>3, <1>4, <1>5, <1>7 DEF ReadInv, BackupSound
<1> QED BY <1>10, <1>11 DEF ReadInv

\* The write returns: its directory is on disk, and both files are sound.
LEMMA ReadReturn == ASSUME BaseInv, ReadInv, NEW w \in Writer, Return(w) PROVE ReadInv'
<1>1. WritersTyped /\ Owned
  BY BaseParts
<1>2. /\ UNCHANGED <<main, bak, damaged, order, ver>>
      /\ mainCut' = {main} /\ bakCut' = {bak}
      /\ done' = done \union {ver[w]} /\ pc[w] = "placed"
  BY DEF Return
<1>3. \A u \in Writer : pc'[u] # "idle" => pc'[u] = pc[u]
  BY <1>1 DEF Return, Goto, WritersTyped
<1>4. Valid(main) /\ <<main, ver[w]>> \notin order /\ main # Torn
  BY <1>2 DEF ReadInv, MainSound, Valid, Torn
<1>5. \A b : <<ver[w], b>> \notin order
  BY <1>1, <1>2, OrderOver DEF Owned
<1>6. \A c : Superseded(c)' <=> Superseded(c) \/ <<c, ver[w]>> \in order
  BY <1>2 DEF Superseded
<1>7. MainSound'
  BY <1>2, <1>3, <1>4, <1>6 DEF ReadInv, MainSound
<1>8. TwoReturned' => TwoReturned \/ \E v \in done : <<v, ver[w]>> \in order
  BY <1>2, <1>5, <1>6 DEF TwoReturned, Superseded
<1>9. BackupSound'
  <2>1. bak' \in bakCut' /\ Torn \notin bakCut'
    BY <1>2 DEF ReadInv, BackupSound
  <2>2. ~damaged' => \A u \in Writer, v \in done' :
          pc'[u] \in {"placing", "placed"} /\ <<v, ver'[u]>> \in order' => Valid(bak')
    BY <1>2, <1>3, <1>5 DEF ReadInv, BackupSound
  <2>3. TwoReturned' /\ ~damaged => Valid(bak)
    BY <1>2, <1>8 DEF ReadInv, BackupSound
  <2>4. TwoReturned' => \/ \A c \in bakCut' : Valid(c)
                        \/ damaged' /\ \A c \in mainCut' : Valid(c)
    BY <1>2, <1>4, <2>3
  <2> QED BY <2>1, <2>2, <2>4 DEF BackupSound
<1> QED BY <1>7, <1>9 DEF ReadInv

\* A write that raises or dies leaves both files as they are.
LEMMA ReadFault ==
  ASSUME BaseInv, ReadInv, NEW w \in Writer, Raise(w) \/ Fail(w) \/ Kill(w) PROVE ReadInv'
<1>1. WritersTyped
  BY BaseParts
<1>2. UNCHANGED <<main, bak, mainCut, bakCut, damaged, done, order, ver>>
  BY DEF Remove, Raise, Fail, Kill, dirVars, history
<1>3. (TwoReturned' <=> TwoReturned) /\ \A c : Superseded(c)' <=> Superseded(c)
  BY <1>2 DEF TwoReturned, Superseded
<1>4. \A u \in Writer : pc'[u] \in {"placing", "placed"} => pc'[u] = pc[u]
  BY <1>1 DEF Remove, Raise, Fail, Kill, Goto, WritersTyped
<1>5. MainSound'
  BY <1>2, <1>3, <1>4 DEF ReadInv, MainSound
<1>6. BackupSound'
  BY <1>2, <1>3, <1>4 DEF ReadInv, BackupSound
<1> QED BY <1>5, <1>6 DEF ReadInv

\* Whichever renames a power cut keeps, both files are among the sound ones.
LEMMA ReadPowerCut == ASSUME BaseInv, ReadInv, PowerCut PROVE ReadInv'
<1>1. UNCHANGED <<done, order>>
  BY DEF PowerCut
<1>2. (TwoReturned' <=> TwoReturned) /\ \A c : Superseded(c)' <=> Superseded(c)
  BY <1>1 DEF TwoReturned, Superseded
<1>3. \A u \in Writer : pc'[u] = "idle"
  BY DEF PowerCut
<1>4. /\ bak' \in bakCut /\ bakCut' = {bak'} /\ mainCut' = {main'}
      /\ \/ main' \in mainCut /\ damaged' = damaged
         \/ ~damaged /\ damaged'
  BY DEF PowerCut
<1>5. MainSound'
  BY <1>1, <1>2, <1>3, <1>4 DEF ReadInv, MainSound
<1>6. BackupSound'
  <2>1. bak' \in bakCut' /\ Torn \notin bakCut'
    BY <1>4 DEF ReadInv, BackupSound
  <2>2. TwoReturned' => \/ \A c \in bakCut' : Valid(c)
                        \/ damaged' /\ \A c \in mainCut' : Valid(c)
    BY <1>2, <1>4 DEF ReadInv, BackupSound
  <2> QED BY <1>3, <2>1, <2>2 DEF BackupSound
<1> QED BY <1>5, <1>6 DEF ReadInv

\* Every step keeps both files sound.
LEMMA ReadStep == BaseInv /\ ReadInv /\ [Next]_vars => ReadInv'
<1>1. ASSUME ReadInv, UNCHANGED vars PROVE ReadInv'
  BY <1>1 DEF vars, ReadInv, MainSound, BackupSound, TwoReturned, Superseded
<1>2. ASSUME BaseInv, ReadInv, NEW w \in Writer, Write(w) PROVE ReadInv'
  BY <1>2, ReadBegin, ReadPrepare, ReadPlaceBackup, ReadPlace, ReadReturn DEF Write
<1> QED BY <1>1, <1>2, ReadFault, ReadPowerCut DEF Next

\* Both files are sound in every behaviour.
LEMMA ReadAlways == Spec => [](BaseInv /\ ReadInv)
BY BaseInit, ReadInit, BaseStep, ReadStep, PTL DEF Spec

\* Unless the main file was damaged, no reader gets a checkpoint over before a
\* write that returned began (read_checkpoint, _fsync_dir).
THEOREM LatestRead == Spec => []ReadsLatest
<1>1. BaseInv /\ ReadInv => ReadsLatest
  <2> SUFFICES ASSUME ReadInv, ~damaged PROVE ~Superseded(Read)
    BY DEF ReadsLatest
  <2>1. CASE Valid(main)
    BY <2>1 DEF ReadInv, MainSound, Read
  <2>2. CASE ~Valid(main)
    <3>1. done = {}
      BY <2>2 DEF ReadInv, MainSound
    <3> QED BY <3>1 DEF Superseded
  <2> QED BY <2>1, <2>2
<1> QED BY <1>1, ReadAlways, PTL

\* Once a write returned a checkpoint can be read, and once two did, one after
\* the other, even if the main file is damaged (write_checkpoint, "Uma queda em
\* qualquer ponto deixa o arquivo principal ou o .bak integro").
THEOREM ReadableAlways == Spec => []AlwaysReadable
<1>1. BaseInv /\ ReadInv => AlwaysReadable
  <2> SUFFICES ASSUME ReadInv, (done # {} /\ ~damaged) \/ TwoReturned PROVE Valid(Read)
    BY DEF AlwaysReadable, TwoReturned
  <2>1. CASE Valid(main)
    BY <2>1 DEF Read
  <2>2. CASE ~Valid(main)
    <3>1. damaged /\ TwoReturned
      BY <2>2 DEF ReadInv, MainSound, TwoReturned, Superseded
    <3>2. Valid(bak)
      BY <2>2, <3>1 DEF ReadInv, MainSound, BackupSound
    <3> QED BY <2>2, <3>2 DEF Read
  <2> QED BY <2>1, <2>2
<1> QED BY <1>1, ReadAlways, PTL

-----------------------------------------------------------------------------
(***************************************************************************)
(* Damage costs one checkpoint.  The backup that a writer leaves in place  *)
(* before its own checkpoint is the one that was read before, unless there *)
(* was none that is valid: nothing returned yet, or the file is damaged,   *)
(* and it is damaged once.  While writes do not overlap, no other one      *)
(* returns between the read and the rename.                                *)
(***************************************************************************)

\* Nothing a power cut may leave in checkpoint.json is superseded, damaged or not.
MainFresh == \A c \in mainCut : ~Superseded(c)

\* What a writer keeps for the backup is not, nor, unless checkpoint.json was
\* damaged, the backup it leaves in place before its own checkpoint.
CopyFresh == \A w \in Writer :
  /\ pc[w] \in {"rotating", "copied"} => ~Superseded(copy[w])
  /\ ~damaged /\ pc[w] \in {"placing", "placed"} => ~Superseded(bak)

\* The backup is not outdated, or the damaged file was written again.
BackupFresh == \/ \A c \in bakCut : ~Outdated(c)
               \/ damaged /\ \A c \in mainCut : Valid(c)

FreshInv == MainFresh /\ (Alone => CopyFresh /\ BackupFresh)

\* In the first state nothing returned.
LEMMA FreshInit == Init => FreshInv
BY DEF Init, FreshInv, MainFresh, CopyFresh, BackupFresh, Superseded, Outdated

\* Writes that do not overlap now did not before, and one writer writes.
LEMMA AloneBefore == BaseInv /\ [Next]_vars /\ Alone' => Alone
<1> SUFFICES ASSUME BaseInv, [Next]_vars, Alone' PROVE Alone
  OBVIOUS
<1>1. last \in Nat
  BY DEF BaseInv, TypeOK
<1>2. CASE UNCHANGED <<last, order>>
  BY <1>2 DEF Alone
<1>3. ASSUME NEW w \in Writer, Begin(w) PROVE Alone
  <2> SUFFICES ASSUME NEW v \in 1..last, NEW u \in 1..last, v < u PROVE <<v, u>> \in order
    BY DEF Alone
  <2>1. v \in 1..last' /\ u \in 1..last' /\ u # last + 1
    BY <1>1, <1>3 DEF Begin
  <2>2. <<v, u>> \in order'
    BY <2>1 DEF Alone
  <2> QED BY <1>3, <2>1, <2>2 DEF Begin
<1>4. [Next]_vars => UNCHANGED <<last, order>> \/ \E w \in Writer : Begin(w)
  BY DEF Next, Write, Unlink, WriteTmp, ReadMain, WriteBakTmp, PlaceBackup, Place, Return, Raise,
         Fail, Kill, PowerCut, vars, history
<1> QED BY <1>2, <1>3, <1>4

\* Two writers would overlap.
LEMMA AloneWrites ==
  ASSUME BaseInv, Alone, NEW w \in Writer, NEW x \in Writer, pc[w] # "idle", pc[x] # "idle"
  PROVE  x = w
<1>1. /\ ver[w] \in 1..last /\ ver[w] \notin over
      /\ ver[x] \in 1..last /\ ver[x] \notin over
      /\ ver[x] = ver[w] => x = w
  BY BaseParts DEF Owned
<1>2. ver[x] = ver[w]
  <2>1. ~(ver[w] < ver[x]) /\ ~(ver[x] < ver[w])
    BY <1>1, OrderOver DEF Alone
  <2>2. last \in Nat
    BY DEF BaseInv, TypeOK
  <2> QED BY <1>1, <2>1, <2>2
<1> QED BY <1>1, <1>2

\* What is not superseded is not outdated; and a step in which nothing returns
\* makes nothing superseded, nor outdated.
LEMMA SupersededStands ==
  /\ \A c : Outdated(c) => Superseded(c)
  /\ UNCHANGED <<done, order>> =>
       \A c : (Superseded(c)' <=> Superseded(c)) /\ (Outdated(c)' <=> Outdated(c))
BY DEF Superseded, Outdated

\* Beginning a write supersedes nothing.
LEMMA FreshBegin == ASSUME BaseInv, FreshInv, Alone' => Alone, NEW w \in Writer, Begin(w)
                    PROVE  FreshInv'
<1>1. WritersTyped /\ Numbers /\ last \in Nat /\ done \subseteq over
  BY BaseParts DEF HistoryTyped
<1>2. \A u \in done : u # last + 1
  BY <1>1 DEF Numbers
<1>3. \A c : Superseded(c)' <=> Superseded(c)
  BY <1>2 DEF Superseded, Begin
<1>4. \A c : Outdated(c)' <=> Outdated(c)
  <2>1. \A c : \A u \in done : <<c, u>> \in order' <=> <<c, u>> \in order
    BY <1>2 DEF Begin
  <2>2. UNCHANGED done
    BY DEF Begin
  <2> QED BY <1>3, <2>1, <2>2 DEF Outdated
<1>5. UNCHANGED <<bak, mainCut, bakCut, copy, damaged>>
  BY DEF Begin, dirVars
<1>6. \A u \in Writer : pc'[u] = pc[u] \/ pc'[u] = "sweeping"
  BY <1>1 DEF Begin, Goto, WritersTyped
<1> QED BY <1>3, <1>4, <1>5, <1>6 DEF FreshInv, MainFresh, CopyFresh, BackupFresh

\* Preparing the files of a write: the checkpoint it keeps is not superseded, and
\* if it finds none to keep, undamaged, nothing returned.
LEMMA FreshPrepare ==
  ASSUME BaseInv, ReadInv, FreshInv, Alone' => Alone, NEW w \in Writer,
         Unlink(w) \/ WriteTmp(w) \/ ReadMain(w) \/ WriteBakTmp(w)
  PROVE  FreshInv'
<1>1. WritersTyped
  BY BaseParts
<1>2. UNCHANGED <<main, bak, mainCut, bakCut, damaged, done, order>>
  BY DEF Remove, Unlink, WriteTmp, ReadMain, WriteBakTmp, dirVars, history
<1>3. \A c : (Superseded(c)' <=> Superseded(c)) /\ (Outdated(c)' <=> Outdated(c))
  BY <1>2, SupersededStands
<1>4. CopyFresh => CopyFresh'
  <2>1. CASE ReadMain(w)
    <3>1. main \in mainCut /\ (~damaged /\ done # {} => Valid(main))
      BY DEF ReadInv, MainSound
    <3>2. ~Superseded(main)
      BY <3>1 DEF FreshInv, MainFresh
    <3>3. ~damaged /\ ~Valid(main) => ~Superseded(bak)
      BY <3>1 DEF Superseded
    <3>4. \A u \in Writer :
            IF u = w
            THEN copy'[u] = main /\ (pc'[u] = "rotating" \/ (pc'[u] = "placing" /\ ~Valid(main)))
            ELSE copy'[u] = copy[u] /\ pc'[u] = pc[u]
      BY <1>1, <2>1 DEF ReadMain, Goto, WritersTyped
    <3> QED BY <1>2, <1>3, <3>2, <3>3, <3>4 DEF CopyFresh
  <2>2. CASE Unlink(w) \/ WriteTmp(w) \/ WriteBakTmp(w)
    <3>1. UNCHANGED copy
      BY <2>2 DEF Remove, Unlink, WriteTmp, WriteBakTmp
    <3>2. \A u \in Writer : \/ pc'[u] = pc[u]
                            \/ pc'[u] = "written"
                            \/ pc'[u] = "copied" /\ pc[u] = "rotating"
      BY <1>1, <2>2 DEF Remove, Unlink, WriteTmp, WriteBakTmp, Goto, WritersTyped
    <3> QED BY <1>2, <1>3, <3>1, <3>2 DEF CopyFresh
  <2> QED BY <2>1, <2>2
<1> QED BY <1>2, <1>3, <1>4 DEF FreshInv, MainFresh, BackupFresh

\* The backup put in place is the checkpoint that was kept.
LEMMA FreshPlaceBackup ==
  ASSUME BaseInv, FreshInv, Alone' => Alone, NEW w \in Writer, PlaceBackup(w)
  PROVE  FreshInv'
<1>1. WritersTyped
  BY BaseParts
<1>2. /\ UNCHANGED <<main, mainCut, damaged, done, order, copy>>
      /\ bak' = copy[w] /\ bakCut' = bakCut \union {copy[w]} /\ pc[w] = "copied"
  BY DEF Remove, PlaceBackup, history
<1>3. \A c : (Superseded(c)' <=> Superseded(c)) /\ (Outdated(c)' <=> Outdated(c))
  BY <1>2, SupersededStands
<1>4. \A u \in Writer : pc'[u] = IF u = w THEN "placing" ELSE pc[u]
  BY <1>1 DEF PlaceBackup, Goto, WritersTyped
<1>5. CopyFresh => ~Superseded(copy[w]) /\ ~Outdated(copy[w])
  BY <1>2, SupersededStands DEF CopyFresh
<1>6. CopyFresh => CopyFresh'
  BY <1>2, <1>3, <1>4, <1>5 DEF CopyFresh
<1>7. CopyFresh /\ BackupFresh => BackupFresh'
  BY <1>2, <1>3, <1>5 DEF BackupFresh
<1> QED BY <1>2, <1>3, <1>6, <1>7 DEF FreshInv, MainFresh

\* The checkpoint put in place is over before no write.
LEMMA FreshPlace ==
  ASSUME BaseInv, FreshInv, Alone' => Alone, NEW w \in Writer, Place(w)
  PROVE  FreshInv'
<1>1. WritersTyped /\ Owned /\ last \in Nat
  BY BaseParts DEF HistoryTyped
<1>2. /\ UNCHANGED <<bak, bakCut, damaged, done, order, copy>>
      /\ mainCut' = mainCut \union {ver[w]} /\ pc[w] = "placing"
  BY DEF Remove, Place, history
<1>3. \A c : (Superseded(c)' <=> Superseded(c)) /\ (Outdated(c)' <=> Outdated(c))
  BY <1>2, SupersededStands
<1>4. \A u \in Writer : pc'[u] = IF u = w THEN "placed" ELSE pc[u]
  BY <1>1 DEF Place, Goto, WritersTyped
<1>5. ver[w] \in 1..last /\ ver[w] \notin over
  BY <1>1, <1>2 DEF Owned
<1>6. Valid(ver[w]) /\ ~Superseded(ver[w])
  <2>1. ver[w] > 0
    BY <1>1, <1>5
  <2>2. \A b : <<ver[w], b>> \notin order
    BY <1>5, OrderOver
  <2> QED BY <2>1, <2>2 DEF Valid, Superseded
<1>7. CopyFresh => CopyFresh'
  BY <1>2, <1>3, <1>4 DEF CopyFresh
<1>8. BackupFresh => BackupFresh'
  BY <1>2, <1>3, <1>6 DEF BackupFresh
<1> QED BY <1>2, <1>3, <1>6, <1>7, <1>8 DEF FreshInv, MainFresh

\* The write returns: the backup it left was not superseded, so it is not
\* outdated; if the file was damaged, it was written again.
LEMMA FreshReturn ==
  ASSUME BaseInv, ReadInv, FreshInv, Alone' => Alone, NEW w \in Writer, Return(w)
  PROVE  FreshInv'
<1>1. WritersTyped /\ Owned
  BY BaseParts
<1>2. /\ UNCHANGED <<main, bak, copy, damaged, order>>
      /\ mainCut' = {main} /\ bakCut' = {bak}
      /\ done' = done \union {ver[w]} /\ pc[w] = "placed"
  BY DEF Return
<1>3. main \in mainCut /\ Valid(main) /\ <<main, ver[w]>> \notin order
  BY <1>2 DEF ReadInv, MainSound
<1>4. \A b : <<ver[w], b>> \notin order
  BY <1>1, <1>2, OrderOver DEF Owned
<1>5. MainFresh'
  BY <1>2, <1>3 DEF FreshInv, MainFresh, Superseded
<1>6. ASSUME Alone PROVE CopyFresh'
  <2>1. \A u \in Writer : pc[u] = "idle" \/ u = w
    BY <1>2, <1>6, AloneWrites
  <2>2. \A u \in Writer : pc'[u] = "idle"
    BY <1>1, <2>1 DEF Return, Goto, WritersTyped
  <2> QED BY <2>2 DEF CopyFresh
<1>7. ASSUME Alone PROVE BackupFresh'
  <2>1. CASE damaged
    BY <1>2, <1>3, <2>1 DEF BackupFresh
  <2>2. CASE ~damaged
    <3>1. ~Superseded(bak)
      BY <1>2, <1>7, <2>2 DEF FreshInv, CopyFresh
    <3>2. ASSUME NEW u \in done', <<bak, u>> \in order PROVE ~Superseded(u)'
      <4>1. u = ver[w]
        BY <1>2, <3>1, <3>2 DEF Superseded
      <4> QED BY <1>2, <1>4, <4>1 DEF Superseded
    <3>3. ~Outdated(bak)'
      BY <1>2, <3>2 DEF Outdated
    <3> QED BY <1>2, <3>3 DEF BackupFresh
  <2> QED BY <2>1, <2>2
<1> QED BY <1>5, <1>6, <1>7 DEF FreshInv

\* A write that raises or dies, and a power cut, leave what was there.
LEMMA FreshFault ==
  ASSUME BaseInv, FreshInv, Alone' => Alone,
         (\E w \in Writer : Raise(w) \/ Fail(w) \/ Kill(w)) \/ PowerCut
  PROVE  FreshInv'
<1>1. WritersTyped
  BY BaseParts
<1>2. UNCHANGED <<done, order>>
  BY DEF Raise, Fail, Kill, PowerCut, history
<1>3. \A c : (Superseded(c)' <=> Superseded(c)) /\ (Outdated(c)' <=> Outdated(c))
  BY <1>2, SupersededStands
<1>4. ASSUME NEW w \in Writer, Raise(w) \/ Fail(w) \/ Kill(w) PROVE FreshInv'
  <2>1. UNCHANGED <<main, bak, mainCut, bakCut, copy, damaged>>
    BY <1>4 DEF Remove, Raise, Fail, Kill, dirVars, history
  <2>2. \A u \in Writer : pc'[u] = pc[u] \/ pc'[u] \in {"idle", "failing"}
    BY <1>1, <1>4 DEF Remove, Raise, Fail, Kill, Goto, WritersTyped
  <2> QED BY <1>3, <2>1, <2>2 DEF FreshInv, MainFresh, CopyFresh, BackupFresh
<1>5. CASE PowerCut
  <2>1. \A u \in Writer : pc'[u] = "idle"
    BY <1>5 DEF PowerCut
  <2>2. /\ bak' \in bakCut /\ bakCut' = {bak'} /\ mainCut' = {main'}
        /\ \/ main' \in mainCut /\ damaged' = damaged
           \/ ~damaged /\ damaged' /\ main' = Torn
    BY <1>5 DEF PowerCut
  <2>3. ~Superseded(Torn)
    <3>1. Torn \notin Nat
      BY DEF Torn
    <3> QED BY <3>1, OrderOver DEF Superseded
  <2>4. MainFresh'
    BY <1>3, <2>2, <2>3 DEF FreshInv, MainFresh
  <2>5. CopyFresh'
    BY <2>1 DEF CopyFresh
  <2>6. BackupFresh => BackupFresh'
    BY <1>3, <2>2 DEF BackupFresh
  <2> QED BY <2>4, <2>5, <2>6 DEF FreshInv
<1> QED BY <1>4, <1>5

\* Every step keeps it.
LEMMA FreshStep == BaseInv /\ ReadInv /\ FreshInv /\ [Next]_vars => FreshInv'
<1>1. ASSUME FreshInv, UNCHANGED vars PROVE FreshInv'
  BY <1>1 DEF vars, FreshInv, MainFresh, CopyFresh, BackupFresh, Alone, Superseded, Outdated
<1>2. ASSUME BaseInv, ReadInv, FreshInv, Alone' => Alone, NEW w \in Writer, Write(w)
      PROVE  FreshInv'
  BY <1>2, FreshBegin, FreshPrepare, FreshPlaceBackup, FreshPlace, FreshReturn DEF Write
<1> QED BY <1>1, <1>2, AloneBefore, FreshFault DEF Next

\* As long as no writes overlap, damage to the main file costs one checkpoint
\* more: the one read is not followed by two that returned (write_checkpoint,
\* "mantendo o anterior valido em checkpoint.json.bak").
THEOREM OneIsLost == Spec => []DamageCostsOne
<1>1. BaseInv /\ ReadInv /\ FreshInv => DamageCostsOne
  <2> SUFFICES ASSUME ReadInv, FreshInv, Alone PROVE ~Outdated(Read)
    BY DEF DamageCostsOne
  <2>1. main \in mainCut /\ bak \in bakCut
    BY DEF ReadInv, MainSound, BackupSound
  <2>2. CASE Valid(main)
    <3>1. ~Superseded(main)
      BY <2>1 DEF FreshInv, MainFresh
    <3> QED BY <2>2, <3>1, SupersededStands DEF Read
  <2>3. CASE ~Valid(main)
    <3>1. ~Outdated(bak)
      BY <2>1, <2>3 DEF FreshInv, BackupFresh
    <3> QED BY <2>3, <3>1 DEF Read
  <2> QED BY <2>2, <2>3
<1> QED BY <1>1, ReadAlways, FreshInit, FreshStep, PTL DEF Spec

-----------------------------------------------------------------------------
(***************************************************************************)
(* The two files are one register.  A rename over checkpoint.json is the   *)
(* moment at which a write takes effect; everything else a writer does is  *)
(* hidden.  That the rename of the backup is, needs that what it puts      *)
(* there is among what a power cut may leave in checkpoint.json anyway, if *)
(* a power cut may leave nothing valid there at all.                       *)
(***************************************************************************)

BackupHidden == \A w \in Writer : pc[w] \in {"rotating", "copied"} =>
  Valid(main) /\ ((\A m \in mainCut : Valid(m)) \/ copy[w] \in mainCut)

\* Every step keeps it: a step that makes the main file invalid ends all writes.
LEMMA HiddenStep ==
  BaseInv /\ ReadInv /\ BackupHidden /\ [Next]_vars => BackupHidden'
<1> SUFFICES ASSUME BaseInv, ReadInv, BackupHidden, [Next]_vars PROVE BackupHidden'
  OBVIOUS
<1>1. WritersTyped /\ Owned /\ last \in Nat
  BY BaseParts DEF HistoryTyped
<1> USE <1>1 DEF WritersTyped, Goto, BackupHidden
<1>2. ASSUME NEW w \in Writer, Write(w) PROVE BackupHidden'
  <2>1. CASE Begin(w)
    BY <2>1 DEF Begin, dirVars
  <2>2. CASE Unlink(w) \/ WriteTmp(w)
    BY <2>2 DEF Remove, Unlink, WriteTmp, dirVars
  <2>3. CASE ReadMain(w)
    <3>1. main \in mainCut
      BY DEF ReadInv, MainSound
    <3> QED BY <2>3, <3>1 DEF ReadMain, dirVars
  <2>4. CASE WriteBakTmp(w) \/ PlaceBackup(w)
    BY <2>4 DEF Remove, WriteBakTmp, PlaceBackup, dirVars
  <2>5. CASE Place(w)
    <3>1. ver[w] \in 1..last
      BY <2>5 DEF Place, Owned
    <3>2. Valid(ver[w])
      BY <3>1 DEF Valid
    <3> QED BY <2>5, <3>2 DEF Remove, Place
  <2>6. CASE Return(w)
    <3>1. Valid(main)
      BY <2>6 DEF Return, ReadInv, MainSound
    <3> QED BY <2>6, <3>1 DEF Return
  <2> QED BY <1>2, <2>1, <2>2, <2>3, <2>4, <2>5, <2>6 DEF Write
<1>3. ASSUME NEW w \in Writer, Raise(w) \/ Fail(w) \/ Kill(w) PROVE BackupHidden'
  BY <1>3 DEF Remove, Raise, Fail, Kill, dirVars
<1>4. CASE PowerCut
  BY <1>4 DEF PowerCut
<1>5. CASE UNCHANGED vars
  BY <1>5 DEF vars
<1> QED BY <1>2, <1>3, <1>4, <1>5 DEF Next

\* What a reader may find after a power cut, in words without a set.
LEMMA ReadableIs ==
  /\ \A c : c \in Readable <=>
       \E m \in mainCut, b \in bakCut : c = IF Valid(m) THEN m ELSE b
  /\ \A c : c \in Readable' <=>
       \E m \in mainCut', b \in bakCut' : c = IF Valid(m) THEN m ELSE b
BY DEF Readable, Valid

\* A writer that prepares, or keeps the backup, changes nothing a reader may find.
LEMMA PrepareIsHidden ==
  ASSUME BaseInv, ReadInv, BackupHidden, NEW w \in Writer,
         Unlink(w) \/ WriteTmp(w) \/ ReadMain(w) \/ WriteBakTmp(w) \/ PlaceBackup(w) \/ Raise(w)
  PROVE  UNCHANGED Register!vars
<1>1. WritersTyped
  BY BaseParts
<1>2. UNCHANGED <<main, mainCut, ver, done>>
  BY DEF Remove, Unlink, WriteTmp, ReadMain, WriteBakTmp, PlaceBackup, Raise, dirVars, history
<1>3. \A u \in Writer : (pc'[u] = "idle" <=> pc[u] = "idle") /\ (pc'[u] = "placed" <=> pc[u] = "placed")
  BY <1>1 DEF Remove, Unlink, WriteTmp, ReadMain, WriteBakTmp, PlaceBackup, Raise, Goto, WritersTyped
<1>4. UNCHANGED <<Job, Taken>>
  BY <1>2, <1>3 DEF Job, Taken
<1>5. UNCHANGED <<Read, Readable>>
  <2>1. CASE PlaceBackup(w)
    <3>1. bakCut' = bakCut \union {copy[w]} /\ pc[w] = "copied"
      BY <2>1 DEF Remove, PlaceBackup
    <3>2. Valid(main) /\ ((\A m \in mainCut : Valid(m)) \/ copy[w] \in mainCut)
      BY <3>1 DEF BackupHidden
    <3>3. Valid(copy[w]) /\ bak \in bakCut
      BY <3>1, BaseParts DEF Copied, ReadInv, BackupSound
    <3>4. \A c : c \in Readable' <=> c \in Readable
      BY <1>2, <3>1, <3>2, <3>3, ReadableIs
    <3>5. Readable' = Readable
      BY <3>4 DEF Readable
    <3> QED BY <1>2, <3>2, <3>5 DEF Read
  <2>2. CASE ~PlaceBackup(w)
    <3>1. UNCHANGED <<bak, bakCut>>
      BY <2>2 DEF Remove, Unlink, WriteTmp, ReadMain, WriteBakTmp, Raise, dirVars
    <3> QED BY <1>2, <3>1 DEF Read, Readable
  <2> QED BY <2>1, <2>2
<1> QED BY <1>2, <1>4, <1>5 DEF Register!vars

\* A write begins, takes effect, returns, or ends without returning.
LEMMA WriteIsOne ==
  ASSUME BaseInv, ReadInv, NEW w \in Writer,
         Begin(w) \/ Place(w) \/ Return(w) \/ Fail(w) \/ Kill(w)
  PROVE  Register!Begin(w) \/ Register!TakeEffect(w) \/ Register!Return(w) \/ Register!Abort(w)
<1>1. WritersTyped /\ Owned /\ last \in Nat
  BY BaseParts DEF HistoryTyped
<1>2. pc[w] # "idle" => ver[w] \in 1..last /\ Valid(ver[w]) /\ ver[w] # Absent
  BY <1>1 DEF Owned, Valid, Absent
<1>3. CASE Begin(w)
  <2>1. UNCHANGED <<Read, Readable, done>>
    BY <1>3 DEF Begin, dirVars, Read, Readable
  <2>2. ver' = [ver EXCEPT ![w] = last + 1] /\ pc' = [pc EXCEPT ![w] = "sweeping"] /\ pc[w] = "idle"
    BY <1>3 DEF Begin, Goto
  <2>3. Taken' = Taken
    BY <1>1, <2>2 DEF Taken, WritersTyped
  <2>4. Job[w] = Absent /\ Job'[w] # Absent /\ Job' = [Job EXCEPT ![w] = Job'[w]]
    <3>1. Job[w] = Absent
      BY <2>2 DEF Job
    <3>2. Job' = [Job EXCEPT ![w] = last + 1]
      BY <1>1, <2>2 DEF Job, WritersTyped
    <3>3. Job'[w] = last + 1
      BY <3>2 DEF Job
    <3>4. last + 1 # Absent
      BY <1>1 DEF Absent
    <3> QED BY <3>1, <3>2, <3>3, <3>4
  <2> QED BY <2>1, <2>3, <2>4 DEF Register!Begin
<1>4. CASE Place(w)
  <2>1. /\ main' = ver[w] /\ mainCut' = mainCut \union {ver[w]} /\ UNCHANGED <<bak, bakCut, ver, done>>
        /\ pc' = [pc EXCEPT ![w] = "placed"] /\ pc[w] = "placing"
    BY <1>4 DEF Remove, Place, Goto, history
  <2>2. Job[w] = ver[w] /\ Job' = Job
    BY <1>1, <2>1 DEF Job, WritersTyped
  <2>3. ~Taken[w] /\ Taken' = [Taken EXCEPT ![w] = TRUE]
    BY <1>1, <2>1 DEF Taken, WritersTyped
  <2>4. Read' = ver[w]
    BY <1>2, <2>1 DEF Read
  <2>5. Readable' = Readable \union {ver[w]}
    <3>1. bak \in bakCut
      BY DEF ReadInv, BackupSound
    <3>2. \A c : c \in Readable' <=> c \in Readable \/ c = ver[w]
      BY <1>2, <2>1, <3>1, ReadableIs
    <3> QED BY <3>2, Zenon
  <2> QED BY <1>2, <2>1, <2>2, <2>3, <2>4, <2>5 DEF Register!TakeEffect
<1>5. ASSUME pc' = [pc EXCEPT ![w] = "idle"], ver' = ver PROVE Register!Leave(w)
  <2>1. Job' = [Job EXCEPT ![w] = Absent]
    BY <1>1, <1>5 DEF Job, WritersTyped
  <2>2. Taken' = [Taken EXCEPT ![w] = FALSE]
    BY <1>1, <1>5 DEF Taken, WritersTyped
  <2> QED BY <2>1, <2>2 DEF Register!Leave
<1>6. CASE Return(w)
  <2>1. /\ mainCut' = {main} /\ bakCut' = {bak} /\ UNCHANGED <<main, bak, ver>>
        /\ pc' = [pc EXCEPT ![w] = "idle"] /\ pc[w] = "placed" /\ done' = done \union {ver[w]}
    BY <1>6 DEF Return, Goto
  <2>2. Taken[w] /\ Read' = Read /\ done' = done \union {Job[w]}
    BY <2>1 DEF Taken, Read, Job
  <2>3. Readable' = {Read}
    <3>1. \A c : c \in Readable' <=> c = Read
      BY <2>1, ReadableIs DEF Read
    <3> QED BY <3>1 DEF Readable
  <2> QED BY <1>5, <2>1, <2>2, <2>3 DEF Register!Return
<1>7. CASE Fail(w) \/ Kill(w)
  <2>1. UNCHANGED <<Read, Readable, done>>
    BY <1>7 DEF Remove, Fail, Kill, dirVars, Read, Readable
  <2>2. pc' = [pc EXCEPT ![w] = "idle"] /\ pc[w] # "idle" /\ ver' = ver
    BY <1>7 DEF Fail, Kill, Goto
  <2>3. Job[w] # Absent
    BY <1>2, <2>2 DEF Job
  <2> QED BY <1>5, <2>1, <2>2, <2>3 DEF Register!Abort
<1> QED BY <1>3, <1>4, <1>6, <1>7

\* A power cut that does not damage the main file is one of the register.
LEMMA CutIsOne == ASSUME ReadInv, PowerCut, ~damaged' PROVE Register!PowerCut
<1>1. /\ main' \in mainCut /\ bak' \in bakCut /\ mainCut' = {main'} /\ bakCut' = {bak'}
      /\ pc' = [w \in Writer |-> "idle"] /\ done' = done
  BY DEF PowerCut
<1>2. Read' \in Readable
  BY <1>1, ReadableIs DEF Read
<1>3. Readable' = {Read'}
  <2>1. \A c : c \in Readable' <=> c = Read'
    BY <1>1, ReadableIs DEF Read
  <2> QED BY <2>1 DEF Readable
<1>4. Job' = [w \in Writer |-> Absent] /\ Taken' = [w \in Writer |-> FALSE]
  BY <1>1 DEF Job, Taken
<1> QED BY <1>1, <1>2, <1>3, <1>4 DEF Register!PowerCut

\* Every step that does not damage the main file is one of the register, or none.
LEMMA RegisterStep ==
  BaseInv /\ ReadInv /\ BackupHidden /\ [Next]_vars
    => [~damaged' => Register!Next]_(Register!vars)
<1> SUFFICES ASSUME BaseInv, ReadInv, BackupHidden, [Next]_vars, ~damaged'
             PROVE  Register!Next \/ UNCHANGED Register!vars
  OBVIOUS
<1>1. CASE UNCHANGED vars
  BY <1>1 DEF vars, Register!vars, Read, Readable, Job, Taken
<1>2. ASSUME NEW w \in Writer, Write(w) \/ Raise(w) \/ Fail(w) \/ Kill(w)
      PROVE  Register!Next \/ UNCHANGED Register!vars
  BY <1>2, PrepareIsHidden, WriteIsOne DEF Write, Register!Next
<1>3. CASE PowerCut
  BY <1>3, CutIsOne DEF Register!Next
<1> QED BY <1>1, <1>2, <1>3 DEF Next

\* In the first state there is nothing to read.
LEMMA RegisterInit == Init => Register!Init /\ BackupHidden
<1> SUFFICES ASSUME Init PROVE Register!Init /\ BackupHidden
  OBVIOUS
<1>1. ~Valid(Absent)
  BY DEF Valid, Absent
<1>2. Read = Absent
  BY <1>1 DEF Init, Read
<1>3. Readable = {Absent}
  <2>1. \A c : c \in Readable <=> c = Absent
    BY <1>1, ReadableIs DEF Init
  <2> QED BY <2>1 DEF Readable
<1>4. Job = [w \in Writer |-> Absent] /\ Taken = [w \in Writer |-> FALSE]
  BY DEF Init, Job, Taken
<1> QED BY <1>2, <1>3, <1>4 DEF Init, Register!Init, BackupHidden

\* Until the main file is damaged the two files behave as one register, however
\* many write them, overlap and die (write_checkpoint, read_checkpoint).
THEOREM FilesAreARegister == Spec => AtomicUntilDamaged
<1>1. Spec => [](BaseInv /\ ReadInv /\ BackupHidden)
  <2>1. Init => BaseInv /\ ReadInv /\ BackupHidden
    BY BaseInit, ReadInit, RegisterInit
  <2>2. BaseInv /\ ReadInv /\ BackupHidden /\ [Next]_vars
          => BaseInv' /\ ReadInv' /\ BackupHidden'
    BY BaseStep, ReadStep, HiddenStep
  <2> QED BY <2>1, <2>2, PTL DEF Spec
<1>2. Init => Register!Init
  BY RegisterInit
<1> QED BY <1>1, <1>2, RegisterStep, PTL DEF Spec, AtomicUntilDamaged

\* Where power cuts do not damage files, the checkpoint is that register.
THEOREM FileImplementsRegister == ASSUME ~Damages PROVE Spec => Register!Spec
<1>1. Init => ~damaged
  BY DEF Init
<1>2. BaseInv /\ ~damaged /\ [Next]_vars => ~damaged'
  BY DEF Next, Write, Begin, Unlink, WriteTmp, ReadMain, WriteBakTmp, PlaceBackup, Place, Return,
         Raise, Fail, Kill, PowerCut, vars
<1>3. Spec => []~damaged
  BY <1>1, <1>2, ReadAlways, PTL DEF Spec
<1>4. ~damaged' /\ [~damaged' => Register!Next]_(Register!vars) => [Register!Next]_(Register!vars)
  OBVIOUS
<1> QED BY <1>3, <1>4, FilesAreARegister, PTL DEF AtomicUntilDamaged, Register!Spec
=============================================================================
