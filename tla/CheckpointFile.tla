---------------------------- MODULE CheckpointFile ----------------------------
(***************************************************************************)
(* The two files of a session's checkpoint: checkpoint.json and its .bak.  *)
(*                                                                         *)
(* write_checkpoint removes the temporary files it finds, writes a new one *)
(* of its own, copies the current checkpoint to .bak (through a temporary  *)
(* file too) if it is valid, renames its file over checkpoint.json and     *)
(* forces the directory to disk.  The recorder of the session, the recovery*)
(* of a terminal and the researcher's closing all write this way, with no  *)
(* lock between processes.  A process may die between any two steps, and   *)
(* the power may fail, after which the directory has, of the renames not   *)
(* forced to disk, whichever reached it; it may also damage checkpoint.json*)
(* (once: see damaged).                                                    *)
(*                                                                         *)
(* A checkpoint is the number of the write that made it.  A temporary file *)
(* has the number of its write in its name (in the code a random one), and *)
(* nobody reads it before it is renamed: writing it is one step.  Symbolic *)
(* links, permissions and the limit of size are left out, and the directory*)
(* is taken to reach the disk when it is forced (_fsync_dir ignores an     *)
(* error there); so is the removal of a temporary file to succeed.         *)
(***************************************************************************)
EXTENDS Integers

CONSTANTS
  Writer,    \* the processes that may write the checkpoint of the session
  Damages    \* may a power cut damage checkpoint.json?

ASSUME DamagesAssumption == Damages \in BOOLEAN

\* What a reader finds in a file: nothing, something invalid, or a checkpoint.
Absent == 0
Torn   == -1
Valid(content) == content > 0

VARIABLES
  main,     \* checkpoint.json
  bak,      \* checkpoint.json.bak
  mainCut,  \* what a power cut may leave in checkpoint.json
  bakCut,   \* what a power cut may leave in checkpoint.json.bak
  files,    \* the temporary files in the directory
  gone,     \* those removed or renamed, which a power cut may bring back
  pc,       \* where each writer is in write_checkpoint
  ver,      \* the checkpoint it writes
  doomed,   \* the temporary files it listed and has not removed yet
  copy,     \* what it read of checkpoint.json for the backup
  damaged,  \* was checkpoint.json ever damaged?
  last,     \* history: how many writes began
  over,     \* history: those that ended, one way or another
  done,     \* history: those that returned
  order     \* history: <<v, u>> when v was over before u began

dirVars  == <<main, bak, mainCut, bakCut>>
history  == <<last, over, done, order>>
vars     == <<main, bak, mainCut, bakCut, files, gone, pc, ver, doomed, copy,
              damaged, last, over, done, order>>

(***************************************************************************)
(* pc:  idle      not writing                                              *)
(*      sweeping  removing the temporary files it listed                   *)
(*      written   its temporary file is written and forced to disk         *)
(*      rotating  checkpoint.json was read and is valid                    *)
(*      copied    the temporary file of the backup is written              *)
(*      placing   the backup is in place, or was not made                  *)
(*      placed    checkpoint.json is the new one                           *)
(*      failing   a step raised: the temporary files are being removed     *)
(***************************************************************************)
PC == {"idle", "sweeping", "written", "rotating", "copied", "placing", "placed", "failing"}

Content == {Torn, Absent} \union (Nat \ {0})
File    == (Nat \ {0}) \X {"checkpoint", "backup"}

\* Every variable has its type; who writes has a number of its own, and only a
\* valid checkpoint is on its way to the backup (_rotate_backup).
TypeOK ==
  /\ main \in Content /\ bak \in Content
  /\ mainCut \subseteq Content /\ bakCut \subseteq Content
  /\ files \subseteq File /\ gone \subseteq File
  /\ pc \in [Writer -> PC]
  /\ ver \in [Writer -> Nat]
  /\ doomed \in [Writer -> SUBSET File]
  /\ copy \in [Writer -> Content]
  /\ damaged \in BOOLEAN
  /\ last \in Nat
  /\ over \subseteq Nat \ {0} /\ done \subseteq over /\ order \subseteq over \X Nat
  /\ \A w, x \in Writer : pc[w] # "idle" =>
       /\ ver[w] \in 1..last
       /\ ver[w] \notin over
       /\ pc[x] # "idle" /\ ver[x] = ver[w] => x = w
  /\ \A w \in Writer : pc[w] \in {"rotating", "copied"} => Valid(copy[w])

Init ==
  /\ main = Absent
  /\ bak = Absent
  /\ mainCut = {Absent}
  /\ bakCut = {Absent}
  /\ files = {}
  /\ gone = {}
  /\ pc = [w \in Writer |-> "idle"]
  /\ ver = [w \in Writer |-> 0]
  /\ doomed = [w \in Writer |-> {}]
  /\ copy = [w \in Writer |-> Absent]
  /\ damaged = FALSE
  /\ last = 0
  /\ over = {}
  /\ done = {}
  /\ order = {}

Tmp(w)    == <<ver[w], "checkpoint">>
BakTmp(w) == <<ver[w], "backup">>

Goto(w, place) == pc' = [pc EXCEPT ![w] = place]

\* These files are in the directory no longer, until it is forced to disk.
Remove(fs) ==
  /\ files' = files \ fs
  /\ gone' = gone \union (files \intersect fs)

-----------------------------------------------------------------------------
(***************************************************************************)
(* write_checkpoint                                                        *)
(***************************************************************************)

\* The directory is listed: whatever matches a temporary file is removed next.
Begin_NoSweep(w) ==
  /\ pc[w] = "idle"
  /\ last' = last + 1
  /\ ver' = [ver EXCEPT ![w] = last + 1]
  /\ order' = order \union (over \X {last + 1})
  /\ Goto(w, "sweeping")
  /\ UNCHANGED <<dirVars, files, gone, doomed, copy, damaged, over, done>>

Begin(w) ==
  /\ pc[w] = "idle"
  /\ last' = last + 1
  /\ ver' = [ver EXCEPT ![w] = last + 1]
  /\ order' = order \union (over \X {last + 1})
  /\ doomed' = [doomed EXCEPT ![w] = files]
  /\ Goto(w, "sweeping")
  /\ UNCHANGED <<dirVars, files, gone, copy, damaged, over, done>>

Unlink(w) ==
  /\ pc[w] = "sweeping"
  /\ \E f \in doomed[w] :
       /\ Remove({f})
       /\ doomed' = [doomed EXCEPT ![w] = @ \ {f}]
  /\ UNCHANGED <<dirVars, pc, ver, copy, damaged, history>>

\* _write_private: a new file, written and forced to disk.
WriteTmp_SweptLate(w) ==
  /\ pc[w] = "sweeping"
  /\ doomed[w] = {}
  /\ files' = {Tmp(w)}
  /\ Goto(w, "written")
  /\ UNCHANGED <<dirVars, gone, ver, doomed, copy, damaged, history>>

WriteTmp(w) ==
  /\ pc[w] = "sweeping"
  /\ doomed[w] = {}
  /\ files' = files \union {Tmp(w)}
  /\ Goto(w, "written")
  /\ UNCHANGED <<dirVars, gone, ver, doomed, copy, damaged, history>>

\* _rotate_backup: the current checkpoint is kept only if it is valid.
ReadMain_Unchecked(w) ==
  /\ pc[w] = "written"
  /\ copy' = [copy EXCEPT ![w] = main]
  /\ Goto(w, IF main # Absent THEN "rotating" ELSE "placing")
  /\ UNCHANGED <<dirVars, files, gone, ver, doomed, damaged, history>>

ReadMain_FirstOnly(w) ==
  /\ pc[w] = "written"
  /\ copy' = [copy EXCEPT ![w] = main]
  /\ Goto(w, IF Valid(main) /\ bak = Absent THEN "rotating" ELSE "placing")
  /\ UNCHANGED <<dirVars, files, gone, ver, doomed, damaged, history>>

ReadMain(w) ==
  /\ pc[w] = "written"
  /\ copy' = [copy EXCEPT ![w] = main]
  /\ Goto(w, IF Valid(main) THEN "rotating" ELSE "placing")
  /\ UNCHANGED <<dirVars, files, gone, ver, doomed, damaged, history>>

WriteBakTmp(w) ==
  /\ pc[w] = "rotating"
  /\ files' = files \union {BakTmp(w)}
  /\ Goto(w, "copied")
  /\ UNCHANGED <<dirVars, gone, ver, doomed, copy, damaged, history>>

PlaceBackup(w) ==
  /\ pc[w] = "copied"
  /\ BakTmp(w) \in files
  /\ bak' = copy[w]
  /\ bakCut' = bakCut \union {bak'}
  /\ Remove({BakTmp(w)})
  /\ Goto(w, "placing")
  /\ UNCHANGED <<main, mainCut, ver, doomed, copy, damaged, history>>

\* Its data was not forced to disk: the rename may reach it first.
Place_NotSynced(w) ==
  /\ pc[w] = "placing"
  /\ Tmp(w) \in files
  /\ main' = ver[w]
  /\ mainCut' = mainCut \union {main', Torn}
  /\ Remove({Tmp(w)})
  /\ Goto(w, "placed")
  /\ UNCHANGED <<bak, bakCut, ver, doomed, copy, damaged, history>>

Place(w) ==
  /\ pc[w] = "placing"
  /\ Tmp(w) \in files
  /\ main' = ver[w]
  /\ mainCut' = mainCut \union {main'}
  /\ Remove({Tmp(w)})
  /\ Goto(w, "placed")
  /\ UNCHANGED <<bak, bakCut, ver, doomed, copy, damaged, history>>

\* _fsync_dir, and the write returns.
Return_NoFsync(w) ==
  /\ pc[w] = "placed"
  /\ over' = over \union {ver[w]}
  /\ done' = done \union {ver[w]}
  /\ Goto(w, "idle")
  /\ UNCHANGED <<dirVars, files, gone, ver, doomed, copy, damaged, last, order>>

Return(w) ==
  /\ pc[w] = "placed"
  /\ mainCut' = {main}
  /\ bakCut' = {bak}
  /\ gone' = {}
  /\ over' = over \union {ver[w]}
  /\ done' = done \union {ver[w]}
  /\ Goto(w, "idle")
  /\ UNCHANGED <<main, bak, files, ver, doomed, copy, damaged, last, order>>

-----------------------------------------------------------------------------
(***************************************************************************)
(* What goes wrong                                                         *)
(***************************************************************************)

\* An OSError: a full disk at any step, or a rename whose file another writer
\* removed.
Raise(w) ==
  /\ pc[w] \in {"sweeping", "written", "rotating", "copied", "placing"}
  /\ doomed[w] = {}
  /\ Goto(w, "failing")
  /\ UNCHANGED <<dirVars, files, gone, ver, doomed, copy, damaged, history>>

\* The handlers remove the temporary files of this write, and the call raises.
Fail(w) ==
  /\ pc[w] = "failing"
  /\ Remove({Tmp(w), BakTmp(w)})
  /\ over' = over \union {ver[w]}
  /\ doomed' = [doomed EXCEPT ![w] = {}]
  /\ Goto(w, "idle")
  /\ UNCHANGED <<dirVars, ver, copy, damaged, last, done, order>>

\* The process dies; its temporary files stay.
Kill(w) ==
  /\ pc[w] # "idle"
  /\ over' = over \union {ver[w]}
  /\ doomed' = [doomed EXCEPT ![w] = {}]
  /\ Goto(w, "idle")
  /\ UNCHANGED <<dirVars, files, gone, ver, copy, damaged, last, done, order>>

\* Everybody dies, and what was not forced to disk (renames, and the creation
\* and the removal of temporary files) may or may not be there.
PowerCut ==
  /\ \/ main' \in mainCut /\ UNCHANGED damaged
     \/ Damages /\ ~damaged /\ main # Absent /\ main' = Torn /\ damaged' = TRUE
  /\ bak' \in bakCut
  /\ mainCut' = {main'}
  /\ bakCut' = {bak'}
  /\ over' = over \union {ver[w] : w \in {x \in Writer : pc[x] # "idle"}}
  /\ pc' = [w \in Writer |-> "idle"]
  /\ doomed' = [w \in Writer |-> {}]
  /\ files' \in SUBSET (files \union gone)
  /\ gone' = {}
  /\ UNCHANGED <<ver, copy, last, done, order>>

-----------------------------------------------------------------------------
Write(w) ==
  \/ Begin(w) \/ Unlink(w) \/ WriteTmp(w) \/ ReadMain(w) \/ WriteBakTmp(w)
  \/ PlaceBackup(w) \/ Place(w) \/ Return(w)

Next == (\E w \in Writer : Write(w) \/ Raise(w) \/ Fail(w) \/ Kill(w)) \/ PowerCut

Spec == Init /\ [][Next]_vars

-----------------------------------------------------------------------------
(***************************************************************************)
(* Properties                                                              *)
(***************************************************************************)

\* read_checkpoint: the main file, or the backup when it is not valid.
Read == IF Valid(main) THEN main ELSE bak

\* v was over before a write that returned began.
Superseded(v) == \E u \in done : <<v, u>> \in order

\* ... and so was that one.
Outdated(v) == \E u \in done : <<v, u>> \in order /\ Superseded(u)

\* write_checkpoint, "Uma queda em qualquer ponto deixa o arquivo principal ou o
\* .bak integro": once a write returned a checkpoint can always be read, and once
\* two did, one after the other, even if the main file is damaged.
AlwaysReadable ==
  (done # {} /\ ~damaged) \/ (\E v \in done : Superseded(v)) => Valid(Read)

\* A reader gets the checkpoint of the last write that returned, or of one that
\* was not over when that one began (write_checkpoint, _fsync_dir).
ReadsLatest == ~damaged => ~Superseded(Read)

\* No two writes overlapped.
Alone == \A v, u \in 1..last : v < u => <<v, u>> \in order

\* "mantendo o anterior valido em checkpoint.json.bak": damage to the main file
\* costs one checkpoint more, if no writes overlapped (a slow writer may put an
\* older backup in the place of a newer one).
DamageCostsOne == Alone => ~Outdated(Read)

\* The removal of temporary files never takes that of the newest write: when
\* writes overlap, the last of them fails only if the disk does.
NewestKeepsItsFile == \A w \in Writer :
  ver[w] = last /\ pc[w] \in {"written", "rotating", "copied", "placing"} => Tmp(w) \in files

\* "o temporario orfao e removido na proxima gravacao": no temporary file is
\* left of a write that was over before one that returned began.
OrphansGo == \A f \in files : ~Superseded(f[1])

(***************************************************************************)
(* What the two files promise together: the register of                    *)
(* CheckpointRegister, which is why SessionClosing takes a write as one    *)
(* step.                                                                   *)
(***************************************************************************)
Readable == {IF Valid(m) THEN m ELSE b : m \in mainCut, b \in bakCut}
Job      == [w \in Writer |-> IF pc[w] = "idle" THEN Absent ELSE ver[w]]
Taken    == [w \in Writer |-> pc[w] = "placed"]

Register == INSTANCE CheckpointRegister WITH
  Nothing <- Absent, value <- Read, kept <- Readable, job <- Job, taken <- Taken,
  returned <- done

\* Until checkpoint.json is damaged every step of a writer, a death or a power
\* cut is one step of the register, or none: the backup and the temporary files
\* are never seen by a reader, however the writers overlap.
AtomicUntilDamaged ==
  Register!Init /\ [][~damaged' => Register!Next]_(Register!vars)
=============================================================================
