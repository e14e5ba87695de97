------------------------- MODULE MutationSweepProofs -------------------------
(***************************************************************************)
(* What MutationSweep guarantees for any number of mutations of any files, *)
(* with the process ended at any step, any number of times.                *)
(***************************************************************************)
EXTENDS MutationSweep, TLAPS

Content == [version : Nat, mutation : Nat, part : BOOLEAN]
Journal == [state : {"absent", "part", "whole"}, file : Files, text : Content]

Shape ==
  /\ turn \in 1..Len(FileOf) /\ original \in Content /\ leaving \in BOOLEAN
  /\ disk \in [Files -> Content] /\ mine \in [Files -> Content]
  /\ journal \in Journal

(* A whole journal holds the developer's text of the one file that may differ. *)
Kept ==
  /\ \A f \in Files : disk[f] # mine[f] => journal.state = "whole" /\ journal.file = f
  /\ journal.state = "whole" => journal.text = mine[journal.file]

(* Where evaluate() is, or was when the signal came whose handler runs. *)
Place == IF Recovering THEN held ELSE pc

Open == {"mutate", "mutating", "test", "restore", "restoring", "unlink"}

(* The journal goes with that place. *)
InPlace ==
  /\ Place \in {"main", "read", "journal"} => journal.state = "absent"
  /\ Place = "journalling" => journal.state # "whole"
  /\ Place \in {"journal", "journalling"} \cup Open => original = mine[File]
  /\ Place \in Open => journal.state = "whole" /\ journal.file = File

(* What the steps just taken have done to the files. *)
Written ==
  /\ pc \in {"rewrite", "rewriting", "forget"} => journal.state = "whole"
  /\ pc \in {"forget", "unlink"} => disk = mine
  /\ pc = "test" => disk = [mine EXCEPT ![File] = Mutated(@, turn)]
  /\ pc = "down" => held = "startup"

IInv == Shape /\ Kept /\ InPlace /\ Written /\ HandledExitIsClean

-----------------------------------------------------------------------------
LEMMA FilesFact == /\ Len(FileOf) \in Nat \ {0} /\ \A m \in 1..Len(FileOf) : FileOf[m] \in Files
  BY SweepAssumption DEF Files

LEMMA Contents ==
  /\ Part \in Content
  /\ \A v \in Nat : Whole(v) \in Content
  /\ \A c \in Content, m \in Nat : Mutated(c, m) \in Content
  BY DEF Part, Whole, Mutated, Content

LEMMA NoJournalFact == NoJournal \in Journal /\ NoJournal.state = "absent"
  BY FilesFact, Contents DEF NoJournal, Journal

(* Without a whole journal the tree is the developer's. *)
LEMMA Untouched ==
  ASSUME Shape, Kept, journal.state # "whole"
  PROVE  disk = mine
  BY DEF Shape, Kept

LEMMA InitIInv == Init => IInv
  <1> SUFFICES ASSUME Init PROVE IInv
    OBVIOUS
  <1>1. Shape
    <2>1. Whole(0) \in Content /\ Part \in Content /\ 1 \in 1..Len(FileOf)
      BY Contents, FilesFact
    <2>2. disk \in [Files -> Content] /\ mine \in [Files -> Content]
      BY <2>1 DEF Init
    <2>3. turn \in 1..Len(FileOf) /\ original \in Content /\ leaving \in BOOLEAN /\ journal \in Journal
      BY <2>1, NoJournalFact DEF Init
    <2>4. QED
      BY <2>2, <2>3 DEF Shape
  <1>2. journal.state = "absent" /\ disk = mine /\ pc = "down" /\ held = "startup" /\ exit = "none"
    BY NoJournalFact DEF Init
  <1>3. Kept /\ InPlace /\ Written /\ HandledExitIsClean
    BY <1>2 DEF Kept, InPlace, Written, HandledExitIsClean, Place, Recovering, Open
  <1>4. QED
    BY <1>1, <1>3 DEF IInv

-----------------------------------------------------------------------------
(* A process that ends leaves the files and the journal to the next one; it is  *)
(* said to have ended cleanly only when it did.                                 *)
LEMMA EndsIInv ==
  ASSUME IInv, NEW how \in {"returned", "signalled", "refused", "failed", "killed"}, Ends(how),
         disk' = disk, mine' = mine,
         journal' \in Journal,
         \/ journal' = journal
         \/ journal'.state = "absent" /\ disk = mine,
         how \in {"returned", "signalled"} => disk = mine /\ journal'.state = "absent"
  PROVE  IInv'
  <1>1. Shape'
    <2>1. Part \in Content /\ 1 \in 1..Len(FileOf)
      BY Contents, FilesFact
    <2>2. turn' \in 1..Len(FileOf) /\ original' \in Content /\ leaving' \in BOOLEAN
      BY <2>1 DEF Ends
    <2>3. QED
      BY <2>2 DEF IInv, Shape
  <1>2. Kept'
    BY DEF IInv, Kept
  <1>3. InPlace' /\ Written' /\ HandledExitIsClean'
    BY DEF InPlace, Written, HandledExitIsClean, Place, Recovering, Open, Ends
  <1>4. QED
    BY <1>1, <1>2, <1>3 DEF IInv

(* An exception in the handler goes back to the try block that the signal found. *)
LEMMA RefuseIInv ==
  ASSUME IInv, Recovering, Refuse, UNCHANGED <<disk, journal, mine>>
  PROVE  IInv'
  <1>1. CASE held \in InTry
    <2>1. /\ pc' = "restore" /\ leaving' = TRUE /\ UNCHANGED <<held, turn, original, exit>>
          /\ held \in Open /\ Place = held /\ Place' = "restore"
      BY <1>1 DEF Refuse, InTry, Open, Place, Recovering
    <2>2. Shape' /\ Kept' /\ File' = File
      BY <2>1 DEF IInv, Shape, Kept, File
    <2>3. InPlace'
      BY <2>1, <2>2 DEF IInv, InPlace, Open
    <2>4. Written' /\ HandledExitIsClean'
      BY <2>1 DEF Written, HandledExitIsClean
    <2>5. QED
      BY <2>2, <2>3, <2>4 DEF IInv
  <1>2. CASE held \notin InTry
    BY <1>2, EndsIInv DEF Refuse, IInv, Shape
  <1>3. QED
    BY <1>1, <1>2

(* The next mutation starts from a tree that is the developer's. *)
LEMMA NextTurnIInv ==
  ASSUME IInv, ~Recovering, NextTurn, disk = mine, disk' = disk, mine' = mine,
         journal' \in Journal, journal'.state = "absent"
  PROVE  IInv'
  <1>1. CASE leaving \/ turn = Len(FileOf)
    BY <1>1, EndsIInv DEF NextTurn
  <1>2. CASE ~(leaving \/ turn = Len(FileOf))
    <2>1. pc' = "read" /\ turn' = turn + 1 /\ UNCHANGED <<held, original, leaving, exit>>
      BY <1>2 DEF NextTurn
    <2>2. Shape'
      BY <1>2, <2>1, FilesFact DEF IInv, Shape
    <2>3. Kept' /\ InPlace' /\ Written' /\ HandledExitIsClean'
      BY <2>1 DEF Kept, InPlace, Written, HandledExitIsClean, Place, Recovering, Open
    <2>4. QED
      BY <2>2, <2>3 DEF IInv
  <1>3. QED
    BY <1>1, <1>2

-----------------------------------------------------------------------------
(* One lemma per group of steps of the sweep. *)

LEMMA LookIInv == ASSUME IInv, Look PROVE IInv'
  <1>1. UNCHANGED <<disk, journal, mine>> /\ pc = "look" /\ Recovering
    BY DEF Look, Recovering
  <1>2. CASE journal.state = "absent" /\ held = "startup"
    <2>1. pc' = "main" /\ UNCHANGED <<memory, exit>> /\ Place' = "main"
      BY <1>2 DEF Look, Place, Recovering
    <2>2. Shape' /\ Kept' /\ InPlace'
      BY <1>1, <1>2, <2>1 DEF IInv, Shape, Kept, InPlace, memory, Open
    <2>3. Written' /\ HandledExitIsClean'
      BY <2>1 DEF Written, HandledExitIsClean
    <2>4. QED
      BY <2>2, <2>3 DEF IInv
  <1>3. CASE journal.state = "absent" /\ held # "startup"
    <2>1. Ends("signalled")
      BY <1>3 DEF Look
    <2>2. QED
      BY <1>1, <1>3, <2>1, Untouched, EndsIInv DEF IInv, Shape
  <1>4. CASE journal.state = "whole"
    <2>1. pc' = "rewrite" /\ UNCHANGED <<memory, exit>> /\ Place' = Place
      BY <1>1, <1>4 DEF Look, Place, Recovering, memory
    <2>2. Shape' /\ Kept' /\ InPlace' /\ Written' /\ HandledExitIsClean'
      BY <1>1, <1>4, <2>1
         DEF IInv, Shape, Kept, InPlace, Written, HandledExitIsClean, memory, File
    <2>3. QED
      BY <2>2 DEF IInv
  <1>5. CASE journal.state = "part"
    BY <1>1, <1>5, RefuseIInv DEF Look
  <1>6. QED
    BY <1>1, <1>2, <1>3, <1>4, <1>5 DEF IInv, Shape, Journal

LEMMA RewriteIInv == ASSUME IInv, Rewrite PROVE IInv'
  <1>1. /\ pc \in {"rewrite", "rewriting"} /\ pc' \in {"rewriting", "forget"}
        /\ UNCHANGED <<memory, journal, mine, exit>> /\ Place' = Place
        /\ journal.state = "whole" /\ journal.file \in Files /\ journal.text = mine[journal.file]
    BY DEF IInv, Rewrite, Place, Recovering, memory, Written, Shape, Journal, Kept
  <1>2. \E c \in Content : disk' = [disk EXCEPT ![journal.file] = c]
    BY Contents DEF IInv, Rewrite, Shape, Journal
  <1>3. Shape' /\ Kept'
    BY <1>1, <1>2 DEF IInv, Shape, Kept, memory
  <1>4. pc' = "forget" => disk' = mine'
    <2>1. SUFFICES ASSUME pc' = "forget" PROVE disk' = mine
      BY <1>1
    <2>2. disk' = [disk EXCEPT ![journal.file] = mine[journal.file]]
      BY <1>1, <2>1 DEF Rewrite
    <2>3. QED
      BY <1>1, <2>2 DEF IInv, Shape, Kept
  <1>5. InPlace' /\ Written' /\ HandledExitIsClean'
    BY <1>1, <1>4 DEF IInv, InPlace, Written, HandledExitIsClean, memory, File
  <1>6. QED
    BY <1>3, <1>5 DEF IInv

LEMMA ForgetIInv == ASSUME IInv, Forget PROVE IInv'
  <1>1. /\ journal' = NoJournal /\ journal' \in Journal /\ journal'.state = "absent"
        /\ disk = mine /\ UNCHANGED <<disk, mine>>
    BY NoJournalFact DEF IInv, Forget, Written
  <1>2. CASE held = "startup"
    <2>1. pc' = "main" /\ UNCHANGED <<memory, exit>> /\ Place' = "main"
      BY <1>2 DEF Forget, Place, Recovering
    <2>2. Shape' /\ Kept' /\ InPlace' /\ Written' /\ HandledExitIsClean'
      BY <1>1, <2>1 DEF IInv, Shape, Kept, InPlace, Written, HandledExitIsClean, memory, Open
    <2>3. QED
      BY <2>2 DEF IInv
  <1>3. CASE held # "startup"
    BY <1>1, <1>3, EndsIInv DEF Forget
  <1>4. QED
    BY <1>2, <1>3

LEMMA BaselineIInv == ASSUME IInv, Baseline PROVE IInv'
  <1>1. /\ pc = "main" /\ journal.state = "absent" /\ UNCHANGED <<disk, journal, mine>>
        /\ disk = mine
    BY Untouched DEF IInv, Baseline, InPlace, Place, Recovering
  <1>2. CASE pc' = "read" /\ UNCHANGED <<memory, exit>>
    BY <1>1, <1>2 DEF IInv, Shape, Kept, InPlace, Written, HandledExitIsClean, memory, Place,
                      Recovering, Open
  <1>3. CASE Ends("returned")
    BY <1>1, <1>3, EndsIInv DEF IInv, Shape
  <1>4. QED
    BY <1>2, <1>3 DEF Baseline

LEMMA ReadIInv == ASSUME IInv, Read PROVE IInv'
  <1>1. /\ pc = "read" /\ ~Recovering /\ journal.state = "absent"
        /\ UNCHANGED <<disk, journal, mine>> /\ disk = mine
    BY Untouched DEF IInv, Read, InPlace, Place, Recovering
  <1>2. CASE pc' = "journal" /\ original' = disk[File] /\ UNCHANGED <<held, turn, leaving, exit>>
    <2>1. Shape' /\ File' = File /\ Place' = "journal"
      BY <1>1, <1>2, FilesFact DEF IInv, Shape, File, Place, Recovering
    <2>2. Kept' /\ InPlace' /\ Written' /\ HandledExitIsClean'
      BY <1>1, <1>2, <2>1 DEF IInv, Kept, InPlace, Written, HandledExitIsClean, Open
    <2>3. QED
      BY <2>1, <2>2 DEF IInv
  <1>3. CASE NextTurn
    BY <1>1, <1>3, NextTurnIInv DEF IInv, Shape
  <1>4. QED
    BY <1>2, <1>3 DEF Read

LEMMA WriteJournalIInv == ASSUME IInv, WriteJournal PROVE IInv'
  <1>1. /\ pc \in {"journal", "journalling"} /\ journal.state # "whole" /\ disk = mine
        /\ original = mine[File] /\ File \in Files
        /\ UNCHANGED <<memory, disk, mine, exit>> /\ File' = File
    BY Untouched, FilesFact
       DEF IInv, WriteJournal, InPlace, Place, Recovering, Shape, File, memory
  <1>2. CASE pc = "journal"
    <2>1. /\ pc' = "journalling" /\ journal' \in Journal /\ journal'.state = "part"
          /\ Place' = "journalling"
      BY <1>2, NoJournalFact DEF WriteJournal, Journal, Place, Recovering
    <2>2. Shape' /\ Kept' /\ InPlace' /\ Written' /\ HandledExitIsClean'
      BY <1>1, <2>1 DEF IInv, Shape, Kept, InPlace, Written, HandledExitIsClean, memory, Open
    <2>3. QED
      BY <2>2 DEF IInv
  <1>3. CASE pc = "journalling"
    <2>1. /\ pc' = "mutate" /\ journal' = [state |-> "whole", file |-> File, text |-> original]
          /\ Place' = "mutate"
      BY <1>3 DEF WriteJournal, Place, Recovering
    <2>2. journal' \in Journal
      BY <1>1, <2>1 DEF IInv, Shape, Journal
    <2>3. Shape' /\ Kept' /\ InPlace' /\ Written' /\ HandledExitIsClean'
      BY <1>1, <2>1, <2>2
         DEF IInv, Shape, Kept, InPlace, Written, HandledExitIsClean, memory, Open
    <2>4. QED
      BY <2>3 DEF IInv
  <1>4. QED
    BY <1>1, <1>2, <1>3

(* Writing to the file that the journal is about, in the try block or the finally clause. *)
LEMMA WriteFileIInv ==
  ASSUME IInv, pc \in Open, pc' \in Open, UNCHANGED <<memory, journal, mine, exit>>,
         NEW c \in Content, disk' = [disk EXCEPT ![File] = c],
         pc' = "unlink" => c = original,
         pc' = "test" => c = Mutated(original, turn)
  PROVE  IInv'
  <1>1. /\ original = mine[File] /\ journal.state = "whole" /\ journal.file = File
        /\ File \in Files /\ File' = File /\ Place' = pc'
    BY FilesFact DEF IInv, InPlace, Place, Recovering, Open, Shape, File, memory
  <1>2. Shape' /\ Kept' /\ InPlace'
    BY <1>1 DEF IInv, Shape, Kept, InPlace, memory, Open
  <1>3. \A f \in Files \ {File} : disk[f] = mine[f]
    BY <1>1 DEF IInv, Kept
  <1>4. pc' = "unlink" => disk' = mine'
    BY <1>1, <1>3 DEF IInv, Shape
  <1>5. pc' = "test" => disk' = [mine' EXCEPT ![File'] = Mutated(@, turn')]
    BY <1>1, <1>3 DEF IInv, Shape, memory
  <1>6. Written' /\ HandledExitIsClean'
    BY <1>4, <1>5 DEF Written, HandledExitIsClean, Open
  <1>7. QED
    BY <1>2, <1>6 DEF IInv

LEMMA MutateIInv == ASSUME IInv, Mutate PROVE IInv'
  <1>1. Part \in Content /\ Mutated(original, turn) \in Content
    BY Contents DEF IInv, Shape
  <1>2. CASE pc = "mutate"
    BY <1>1, <1>2, WriteFileIInv DEF Mutate, Open
  <1>3. CASE pc = "mutating"
    BY <1>1, <1>3, WriteFileIInv DEF Mutate, Open
  <1>4. QED
    BY <1>2, <1>3 DEF Mutate

LEMMA RestoreIInv == ASSUME IInv, Restore PROVE IInv'
  <1>1. Part \in Content /\ original \in Content
    BY Contents DEF IInv, Shape
  <1>2. CASE pc = "restore"
    BY <1>1, <1>2, WriteFileIInv DEF Restore, Open
  <1>3. CASE pc = "restoring"
    BY <1>1, <1>3, WriteFileIInv DEF Restore, Open
  <1>4. QED
    BY <1>2, <1>3 DEF Restore

(* From the try block to its finally clause, on the way out or not. *)
LEMMA LeaveTryIInv ==
  ASSUME IInv, pc \in InTry, pc' = "restore", leaving' \in BOOLEAN,
         UNCHANGED <<held, turn, original, exit, disk, journal, mine>>
  PROVE  IInv'
  <1>1. File' = File /\ Place' = "restore" /\ Place \in Open
    BY DEF File, Place, Recovering, InTry, Open
  <1>2. Shape' /\ Kept' /\ InPlace'
    BY <1>1 DEF IInv, Shape, Kept, InPlace, Open
  <1>3. Written' /\ HandledExitIsClean'
    BY DEF Written, HandledExitIsClean
  <1>4. QED
    BY <1>2, <1>3 DEF IInv

LEMMA UnlinkIInv == ASSUME IInv, Unlink PROVE IInv'
  BY NextTurnIInv, NoJournalFact DEF IInv, Unlink, Written, Recovering

LEMMA IoFailsIInv == ASSUME IInv, IoFails PROVE IInv'
  <1>1. UNCHANGED <<disk, journal, mine>> /\ journal \in Journal
    BY DEF IoFails, IInv, Shape
  <1>2. CASE pc \in {"look", "rewrite", "rewriting", "forget"}
    BY <1>1, <1>2, RefuseIInv DEF IoFails, Recovering
  <1>3. CASE pc \in {"mutate", "mutating"}
    BY <1>1, <1>3, LeaveTryIInv DEF IoFails, InTry
  <1>4. CASE pc \in {"read", "journal", "journalling", "restore", "restoring", "unlink"}
    BY <1>1, <1>4, EndsIInv DEF IoFails
  <1>5. QED
    BY <1>2, <1>3, <1>4 DEF IoFails

(* The handler takes the place of the step it interrupted. *)
LEMMA SignalIInv == ASSUME IInv, Signal PROVE IInv'
  <1>1. /\ pc' = "look" /\ Place' = Place /\ File' = File
        /\ UNCHANGED <<turn, original, leaving, disk, journal, mine, exit>>
    BY DEF Signal, Place, Recovering, File
  <1>2. Shape' /\ Kept' /\ InPlace'
    BY <1>1 DEF IInv, Shape, Kept, InPlace
  <1>3. Written' /\ HandledExitIsClean'
    BY <1>1 DEF Written, HandledExitIsClean
  <1>4. QED
    BY <1>2, <1>3 DEF IInv

-----------------------------------------------------------------------------
(* The developer, while nothing runs. *)
LEMMA EditIInv == ASSUME IInv, Edit PROVE IInv'
  <1>1. /\ pc = "down" /\ journal.state = "absent" /\ UNCHANGED <<pc, memory, journal, exit>>
        /\ disk = mine
    BY Untouched DEF IInv, Edit
  <1>2. PICK f \in Files : /\ mine' = [mine EXCEPT ![f] = Whole(@.version + 1)]
                           /\ disk' = [disk EXCEPT ![f] = mine'[f]]
    BY Zenon DEF Edit
  <1>3. Whole(mine[f].version + 1) \in Content
    <2>1. mine[f].version + 1 \in Nat
      BY DEF IInv, Shape, Content
    <2>2. QED
      BY <2>1, Contents
  <1>4. disk' = mine' /\ mine' \in [Files -> Content]
    BY <1>1, <1>2, <1>3 DEF IInv, Shape
  <1>5. Shape' /\ Kept'
    BY <1>1, <1>4 DEF IInv, Shape, Kept, memory
  <1>6. InPlace' /\ Written' /\ HandledExitIsClean'
    BY <1>1, <1>4
       DEF IInv, InPlace, Written, HandledExitIsClean, Place, Recovering, memory, Open
  <1>7. QED
    BY <1>5, <1>6 DEF IInv

LEMMA StartIInv == ASSUME IInv, Start \/ RemoveJournal PROVE IInv'
  <1>1. CASE Start
    <2>1. pc = "down" /\ pc' = "look" /\ held' = "startup" /\ Place' = "startup"
      BY <1>1 DEF IInv, Start, memory, Written, Place, Recovering
    <2>2. Shape' /\ Kept' /\ InPlace'
      BY <1>1, <2>1 DEF IInv, Start, memory, Shape, Kept, InPlace, Open
    <2>3. Written' /\ HandledExitIsClean'
      BY <2>1 DEF Written, HandledExitIsClean
    <2>4. QED
      BY <2>2, <2>3 DEF IInv
  <1>2. CASE RemoveJournal
    <2>1. /\ pc = "down" /\ pc' = "down" /\ UNCHANGED <<memory, disk, mine, exit>> /\ disk = mine
          /\ journal' \in Journal /\ journal'.state = "absent" /\ Place' = "down"
      BY <1>2, Untouched, NoJournalFact DEF IInv, RemoveJournal, Place, Recovering
    <2>2. Shape' /\ Kept' /\ InPlace' /\ Written' /\ HandledExitIsClean'
      BY <2>1 DEF IInv, memory, Shape, Kept, InPlace, Written, HandledExitIsClean, Open
    <2>3. QED
      BY <2>2 DEF IInv
  <1>3. QED
    BY <1>1, <1>2

LEMMA NextIInv == IInv /\ [Next]_vars => IInv'
  <1> SUFFICES ASSUME IInv, [Next]_vars PROVE IInv'
    OBVIOUS
  <1>1. CASE Look \/ Rewrite \/ Forget
    BY <1>1, LookIInv, RewriteIInv, ForgetIInv
  <1>2. CASE Baseline \/ Read \/ WriteJournal
    BY <1>2, BaselineIInv, ReadIInv, WriteJournalIInv
  <1>3. CASE Mutate \/ Restore \/ Unlink
    BY <1>3, MutateIInv, RestoreIInv, UnlinkIInv
  <1>4. CASE Test
    BY <1>4, LeaveTryIInv DEF Test, InTry, IInv, Shape
  <1>5. CASE IoFails \/ Signal
    BY <1>5, IoFailsIInv, SignalIInv
  <1>6. CASE Kill
    BY <1>6, EndsIInv DEF Kill, IInv, Shape
  <1>7. CASE Edit \/ Start \/ RemoveJournal
    BY <1>7, EditIInv, StartIInv
  <1>8. CASE UNCHANGED vars
    BY <1>8 DEF vars, memory, IInv, Shape, Kept, InPlace, Written, HandledExitIsClean, Place,
                Recovering, File
  <1>9. QED
    BY <1>1, <1>2, <1>3, <1>4, <1>5, <1>6, <1>7, <1>8 DEF Next, Sweep

THEOREM Invariance == Spec => []IInv
  BY InitIInv, NextIInv, PTL DEF Spec

-----------------------------------------------------------------------------
(* mutate.py:41-44: whatever step a process died at, the journal can put back the one *)
(* file that is not as the developer left it.                                         *)
THEOREM StaysRecoverable == Spec => []AlwaysRecoverable
  <1>1. IInv => AlwaysRecoverable
    <2>1. \A j \in Journal : j = [state |-> j.state, file |-> j.file, text |-> j.text]
      BY DEF Journal
    <2>2. QED
      BY <2>1 DEF IInv, Shape, Kept, AlwaysRecoverable
  <1>2. QED
    BY <1>1, Invariance, PTL

(* mutate.py:933-939, 1022-1035: the tests judge the developer's tree with the one *)
(* mutation of this turn in it, and the baseline with none.                        *)
THEOREM VerdictStaysMeasured == Spec => []VerdictIsMeasured
  <1>1. IInv => VerdictIsMeasured
    <2>1. ASSUME IInv, pc = "main" PROVE disk = mine
      BY <2>1, Untouched DEF IInv, InPlace, Place, Recovering
    <2>2. QED
      BY <2>1 DEF IInv, Written, VerdictIsMeasured
  <1>2. QED
    BY <1>1, Invariance, PTL

(* mutate.py:23-25, 952-959, 987: a sweep that returned, or that a signal ended, left *)
(* the tree as it was and no journal.                                                 *)
THEOREM ExitStaysClean == Spec => []HandledExitIsClean
  <1>1. IInv => HandledExitIsClean
    BY DEF IInv
  <1>2. QED
    BY <1>1, Invariance, PTL
=============================================================================
