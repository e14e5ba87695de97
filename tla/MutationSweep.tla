---------------------------- MODULE MutationSweep ----------------------------
(***************************************************************************)
(* tools/mutate.py: a sweep that breaks one source file after another,     *)
(* runs the tests on each, and puts the file back, with a journal for the  *)
(* runs that do not live to do so.  A file is rewritten in two steps, of   *)
(* which the first empties it.  A process may be killed between any two    *)
(* steps, a signal be caught there, any access may fail, and the developer *)
(* edits files between two runs.                                           *)
(***************************************************************************)
EXTENDS Naturals, Sequences

CONSTANTS
  FileOf,   \* FileOf[m]: the file that the m-th mutation is about
  MaxEdits  \* bound: versions of a file

Files == {FileOf[m] : m \in DOMAIN FileOf}

ASSUME SweepAssumption == FileOf \in Seq(Files) /\ FileOf # << >> /\ MaxEdits \in Nat

(* What a file holds: a version of the developer's, that version mutated, or a part. *)
Whole(v) == [version |-> v, mutation |-> 0, part |-> FALSE]
Mutated(c, m) == [c EXCEPT !.mutation = m]
Part == [version |-> 0, mutation |-> 0, part |-> TRUE]

VARIABLES
  pc,        \* the next step of the process, or "down"
  held,      \* the step at which a signal was caught; "startup" when none was
  turn,      \* the mutation it is at
  original,  \* evaluate's local
  leaving,   \* an exception is on its way through the finally clause
  disk,      \* disk[f]: what the file holds
  journal,   \* JOURNAL: absent, part of it, or whole
  mine,      \* ghost: mine[f], as the developer left it
  exit       \* ghost: how the last process ended

memory == <<held, turn, original, leaving>>
vars == <<pc, memory, disk, journal, mine, exit>>

NoJournal == [state |-> "absent", file |-> FileOf[1], text |-> Part]

Init ==
  /\ pc = "down" /\ held = "startup" /\ turn = 1 /\ original = Part /\ leaving = FALSE
  /\ disk = [f \in Files |-> Whole(0)] /\ mine = disk
  /\ journal = NoJournal /\ exit = "none"

File == FileOf[turn]

(* The process ends; what it had in memory is gone. *)
Ends(how) ==
  /\ pc' = "down" /\ exit' = how
  /\ held' = "startup" /\ turn' = 1 /\ original' = Part /\ leaving' = FALSE

-----------------------------------------------------------------------------
(* recover(), called by main() before anything else and by the signal handler. *)

Recovering == pc \in {"look", "rewrite", "rewriting", "forget"}
InTry == {"mutate", "mutating", "test"}

(* SystemExit, or an OSError: the finally clause that it meets on its way still runs. *)
Refuse ==
  IF held \in InTry
    THEN pc' = "restore" /\ leaving' = TRUE /\ UNCHANGED <<held, turn, original, exit>>
    ELSE Ends("refused")

(* Seeded fault: a sweep does not ask for a journal on its way in. *)
Start_unasked ==
  /\ pc = "down" /\ pc' = "main" /\ UNCHANGED <<memory, disk, journal, mine, exit>>

Start ==
  /\ pc = "down" /\ pc' = "look" /\ UNCHANGED <<memory, disk, journal, mine, exit>>

Look ==
  /\ pc = "look"
  /\ \/ /\ journal.state = "absent"
        /\ IF held = "startup" THEN pc' = "main" /\ UNCHANGED <<memory, exit>>
                               ELSE Ends("signalled")
     \/ journal.state = "whole" /\ pc' = "rewrite" /\ UNCHANGED <<memory, exit>>
     \/ journal.state = "part" /\ Refuse
  /\ UNCHANGED <<disk, journal, mine>>

Rewrite ==
  /\ \/ pc = "rewrite" /\ pc' = "rewriting" /\ disk' = [disk EXCEPT ![journal.file] = Part]
     \/ /\ pc = "rewriting" /\ pc' = "forget"
        /\ disk' = [disk EXCEPT ![journal.file] = journal.text]
  /\ UNCHANGED <<memory, journal, mine, exit>>

Forget ==
  /\ pc = "forget" /\ journal' = NoJournal
  /\ IF held = "startup" THEN pc' = "main" /\ UNCHANGED <<memory, exit>>
                         ELSE Ends("signalled")
  /\ UNCHANGED <<disk, mine>>

-----------------------------------------------------------------------------
(* main(): --list ends it, and so does a suite that is red, or no pytest at all. *)
Baseline ==
  /\ pc = "main"
  /\ \/ pc' = "read" /\ UNCHANGED <<memory, exit>>
     \/ Ends("returned")
  /\ UNCHANGED <<disk, journal, mine>>

(* The next mutation, unless an exception ends the sweep. *)
NextTurn ==
  IF leaving \/ turn = Len(FileOf) THEN Ends("returned")
  ELSE pc' = "read" /\ turn' = turn + 1 /\ UNCHANGED <<held, original, leaving, exit>>

(* evaluate(): a mutation that was not selected, is stale, or is no Python is skipped. *)
Read ==
  /\ pc = "read"
  /\ \/ pc' = "journal" /\ original' = disk[File] /\ UNCHANGED <<held, turn, leaving, exit>>
     \/ NextTurn
  /\ UNCHANGED <<disk, journal, mine>>

WriteJournal ==
  /\ \/ pc = "journal" /\ pc' = "journalling" /\ journal' = [NoJournal EXCEPT !.state = "part"]
     \/ /\ pc = "journalling" /\ pc' = "mutate"
        /\ journal' = [state |-> "whole", file |-> File, text |-> original]
  /\ UNCHANGED <<memory, disk, mine, exit>>

Mutate ==
  /\ \/ pc = "mutate" /\ pc' = "mutating" /\ disk' = [disk EXCEPT ![File] = Part]
     \/ /\ pc = "mutating" /\ pc' = "test"
        /\ disk' = [disk EXCEPT ![File] = Mutated(original, turn)]
  /\ UNCHANGED <<memory, journal, mine, exit>>

(* run_pytest(): it passes, fails, or raises. *)
Test ==
  /\ pc = "test" /\ pc' = "restore"
  /\ leaving' \in {leaving, TRUE}
  /\ UNCHANGED <<held, turn, original, disk, journal, mine, exit>>

(* Seeded fault: the journal is removed before the file is put back. *)
Restore_forgets_first ==
  /\ \/ pc = "restore" /\ pc' = "restoring" /\ disk' = [disk EXCEPT ![File] = Part]
     \/ pc = "restoring" /\ pc' = "unlink" /\ disk' = [disk EXCEPT ![File] = original]
  /\ journal' = NoJournal
  /\ UNCHANGED <<memory, mine, exit>>

Restore ==
  /\ \/ pc = "restore" /\ pc' = "restoring" /\ disk' = [disk EXCEPT ![File] = Part]
     \/ pc = "restoring" /\ pc' = "unlink" /\ disk' = [disk EXCEPT ![File] = original]
  /\ UNCHANGED <<memory, journal, mine, exit>>

Unlink ==
  /\ pc = "unlink" /\ journal' = NoJournal
  /\ NextTurn
  /\ UNCHANGED <<disk, mine>>

Sweep == Look \/ Rewrite \/ Forget \/ Baseline \/ Read \/ WriteJournal \/ Mutate \/ Test
           \/ Restore \/ Unlink

-----------------------------------------------------------------------------
(* A read or a write raises: in the try block on to the finally clause, elsewhere *)
(* out of main().                                                                 *)
IoFails ==
  /\ \/ pc = "look" /\ journal.state # "absent" /\ Refuse
     \/ pc \in {"rewrite", "rewriting", "forget"} /\ Refuse
     \/ /\ pc \in {"mutate", "mutating"} /\ pc' = "restore" /\ leaving' = TRUE
        /\ UNCHANGED <<held, turn, original, exit>>
     \/ pc \in {"read", "journal", "journalling", "restore", "restoring", "unlink"}
        /\ Ends("failed")
  /\ UNCHANGED <<disk, journal, mine>>

(* Seeded fault: the handler leaves the restoring to the finally clause. *)
Signal_exits ==
  /\ pc # "down" /\ (Recovering => held # "startup")
  /\ Ends("signalled") /\ UNCHANGED <<disk, journal, mine>>

(* SIGTERM or SIGINT, once the handler is installed; also while it runs.  *)
Signal ==
  /\ pc # "down" /\ (Recovering => held # "startup")
  /\ pc' = "look" /\ held' = IF Recovering THEN held ELSE pc
  /\ UNCHANGED <<turn, original, leaving, disk, journal, mine, exit>>

(* SIGKILL, or a signal before the handler is installed. *)
Kill ==
  /\ pc # "down" /\ Ends("killed")
  /\ UNCHANGED <<disk, journal, mine>>

(* The developer, when no sweep runs and no journal is there; a journal that *)
(* cannot be read is removed after a look at the tree.                       *)
Edit ==
  /\ pc = "down" /\ journal.state = "absent"
  /\ \E f \in Files :
       /\ mine[f].version < MaxEdits /\ disk[f] = mine[f]
       /\ mine' = [mine EXCEPT ![f] = Whole(@.version + 1)]
       /\ disk' = [disk EXCEPT ![f] = mine'[f]]
  /\ UNCHANGED <<pc, memory, journal, exit>>

RemoveJournal ==
  /\ pc = "down" /\ journal.state = "part" /\ journal' = NoJournal
  /\ UNCHANGED <<pc, memory, disk, mine, exit>>

Next == Start \/ Sweep \/ IoFails \/ Signal \/ Kill \/ Edit \/ RemoveJournal

Spec == Init /\ [][Next]_vars

-----------------------------------------------------------------------------
(* mutate.py:41-44, 981-989: at every moment, whatever step the process died at, a *)
(* file that is not as the developer left it is one that the journal can put back. *)
AlwaysRecoverable ==
  \A f \in Files : disk[f] # mine[f] =>
    journal = [state |-> "whole", file |-> f, text |-> mine[f]]

(* mutate.py:933-939, 1022-1035: when the tests run, the tree is the developer's, with *)
(* the one mutation that is judged in it, or with none for the baseline, whatever    *)
(* became of the runs before.                                                        *)
VerdictIsMeasured ==
  pc \in {"main", "test"} =>
    disk = (IF pc = "main" THEN mine ELSE [mine EXCEPT ![File] = Mutated(@, turn)])

(* mutate.py:23-25, 952-959, 987: a sweep that returned, or was ended by an exception of  *)
(* the tests or by a signal that can be caught, has left the tree as it was, and no  *)
(* journal.                                                                          *)
HandledExitIsClean ==
  pc = "down" /\ exit \in {"returned", "signalled"} =>
    disk = mine /\ journal.state = "absent"
=============================================================================
