----------------------------- MODULE PriceLists -----------------------------
(***************************************************************************)
(* cmd/importer and its queue: price lists are put into a directory, runs  *)
(* of the importer move them into subdirectory "processed" and publish     *)
(* their paths on queue price_list_import, and the consumer of             *)
(* aggregator-service opens the path when the message comes to its turn.   *)
(*                                                                         *)
(* A list is a sequence of rows.  Files under one name replace each other, *)
(* in the directory and again in "processed", where a list that is still   *)
(* queued may lie.  The consumer uses automatic acknowledgement.           *)
(***************************************************************************)
EXTENDS Integers, Sequences, FiniteSetsExt, Functions

CONSTANTS
    Names,         \* names of .xlsx files, in the order of os.ReadDir
    Lists,         \* contents of files
    ImporterRuns,  \* runs of the importer that may overlap
    Mishaps,       \* those of "rename", "publish", "importer" that may happen
    MaxLists       \* bound: files ever put into the directory

VARIABLES
    inbox,      \* the file of each name in the directory
    processed,  \* the file of each name in "processed"
    entries,    \* names each run of the importer has not come to yet
    moved,      \* {name} between the move of its file and its publication
    queue,      \* names on the queue
    buffer,     \* names pushed to the consumer
    atHand,     \* the rows the consumer has not read yet, in a set of one
    newest,     \* history: number of the newest file of each name
    imported,   \* history: number of the last file opened under each name
    lost        \* history: names whose last message or list was lost

files    == <<inbox, processed>>
runs     == <<entries, moved>>
messages == <<queue, buffer>>
history  == <<newest, imported, lost>>
vars == <<files, runs, messages, atHand, history>>

File == [number : 1 .. MaxLists, name : Names, rows : Lists]
NoFile == [number |-> 0]

Current(i) == Min(entries[i])

Init ==
    /\ inbox = [n \in Names |-> NoFile]
    /\ processed = [n \in Names |-> NoFile]
    /\ entries = [i \in ImporterRuns |-> {}]
    /\ moved = [i \in ImporterRuns |-> {}]
    /\ queue = <<>>
    /\ buffer = <<>>
    /\ atHand = {}
    /\ newest = [n \in Names |-> 0]
    /\ imported = [n \in Names |-> 0]
    /\ lost = {}

Placed == Max({0} \cup Range(newest))

\* Somebody puts a file into the directory.
PlaceList(n) ==
    /\ Placed < MaxLists
    /\ \E rows \in Lists :
          inbox' = [inbox EXCEPT ![n] =
                       [number |-> Placed + 1, name |-> n, rows |-> rows]]
    /\ newest' = [newest EXCEPT ![n] = Placed + 1]
    /\ lost' = lost \ {n}
    /\ UNCHANGED <<processed, runs, messages, atHand, imported>>
-----------------------------------------------------------------------------
(* publishAll *)

\* A run starts with os.ReadDir; with nothing to do it would end at once.
ReadDir(i) ==
    /\ entries[i] = {}
    /\ entries' = [entries EXCEPT ![i] = {n \in Names : inbox[n] # NoFile}]
    /\ entries' # entries
    /\ UNCHANGED <<files, moved, messages, atHand, history>>

Skip(i) == entries' = [entries EXCEPT ![i] = @ \ {Current(i)}]

\* os.Rename, which replaces a file moved before; it fails when another run
\* was faster.
MoveFile(i) ==
    /\ entries[i] # {} /\ moved[i] = {}
    /\ LET n == Current(i) IN
       \/ /\ inbox[n] # NoFile
          /\ inbox' = [inbox EXCEPT ![n] = NoFile]
          /\ processed' = [processed EXCEPT ![n] = inbox[n]]
          /\ moved' = [moved EXCEPT ![i] = {n}]
          /\ UNCHANGED entries
       \/ /\ inbox[n] = NoFile \/ "rename" \in Mishaps
          /\ Skip(i)
          /\ UNCHANGED <<files, moved>>
    /\ UNCHANGED <<messages, atHand, history>>

\* After an error the run goes on; nothing moves the file back.
PublishPath(i) ==
    /\ moved[i] # {}
    /\ \/ queue' = Append(queue, Current(i)) /\ UNCHANGED lost
       \/ "publish" \in Mishaps /\ lost' = lost \cup moved[i] /\ UNCHANGED queue
    /\ moved' = [moved EXCEPT ![i] = {}]
    /\ Skip(i)
    /\ UNCHANGED <<files, buffer, atHand, newest, imported>>

ImporterDies(i) ==
    /\ "importer" \in Mishaps
    /\ entries[i] # {}
    /\ entries' = [entries EXCEPT ![i] = {}]
    /\ moved' = [moved EXCEPT ![i] = {}]
    /\ lost' = lost \cup moved[i]
    /\ UNCHANGED <<files, messages, atHand, newest, imported>>
-----------------------------------------------------------------------------
(* The queue and StartImportConsumer. *)

\* The broker pushes the next message and forgets it.
Deliver ==
    /\ queue # <<>>
    /\ buffer' = Append(buffer, Head(queue))
    /\ queue' = Tail(queue)
    /\ UNCHANGED <<files, runs, atHand, history>>

\* A mutant: the path published is that of the file before its move.
FileAtOldPath(n) == inbox[n]

FileAt(n) == processed[n]

\* The file is opened, and read to its end.
OpenList ==
    /\ buffer # <<>>
    /\ atHand = {}
    /\ buffer' = Tail(buffer)
    /\ LET file == FileAt(Head(buffer))
       IN  IF file = NoFile THEN UNCHANGED <<atHand, imported>>
           ELSE /\ atHand' = {file}
                /\ imported' = [imported EXCEPT ![file.name] = file.number]
    /\ UNCHANGED <<files, runs, queue, newest, lost>>

NextRow(row) ==
    \E file \in atHand :
        /\ file.rows # <<>>
        /\ row = Head(file.rows)
        /\ atHand' = {[file EXCEPT !.rows = Tail(@)]}
        /\ UNCHANGED <<files, runs, messages, history>>

CloseList ==
    /\ \E file \in atHand : file.rows = <<>>
    /\ atHand' = {}
    /\ UNCHANGED <<files, runs, messages, history>>

\* What the consumer held is gone; the queue itself stays.
BufferLost ==
    /\ buffer' = <<>>
    /\ lost' = lost \cup Range(buffer)
    /\ UNCHANGED <<files, runs, queue, newest, imported>>

\* A list at hand is read on when only the connection is lost.
ConsumerCutOff == BufferLost /\ UNCHANGED atHand

ConsumerDies == BufferLost /\ atHand' = {}
-----------------------------------------------------------------------------
TypeOK ==
    /\ inbox \in [Names -> File \cup {NoFile}]
    /\ processed \in [Names -> File \cup {NoFile}]
    /\ entries \in [ImporterRuns -> SUBSET Names]
    /\ moved \in [ImporterRuns -> SUBSET Names]
    /\ queue \in Seq(Names)
    /\ buffer \in Seq(Names)
    /\ \A file \in atHand : file.number \in 1 .. MaxLists
    /\ newest \in [Names -> 0 .. MaxLists]
    /\ imported \in [Names -> 0 .. MaxLists]
    /\ lost \subseteq Names

\* On its way between the directory and the consumer.
UnderWay(n) ==
    \/ inbox[n] # NoFile
    \/ \E i \in ImporterRuns : n \in moved[i]
    \/ n \in Range(queue) \cup Range(buffer)

(***************************************************************************)
(* When nothing of a name is under way any more, the list opened last is   *)
(* the newest one put into the directory under that name, though lists of  *)
(* one name overwrite each other while their messages wait and several     *)
(* runs of the importer move them (publishAll and StartImportConsumer);    *)
(* only messages lost since then are excepted.                             *)
(***************************************************************************)
NewestListOpened ==
    \A n \in Names \ lost : ~UnderWay(n) => imported[n] = newest[n]
=============================================================================
