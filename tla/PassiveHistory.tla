--------------------------- MODULE PassiveHistory ---------------------------
(* The saved results of Passive Discovery (passive_history.c), with the live   *)
(* neighbour database they are merged from (neighbor_db.c) and the screens     *)
(* that call them (PassiveDiscoveryScene.c, PassiveNeighborListScene.c).       *)
(*                                                                             *)
(* A merge or a clear loads an index of the file, writes a new file beside it  *)
(* record by record and renames that over the old one.  Any storage call may   *)
(* fail, and the power may go between any two calls.  All of this runs on the  *)
(* GUI thread, so one call runs at a time.  A record is its key and an opaque  *)
(* content; a file is its records and whether its header and checksum match.   *)
EXTENDS Naturals, Sequences, FiniteSets

CONSTANTS
    Macs, Protocols, Infos, All, MaxRecords,    \* as in HistoryStore
    Slots,          \* NEIGHBOR_DB_MAX_ENTRIES
    Free,           \* an unoccupied slot
    NoHistory,      \* app->passive_history = NULL
    LoadFaults      \* may reading the index fail on a good file?

ASSUME HistoryAssumption ==
    /\ MaxRecords \in Nat \ {0}
    /\ Slots \in Nat \ {0}
    /\ All \notin Protocols
    /\ LoadFaults \in BOOLEAN
    /\ Free \notin [mac : Macs, protocol : Protocols, info : Infos]
    /\ NoHistory \notin [status : {"Ready", "Missing", "Invalid"}, keys : Seq(Macs \X Protocols)]

VARIABLES
    final,          \* passive_history.bin
    temp,           \* passive_history.tmp
    live,           \* the neighbour database, slot by slot
    history,        \* the index in use: app->passive_history, or a local one
    screen,         \* which part of the feature the user is in
    mode,           \* app->passive_discovery.protocol
    pc,             \* the step of the running merge or clear
    cursor,         \* its loop variable
    result          \* what it returns

files == <<final, temp>>
vars == <<final, temp, live, history, screen, mode, pc, cursor, result>>

Records == [mac : Macs, protocol : Protocols, info : Infos]
Filters == Protocols \cup {All}
FilterMatches(f, p) == f \in {All, p}
KeyOf(r) == <<r.mac, r.protocol>>

-----------------------------------------------------------------------------
(* Files and indexes.                                                          *)

Absent == [state |-> "absent", recs |-> <<>>]
Corrupt == [state |-> "corrupt", recs |-> <<>>]
Torn(recs) == [state |-> "torn", recs |-> recs]
Whole(recs) == [state |-> "whole", recs |-> recs]

(* The checks of history_load on an intact file: the record limit, and no key  *)
(* twice.                                                                      *)
Readable(file) ==
    /\ file.state = "whole"
    /\ Len(file.recs) <= MaxRecords
    /\ \A i, j \in 1..Len(file.recs) :
          KeyOf(file.recs[i]) = KeyOf(file.recs[j]) => i = j

Index(status, keys) == [status |-> status, keys |-> keys]

HistoryLoad(file) ==
    IF file.state = "absent" THEN Index("Missing", <<>>)
    ELSE IF Readable(file)
         THEN Index("Ready", [i \in 1..Len(file.recs) |-> KeyOf(file.recs[i])])
         ELSE Index("Invalid", <<>>)

(* A failed open reads as a missing file, a failed read as an invalid one.     *)
LoadResults(file) ==
    {HistoryLoad(file)} \cup
        IF LoadFaults THEN {Index("Missing", <<>>), Index("Invalid", <<>>)} ELSE {}

(* Variant: the second loop of a merge does not look a key up.                 *)
KeyForgotten(k) == FALSE

KeyExists(k) == \E i \in 1..Len(history.keys) : history.keys[i] = k

(* history_record_read: the record at an index entry's offset, if it is still  *)
(* the one the entry was made from.                                            *)
RecordReads(i) ==
    {final.recs[j] : j \in {j \in {i} \cap 1..Len(final.recs) :
                               KeyOf(final.recs[j]) = history.keys[i]}}

-----------------------------------------------------------------------------
(* The live database.                                                          *)

Occupied == {s \in 1..Slots : live[s] # Free}

FindBySource(k) == {s \in Occupied : KeyOf(live[s]) = k}

FirstFree(s) == s \notin Occupied /\ 1..(s - 1) \subseteq Occupied

ClearBySource(f) ==
    [s \in 1..Slots |->
        IF s \in Occupied /\ FilterMatches(f, live[s].protocol) THEN Free ELSE live[s]]

Released == [s \in 1..Slots |-> Free]

HeardSet == {live[s] : s \in Occupied}

-----------------------------------------------------------------------------
TypeOK ==
    /\ \A file \in {final, temp} :
          /\ file.state \in {"absent", "corrupt", "torn", "whole"}
          /\ Len(file.recs) <= MaxRecords
          /\ \A i \in 1..Len(file.recs) : file.recs[i] \in Records
    /\ live \in [1..Slots -> Records \cup {Free}]
    /\ history = NoHistory \/ history.status \in {"Ready", "Missing", "Invalid"}
    /\ screen \in {"config", "capture", "live", "saved"}
    /\ mode \in Filters
    /\ pc \in {"idle", "begin", "copy", "live", "finish", "rename", "return"}
    /\ cursor \in Nat
    /\ result \in BOOLEAN

Init ==
    /\ final \in {Absent, Corrupt, Whole(<<>>)}
    /\ temp = Absent
    /\ live = Released
    /\ history = NoHistory
    /\ screen = "config"
    /\ mode = All
    /\ pc = "idle"
    /\ cursor = 1
    /\ result = FALSE

-----------------------------------------------------------------------------
(* The screens.                                                                *)

Quiet == pc = "idle"

ChooseMode ==
    /\ Quiet /\ screen = "config"
    /\ mode' \in Filters \ {mode}
    /\ UNCHANGED <<final, temp, live, history, screen, pc, cursor, result>>

(* Start: each selected handler's init drops what its protocol had found.      *)
StartCapture ==
    /\ Quiet /\ screen = "config"
    /\ screen' = "capture"
    /\ live' = ClearBySource(mode)
    /\ UNCHANGED <<final, temp, history, mode, pc, cursor, result>>

(* A frame of a selected protocol: neighbor_db_update, or neighbor_db_add into *)
(* the first free slot.  A full database drops it.                             *)
Hear(r) ==
    /\ Quiet /\ screen = "capture"
    /\ FilterMatches(mode, r.protocol)
    /\ \/ \E s \in FindBySource(KeyOf(r)) : live' = [live EXCEPT ![s] = r]
       \/ /\ FindBySource(KeyOf(r)) = {}
          /\ \E s \in 1..Slots : FirstFree(s) /\ live' = [live EXCEPT ![s] = r]
    /\ UNCHANGED <<final, temp, history, screen, mode, pc, cursor, result>>

(* The saved list; there may be no memory for its index.                       *)
OpenSaved ==
    /\ Quiet /\ screen = "config"
    /\ screen' = "saved"
    /\ live' = Released
    /\ history' \in LoadResults(final) \cup {NoHistory}
    /\ UNCHANGED <<final, temp, mode, pc, cursor, result>>

(* BACK: from a list to the configuration, from there out of the feature.      *)
Back ==
    /\ Quiet /\ screen # "capture"
    /\ screen' = "config"
    /\ history' = NoHistory
    /\ live' = IF screen = "config" THEN Released ELSE live
    /\ UNCHANGED <<final, temp, mode, pc, cursor, result>>

-----------------------------------------------------------------------------
(* passive_history_merge_live and passive_history_clear.                       *)

(* The worker is joined and the capture was operational: merge what it heard.  *)
MergeLive ==
    /\ Quiet /\ screen = "capture"
    /\ history' \in LoadResults(final)
    /\ pc' = "begin"
    /\ UNCHANGED <<final, temp, live, screen, mode, cursor, result>>

(* [ Clear Results ] on the live list works on an index of its own, on the     *)
(* saved list on the list's.  An invalid file can only be cleared as a whole.  *)
ClearHistory ==
    /\ Quiet /\ screen \in {"live", "saved"}
    /\ history' \in IF screen = "live" THEN LoadResults(final) ELSE {history}
    /\ IF history' = NoHistory \/ (history'.status = "Invalid" /\ mode # All)
       THEN result' = FALSE /\ pc' = "return"
       ELSE pc' = "begin" /\ UNCHANGED result
    /\ UNCHANGED <<final, temp, live, screen, mode, cursor>>

(* history_writer_abort and the failure path of history_writer_finish: remove  *)
(* the temporary file, which may fail as well.                                 *)
Abort(leftovers) ==
    /\ temp' \in leftovers \cup {Absent}
    /\ result' = FALSE
    /\ pc' = "return"
    /\ UNCHANGED <<final, live, history, screen, mode, cursor>>

WriterBegin ==
    /\ pc = "begin"
    /\ \/ /\ temp' = Torn(<<>>)
          /\ cursor' = 1
          /\ pc' = "copy"
          /\ UNCHANGED <<final, live, history, screen, mode, result>>
       \/ Abort({temp, Torn(<<>>)})

WriterAdd(r) == temp' = Torn(Append(temp.recs, r))

(* The first loop of a merge: a saved record, or its live successor.           *)
Successors(k) == {s \in FindBySource(k) : FilterMatches(mode, live[s].protocol)}

CopyRecord ==
    /\ pc = "copy" /\ cursor <= Len(history.keys)
    /\ LET k == history.keys[cursor]
       IN  IF screen = "capture"
           THEN \/ \E s \in Successors(k) : WriterAdd(live[s])
                \/ Successors(k) = {} /\ \E r \in RecordReads(cursor) : WriterAdd(r)
           ELSE \/ FilterMatches(mode, k[2]) /\ UNCHANGED temp
                \/ ~FilterMatches(mode, k[2]) /\ \E r \in RecordReads(cursor) : WriterAdd(r)
    /\ cursor' = cursor + 1
    /\ UNCHANGED <<final, live, history, screen, mode, pc, result>>

CopyDone ==
    /\ pc = "copy" /\ cursor > Len(history.keys)
    /\ pc' = IF screen = "capture" THEN "live" ELSE "finish"
    /\ cursor' = 1
    /\ UNCHANGED <<final, temp, live, history, screen, mode, result>>

(* The second loop of a merge: live observations that were not saved yet, as   *)
(* long as there is room; the others are dropped without an error.             *)
Addable(s) ==
    /\ s \in Occupied
    /\ FilterMatches(mode, live[s].protocol)
    /\ ~KeyExists(KeyOf(live[s]))
    /\ Len(temp.recs) < MaxRecords

AddLive ==
    /\ pc = "live" /\ cursor <= Slots
    /\ IF Addable(cursor) THEN WriterAdd(live[cursor]) ELSE UNCHANGED temp
    /\ cursor' = cursor + 1
    /\ UNCHANGED <<final, live, history, screen, mode, pc, result>>

LiveDone ==
    /\ pc = "live" /\ cursor > Slots
    /\ pc' = "finish"
    /\ UNCHANGED <<final, temp, live, history, screen, mode, cursor, result>>

(* Variant: the old file is removed before the new one takes its name.         *)
RenameRemovesFirst ==
    /\ pc = "rename"
    /\ \/ /\ final.state # "absent"
          /\ final' = Absent
          /\ UNCHANGED <<temp, live, history, screen, mode, pc, cursor, result>>
       \/ /\ final.state = "absent"
          /\ final' = temp
          /\ temp' = Absent
          /\ result' = TRUE
          /\ pc' = "return"
          /\ UNCHANGED <<live, history, screen, mode, cursor>>

(* history_writer_finish: header, sync and close; then the rename.             *)
WriterFinish ==
    /\ pc = "finish"
    /\ temp' = Whole(temp.recs)
    /\ pc' = "rename"
    /\ UNCHANGED <<final, live, history, screen, mode, cursor, result>>

Rename ==
    /\ pc = "rename"
    /\ final' = temp
    /\ temp' = Absent
    /\ result' = TRUE
    /\ pc' = "return"
    /\ UNCHANGED <<live, history, screen, mode, cursor>>

(* A read, write, seek, sync, close or rename that fails.                      *)
IoFault == pc \in {"copy", "live", "finish", "rename"} /\ Abort({temp})

(* Back in the caller.  A successful clear has reloaded the index it was given.*)
MergeReturn ==
    /\ pc = "return" /\ screen = "capture"
    /\ screen' \in {"live", "config"}
    /\ history' = NoHistory
    /\ pc' = "idle"
    /\ UNCHANGED <<final, temp, live, mode, cursor, result>>

ClearLiveReturn ==
    /\ pc = "return" /\ screen = "live"
    /\ live' = ClearBySource(mode)
    /\ history' = NoHistory
    /\ pc' = "idle"
    /\ UNCHANGED <<final, temp, screen, mode, cursor, result>>

ClearSavedKeepsIndex ==
    /\ pc = "return" /\ screen = "saved"
    /\ pc' = "idle"
    /\ UNCHANGED <<final, temp, live, history, screen, mode, cursor, result>>

ClearSavedReturn ==
    /\ pc = "return" /\ screen = "saved"
    /\ history' \in IF result THEN LoadResults(final) ELSE {history}
    /\ pc' = "idle"
    /\ UNCHANGED <<final, temp, live, screen, mode, cursor, result>>

(* Power cut or reboot at any moment: only the card survives.                  *)
Crash ==
    /\ live' = Released
    /\ history' = NoHistory
    /\ screen' = "config"
    /\ mode' = All
    /\ pc' = "idle"
    /\ cursor' = 1
    /\ result' = FALSE
    /\ UNCHANGED files

-----------------------------------------------------------------------------
Screens ==
    ChooseMode \/ StartCapture \/ OpenSaved \/ Back \/ \E r \in Records : Hear(r)

Calls == MergeLive \/ ClearHistory \/ MergeReturn \/ ClearLiveReturn \/ ClearSavedReturn

Writer ==
    WriterBegin \/ CopyRecord \/ CopyDone \/ AddLive \/ LiveDone \/ WriterFinish
        \/ Rename \/ IoFault

Next == Screens \/ Calls \/ Writer \/ Crash

Spec == Init /\ [][Next]_vars

-----------------------------------------------------------------------------
(* Properties.                                                                 *)

SavedSet == IF Readable(final) THEN {final.recs[i] : i \in 1..Len(final.recs)} ELSE {}

(* A saved file that history_load accepts is only ever replaced by another one *)
(* it accepts: no interleaving of failures and power cuts leaves a torn file, a *)
(* duplicate key or too many records under the final name                      *)
(* (passive_history.c:649-670, 731).                                           *)
FinalStaysReadable == [][Readable(final) => Readable(final')]_vars

(* The index behind the saved list is the one of the file on the card, so the  *)
(* offsets it decodes at and clears from are right                             *)
(* (passive_history.c:581-603, 795).                                           *)
SavedIndexCurrent ==
    Quiet /\ screen = "saved" => history \in {HistoryLoad(final), NoHistory}

(* Merging and clearing the file changes the saved results atomically, as      *)
(* HistoryStore promises, and what they return tells whether it did            *)
(* (passive_history.c:689-797).                                                *)
Store == INSTANCE HistoryStore WITH store <- SavedSet, heard <- HeardSet

ImplementsStore == Store!Spec

(* The claim that saved results stay until the user clears them: a merge never *)
(* loses a saved key, also when reading the card fails                         *)
(* (docs/APP_BEHAVIOR.md:414).                                                 *)
SavedUntilCleared ==
    [][screen = "capture" =>
          {KeyOf(r) : r \in SavedSet} \subseteq {KeyOf(r) : r \in SavedSet'}]_vars
=============================================================================
