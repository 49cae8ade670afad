------------------------- MODULE PassiveHistory_proofs -------------------------
(* Machine-checked proofs about PassiveHistory, for any addresses, protocols   *)
(* and contents, any number of records and slots, whatever storage call fails  *)
(* and whenever the power goes.                                                *)
EXTENDS PassiveHistory, SequenceTheorems, FiniteSetTheorems, FunctionTheorems, TLAPS

Keyed == Macs \X Protocols
Indexes == [status : {"Ready", "Missing", "Invalid"}, keys : Seq(Keyed)]
Files == [state : {"absent", "corrupt", "torn", "whole"}, recs : Seq(Records)]

DistinctKeys(recs) ==
    \A i, j \in 1..Len(recs) : KeyOf(recs[i]) = KeyOf(recs[j]) => i = j

Writing == {"begin", "copy", "live", "finish", "rename"}

-----------------------------------------------------------------------------
(* What a file that is being written may hold.                                *)

Types ==
    /\ final \in Files /\ temp \in Files
    /\ live \in [1..Slots -> Records \cup {Free}]
    /\ history \in Indexes \cup {NoHistory}
    /\ screen \in {"config", "capture", "live", "saved"}
    /\ mode \in Filters
    /\ pc \in {"idle", "return"} \cup Writing
    /\ cursor \in Nat \ {0}
    /\ result \in BOOLEAN

(* No key twice among the live observations, nor in the index.                 *)
SourceInv ==
    /\ \A s, t \in Occupied : KeyOf(live[s]) = KeyOf(live[t]) => s = t
    /\ history # NoHistory =>
          /\ Len(history.keys) <= MaxRecords
          /\ \A i, j \in 1..Len(history.keys) : history.keys[i] = history.keys[j] => i = j

CallInv ==
    /\ pc \in Writing => history # NoHistory
    /\ pc # "idle" => screen # "config"
    /\ pc = "live" => screen = "capture"

(* The keys of the records written so far: of the index up to the cursor, then *)
(* of the slots up to the cursor that are not in the index.                    *)
CopyKeys ==
    /\ Len(temp.recs) < cursor
    /\ cursor <= Len(history.keys) + 1
    /\ DistinctKeys(temp.recs)
    /\ \A i \in 1..Len(temp.recs) : \E j \in 1..(cursor - 1) : KeyOf(temp.recs[i]) = history.keys[j]

LiveKeys ==
    /\ Len(temp.recs) <= MaxRecords
    /\ DistinctKeys(temp.recs)
    /\ \A i \in 1..Len(temp.recs) :
          \/ KeyExists(KeyOf(temp.recs[i]))
          \/ \E s \in Occupied : s < cursor /\ KeyOf(temp.recs[i]) = KeyOf(live[s])

KeysInv ==
    /\ pc = "copy" => CopyKeys
    /\ pc = "live" => LiveKeys
    /\ pc \in {"finish", "rename"} => Len(temp.recs) <= MaxRecords /\ DistinctKeys(temp.recs)
    /\ pc = "rename" => temp.state = "whole"

FileInv == Types /\ SourceInv /\ CallInv /\ KeysInv

(* The key of a record is a source and a protocol.                             *)
LEMMA KeysTyped == \A r \in Records : KeyOf(r) \in Keyed
BY DEF Records, KeyOf, Keyed

(* An occupied slot is a slot of the database and holds a record.              *)
LEMMA LiveTyped ==
    ASSUME Types
    PROVE  Occupied \subseteq 1..Slots /\ \A s \in Occupied : live[s] \in Records
BY DEF Types, Occupied

(* What a load returns: an index of the file, or an empty one.                 *)
LEMMA LoadTyped ==
    ASSUME NEW file \in Files, NEW h \in LoadResults(file)
    PROVE  /\ h \in Indexes /\ h # NoHistory
           /\ Len(h.keys) <= MaxRecords
           /\ \A i, j \in 1..Len(h.keys) : h.keys[i] = h.keys[j] => i = j
<1> DEFINE keys == [i \in 1..Len(file.recs) |-> KeyOf(file.recs[i])]
<1>1. \/ h \in {Index("Missing", <<>>), Index("Invalid", <<>>)}
      \/ Readable(file) /\ h = Index("Ready", keys)
  BY DEF LoadResults, HistoryLoad
<1>2. Indexes \subseteq [status : {"Ready", "Missing", "Invalid"}, keys : Seq(Macs \X Protocols)]
  BY DEF Indexes, Keyed
<1>3. CASE h \in {Index("Missing", <<>>), Index("Invalid", <<>>)}
  <2>1. <<>> \in Seq(Keyed)
    OBVIOUS
  <2>2. \A e \in Seq(Keyed) : \A st \in {"Missing", "Invalid"} :
            Index(st, e) \in Indexes /\ Index(st, e).keys = e
    BY DEF Index, Indexes
  <2>3. h \in Indexes /\ h.keys = <<>>
    BY <1>3, <2>1, <2>2
  <2> QED BY <1>2, <2>3, HistoryAssumption
<1>4. CASE Readable(file) /\ h = Index("Ready", keys)
  <2>1. file.recs \in Seq(Records) /\ Len(file.recs) \in Nat
    BY LenProperties DEF Files
  <2>2. \A i \in 1..Len(file.recs) : KeyOf(file.recs[i]) \in Keyed
    BY <2>1, KeysTyped, ElementOfSeq
  <2>3. keys \in Seq(Keyed)
    BY <2>1, <2>2
  <2>4. Len(keys) = Len(file.recs)
    BY <2>1
  <2>5. h \in Indexes /\ h.keys = keys
    BY <1>4, <2>3 DEF Index, Indexes
  <2>6. \A i, j \in 1..Len(keys) : keys[i] = keys[j] => i = j
    BY <1>4, <2>4 DEF Readable
  <2> QED BY <1>2, <1>4, <2>4, <2>5, <2>6, HistoryAssumption DEF Readable
<1> QED BY <1>1, <1>3, <1>4

(* FileInv holds on a card without results.                                    *)
LEMMA FileInit == Init => FileInv
<1> SUFFICES ASSUME Init PROVE FileInv
  OBVIOUS
<1>1. <<>> \in Seq(Records)
  OBVIOUS
<1>2. \A e \in Seq(Records) : \A st \in {"absent", "corrupt", "torn", "whole"} :
         [state |-> st, recs |-> e] \in Files
  BY DEF Files
<1>3. final \in Files /\ temp \in Files
  BY <1>1, <1>2 DEF Init, Absent, Corrupt, Whole
<1>4. live = [s \in 1..Slots |-> Free] /\ Occupied = {}
  BY DEF Init, Released, Occupied
<1>5. live \in [1..Slots -> Records \cup {Free}]
  BY <1>4
<1>6. /\ history = NoHistory /\ screen = "config" /\ mode = All
      /\ pc = "idle" /\ cursor = 1 /\ result = FALSE
  BY DEF Init
<1>7. Types
  <2>1. history \in Indexes \cup {NoHistory} /\ mode \in Filters
    BY <1>6 DEF Filters
  <2>2. pc \in {"idle", "return"} \cup Writing /\ result \in BOOLEAN
    BY <1>6, Zenon
  <2>4. cursor \in Nat \ {0}
    BY <1>6
  <2>3. screen \in {"config", "capture", "live", "saved"}
    BY <1>6
  <2> QED BY <1>3, <1>5, <2>1, <2>2, <2>3, <2>4 DEF Types
<1> QED BY <1>4, <1>6, <1>7 DEF FileInv, SourceInv, CallInv, KeysInv, Writing

(* A step that leaves the writer and the live observations alone.              *)
LEMMA SourceKept ==
    ASSUME FileInv, UNCHANGED <<live, history>>
    PROVE  SourceInv'
BY DEF FileInv, SourceInv, Occupied

(* No writer runs after the step.                                              *)
LEMMA NotWriting ==
    ASSUME FileInv, Types', SourceInv', pc' \in {"idle", "return"}, pc' # "idle" => screen' # "config"
    PROVE  FileInv'
BY DEF FileInv, CallInv, KeysInv, Writing

(* Clearing the live database only frees slots.                                *)
LEMMA LiveForgotten ==
    ASSUME FileInv, live' = Released \/ \E f : live' = ClearBySource(f)
    PROVE  /\ live' \in [1..Slots -> Records \cup {Free}]
           /\ Occupied' \subseteq Occupied
           /\ \A s \in Occupied' : live'[s] = live[s]
<1> USE DEF FileInv, Types
<1>1. CASE live' = Released
  BY <1>1 DEF Released, Occupied
<1>2. ASSUME NEW f, live' = ClearBySource(f)
      PROVE  /\ live' \in [1..Slots -> Records \cup {Free}]
             /\ Occupied' \subseteq Occupied
             /\ \A s \in Occupied' : live'[s] = live[s]
  BY <1>2 DEF ClearBySource, Occupied
<1> QED BY <1>1, <1>2

(* A step of the screens keeps FileInv.                                        *)
LEMMA ScreensStep ==
    ASSUME FileInv, Screens
    PROVE  FileInv'
<1> USE DEF Quiet
<1>1. CASE ChooseMode
  <2>1. Types'
    BY <1>1 DEF ChooseMode, FileInv, Types
  <2> QED BY <1>1, <2>1, SourceKept, NotWriting DEF ChooseMode
<1>2. CASE StartCapture
  <2>1. /\ live' \in [1..Slots -> Records \cup {Free}] /\ Occupied' \subseteq Occupied
        /\ \A s \in Occupied' : live'[s] = live[s]
    BY <1>2, LiveForgotten DEF StartCapture
  <2>2. Types'
    BY <1>2, <2>1 DEF StartCapture, FileInv, Types
  <2>3. SourceInv'
    BY <1>2, <2>1 DEF StartCapture, FileInv, SourceInv
  <2> QED BY <1>2, <2>2, <2>3, NotWriting DEF StartCapture
<1>3. CASE OpenSaved
  <2>1. /\ live' \in [1..Slots -> Records \cup {Free}] /\ Occupied' \subseteq Occupied
        /\ \A s \in Occupied' : live'[s] = live[s]
    BY <1>3, LiveForgotten DEF OpenSaved
  <2>2. history' = NoHistory \/ history' \in LoadResults(final)
    BY <1>3 DEF OpenSaved
  <2>3. history' \in Indexes \cup {NoHistory}
    BY <2>2, LoadTyped DEF FileInv, Types
  <2>4. Types'
    BY <1>3, <2>1, <2>3 DEF OpenSaved, FileInv, Types
  <2>5. SourceInv'
    BY <1>3, <2>1, <2>2, LoadTyped DEF FileInv, Types, SourceInv
  <2> QED BY <1>3, <2>4, <2>5, NotWriting DEF OpenSaved
<1>4. CASE Back
  <2>1. /\ live' \in [1..Slots -> Records \cup {Free}] /\ Occupied' \subseteq Occupied
        /\ \A s \in Occupied' : live'[s] = live[s]
    <3>1. CASE screen = "config"
      BY <1>4, <3>1, LiveForgotten DEF Back
    <3>2. CASE screen # "config"
      BY <1>4, <3>2 DEF Back, FileInv, Types, Occupied
    <3> QED BY <3>1, <3>2
  <2>2. Types'
    BY <1>4, <2>1 DEF Back, FileInv, Types
  <2>3. SourceInv'
    BY <1>4, <2>1 DEF Back, FileInv, SourceInv
  <2> QED BY <1>4, <2>2, <2>3, NotWriting DEF Back
<1>5. ASSUME NEW r \in Records, Hear(r) PROVE FileInv'
  <2>1. PICK s \in 1..Slots :
           /\ live' = [live EXCEPT ![s] = r]
           /\ \A t \in Occupied : KeyOf(live[t]) = KeyOf(r) => t = s
    <3>1. CASE FindBySource(KeyOf(r)) = {}
      BY <1>5, <3>1 DEF Hear, FindBySource
    <3>2. CASE FindBySource(KeyOf(r)) # {}
      <4>1. PICK s \in FindBySource(KeyOf(r)) : live' = [live EXCEPT ![s] = r]
        BY <1>5, <3>2 DEF Hear
      <4>2. s \in 1..Slots /\ s \in Occupied /\ KeyOf(live[s]) = KeyOf(r)
        BY DEF FindBySource, Occupied
      <4> QED BY <4>1, <4>2 DEF FileInv, SourceInv
    <3> QED BY <3>1, <3>2
  <2>2. live' \in [1..Slots -> Records \cup {Free}] /\ live'[s] = r
        /\ \A t \in 1..Slots : t # s => live'[t] = live[t]
    BY <2>1 DEF FileInv, Types
  <2>3. Types'
    BY <1>5, <2>2 DEF Hear, FileInv, Types
  <2>4. Occupied' \subseteq Occupied \cup {s}
    BY <2>2 DEF Occupied
  <2>5. SourceInv'
    BY <1>5, <2>1, <2>2, <2>4 DEF Hear, FileInv, SourceInv, Occupied
  <2> QED BY <1>5, <2>3, <2>5, NotWriting DEF Hear
<1> QED BY <1>1, <1>2, <1>3, <1>4, <1>5 DEF Screens

(* Calling and returning keep FileInv.                                         *)
LEMMA CallsStep ==
    ASSUME FileInv, Calls \/ Crash \/ UNCHANGED vars
    PROVE  FileInv'
<1> USE DEF Quiet
<1>1. CASE MergeLive
  <2>1. Types'
    BY <1>1, LoadTyped DEF MergeLive, FileInv, Types, Writing
  <2>2. SourceInv' /\ history' # NoHistory
    BY <1>1, LoadTyped DEF MergeLive, FileInv, Types, SourceInv, Occupied
  <2> QED BY <1>1, <2>1, <2>2 DEF MergeLive, FileInv, CallInv, KeysInv, Writing
<1>2. CASE ClearHistory
  <2>1. history' = history \/ history' \in LoadResults(final)
    BY <1>2 DEF ClearHistory
  <2>2. history' \in Indexes \cup {NoHistory}
    BY <2>1, LoadTyped DEF FileInv, Types
  <2>3. UNCHANGED <<final, temp, live, screen, mode, cursor>> /\ screen # "config"
    BY <1>2 DEF ClearHistory
  <2>4. SourceInv'
    BY <2>1, <2>3, LoadTyped DEF FileInv, Types, SourceInv, Occupied
  <2>5. CASE pc' = "return" /\ result' = FALSE
    <3>1. Types'
      BY <2>2, <2>3, <2>5 DEF FileInv, Types
    <3> QED BY <2>3, <2>4, <2>5, <3>1, NotWriting
  <2>6. CASE pc' = "begin" /\ UNCHANGED result /\ history' # NoHistory
    <3>1. Types'
      BY <2>2, <2>3, <2>6 DEF FileInv, Types, Writing
    <3> QED BY <2>3, <2>4, <2>6, <3>1 DEF FileInv, CallInv, KeysInv, Writing
  <2> QED BY <1>2, <2>5, <2>6 DEF ClearHistory
<1>3. CASE MergeReturn
  <2>1. Types'
    BY <1>3 DEF MergeReturn, FileInv, Types
  <2>2. SourceInv'
    BY <1>3 DEF MergeReturn, FileInv, SourceInv, Occupied
  <2> QED BY <1>3, <2>1, <2>2, NotWriting DEF MergeReturn
<1>4. CASE ClearLiveReturn
  <2>1. /\ live' \in [1..Slots -> Records \cup {Free}] /\ Occupied' \subseteq Occupied
        /\ \A s \in Occupied' : live'[s] = live[s]
    BY <1>4, LiveForgotten DEF ClearLiveReturn
  <2>2. Types'
    BY <1>4, <2>1 DEF ClearLiveReturn, FileInv, Types
  <2>3. SourceInv'
    BY <1>4, <2>1 DEF ClearLiveReturn, FileInv, SourceInv
  <2> QED BY <1>4, <2>2, <2>3, NotWriting DEF ClearLiveReturn
<1>5. CASE ClearSavedReturn
  <2>1. history' = history \/ history' \in LoadResults(final)
    BY <1>5 DEF ClearSavedReturn
  <2>2. Types'
    BY <1>5, <2>1, LoadTyped DEF ClearSavedReturn, FileInv, Types
  <2>3. SourceInv'
    BY <1>5, <2>1, LoadTyped DEF ClearSavedReturn, FileInv, Types, SourceInv, Occupied
  <2> QED BY <1>5, <2>2, <2>3, NotWriting DEF ClearSavedReturn
<1>6. CASE Crash
  <2>1. live' \in [1..Slots -> Records \cup {Free}] /\ Occupied' = {}
    BY <1>6 DEF Crash, Released, Occupied
  <2>2. Types'
    <3>1. UNCHANGED <<final, temp>> /\ history' = NoHistory /\ screen' = "config" /\ mode' = All
          /\ pc' = "idle" /\ cursor' = 1 /\ result' = FALSE
      BY <1>6 DEF Crash, files
    <3>2. pc' \in {"idle", "return"} \cup Writing /\ result' \in BOOLEAN
      BY <3>1, Zenon
    <3>3. cursor' \in Nat \ {0}
      BY <3>1
    <3>4. mode' \in Filters /\ screen' \in {"config", "capture", "live", "saved"}
      BY <3>1 DEF Filters
    <3> QED BY <2>1, <3>1, <3>2, <3>3, <3>4 DEF FileInv, Types
  <2>3. SourceInv'
    BY <1>6, <2>1 DEF Crash, SourceInv
  <2> QED BY <1>6, <2>2, <2>3, NotWriting DEF Crash
<1>7. CASE UNCHANGED vars
  BY <1>7 DEF vars, FileInv, Types, SourceInv, CallInv, KeysInv, CopyKeys, LiveKeys, Occupied, KeyExists
<1> QED BY <1>1, <1>2, <1>3, <1>4, <1>5, <1>6, <1>7 DEF Calls

(* What appending a record does to a list, and when its keys stay distinct.    *)
LEMMA Appended ==
    ASSUME NEW recs \in Seq(Records), NEW r \in Records
    PROVE  /\ Append(recs, r) \in Seq(Records) /\ Len(Append(recs, r)) = Len(recs) + 1
           /\ Append(recs, r)[Len(recs) + 1] = r
           /\ \A i \in 1..Len(recs) : Append(recs, r)[i] = recs[i]
           /\ DistinctKeys(recs) /\ (\A i \in 1..Len(recs) : KeyOf(recs[i]) # KeyOf(r))
                 => DistinctKeys(Append(recs, r))
<1>1. /\ Append(recs, r) \in Seq(Records) /\ Len(Append(recs, r)) = Len(recs) + 1
      /\ Append(recs, r)[Len(recs) + 1] = r
      /\ \A i \in 1..Len(recs) : Append(recs, r)[i] = recs[i]
      /\ Len(recs) \in Nat
  BY AppendProperties, LenProperties
<1>2. ASSUME DistinctKeys(recs), \A i \in 1..Len(recs) : KeyOf(recs[i]) # KeyOf(r),
             NEW i \in 1..(Len(recs) + 1), NEW j \in 1..(Len(recs) + 1),
             KeyOf(Append(recs, r)[i]) = KeyOf(Append(recs, r)[j])
      PROVE  i = j
  <2>1. CASE i \in 1..Len(recs) /\ j \in 1..Len(recs)
    BY <1>1, <1>2, <2>1 DEF DistinctKeys
  <2>2. CASE i = Len(recs) + 1 /\ j \in 1..Len(recs)
    BY <1>1, <1>2, <2>2
  <2>3. CASE j = Len(recs) + 1 /\ i \in 1..Len(recs)
    BY <1>1, <1>2, <2>3
  <2> QED BY <1>1, <2>1, <2>2, <2>3
<1> QED BY <1>1, <1>2 DEF DistinctKeys

(* A record the writer copies is the live successor of the saved one or the    *)
(* saved one itself; its key is the index entry's either way.                  *)
LEMMA CopyWrites ==
    ASSUME FileInv, CopyRecord
    PROVE  \/ UNCHANGED temp
           \/ \E r \in Records : KeyOf(r) = history.keys[cursor] /\ WriterAdd(r)
<1>1. ASSUME NEW r \in RecordReads(cursor)
      PROVE  r \in Records /\ KeyOf(r) = history.keys[cursor]
  <2>1. final.recs \in Seq(Records)
    BY DEF FileInv, Types, Files
  <2> QED BY <2>1, ElementOfSeq DEF RecordReads
<1>2. ASSUME NEW s \in Successors(history.keys[cursor])
      PROVE  live[s] \in Records /\ KeyOf(live[s]) = history.keys[cursor]
  BY LiveTyped DEF Successors, FindBySource, FileInv
<1> QED BY <1>1, <1>2 DEF CopyRecord

(* Copying a saved record keeps FileInv: its key was not written yet.          *)
LEMMA CopyStep ==
    ASSUME FileInv, CopyRecord
    PROVE  FileInv'
<1>1. /\ UNCHANGED <<final, live, history, screen, mode, pc, result>> /\ pc = "copy"
      /\ cursor' = cursor + 1 /\ cursor <= Len(history.keys) /\ cursor \in Nat \ {0}
      /\ temp.recs \in Seq(Records) /\ Len(temp.recs) \in Nat
      /\ history \in Indexes /\ Len(history.keys) \in Nat
  BY LenProperties DEF CopyRecord, FileInv, Types, CallInv, Writing, Files, Indexes
<1>2. CopyKeys
  BY <1>1 DEF FileInv, KeysInv
<1>3. SourceInv'
  BY <1>1, SourceKept
<1>4. CASE UNCHANGED temp
  <2>1. Types'
    BY <1>1, <1>4 DEF FileInv, Types
  <2>2. CopyKeys'
    BY <1>1, <1>2, <1>4 DEF CopyKeys
  <2> QED BY <1>1, <1>3, <2>1, <2>2 DEF FileInv, CallInv, KeysInv
<1>5. ASSUME NEW r \in Records, KeyOf(r) = history.keys[cursor], WriterAdd(r) PROVE FileInv'
  <2>1. temp' = [state |-> "torn", recs |-> Append(temp.recs, r)]
    BY <1>5 DEF WriterAdd, Torn
  <2>2. \A i \in 1..Len(temp.recs) : KeyOf(temp.recs[i]) # KeyOf(r)
    <3> SUFFICES ASSUME NEW i \in 1..Len(temp.recs), KeyOf(temp.recs[i]) = KeyOf(r) PROVE FALSE
      OBVIOUS
    <3>1. PICK j \in 1..(cursor - 1) : KeyOf(temp.recs[i]) = history.keys[j]
      BY <1>2 DEF CopyKeys
    <3>2. j \in 1..Len(history.keys) /\ cursor \in 1..Len(history.keys) /\ j # cursor
      BY <1>1
    <3>3. history # NoHistory
      BY <1>1 DEF FileInv, CallInv, Writing
    <3> QED BY <1>5, <3>1, <3>2, <3>3 DEF FileInv, SourceInv
  <2>3. /\ temp'.recs = Append(temp.recs, r) /\ temp'.recs \in Seq(Records)
        /\ Len(temp'.recs) = Len(temp.recs) + 1 /\ DistinctKeys(temp'.recs)
        /\ temp'.recs[Len(temp.recs) + 1] = r
        /\ \A i \in 1..Len(temp.recs) : temp'.recs[i] = temp.recs[i]
    BY <1>1, <1>2, <2>1, <2>2, Appended DEF CopyKeys
  <2>4. Types'
    BY <1>1, <2>1, <2>3 DEF FileInv, Types, Files
  <2>5. \A i \in 1..Len(temp'.recs) : \E j \in 1..(cursor' - 1) : KeyOf(temp'.recs[i]) = history.keys[j]
    <3>0. cursor' - 1 = cursor
      BY <1>1
    <3> SUFFICES ASSUME NEW i \in 1..(Len(temp.recs) + 1)
                 PROVE  \E j \in 1..cursor : KeyOf(temp'.recs[i]) = history.keys[j]
      BY <2>3, <3>0
    <3>1. CASE i \in 1..Len(temp.recs)
      <4>1. PICK j \in 1..(cursor - 1) : KeyOf(temp.recs[i]) = history.keys[j]
        BY <1>2, <3>1 DEF CopyKeys
      <4> QED BY <1>1, <2>3, <3>1, <4>1
    <3>2. CASE i = Len(temp.recs) + 1
      BY <1>1, <1>5, <2>3, <3>2
    <3> QED BY <1>1, <3>1, <3>2
  <2>6. CopyKeys'
    <3>1. Len(temp'.recs) < cursor' /\ cursor' <= Len(history'.keys) + 1
      BY <1>1, <1>2, <2>3 DEF CopyKeys
    <3>2. DistinctKeys(temp.recs)'
      BY <2>3 DEF DistinctKeys
    <3>3. history' = history
      BY <1>1
    <3> QED BY <2>5, <3>1, <3>2, <3>3 DEF CopyKeys
  <2> QED BY <1>1, <1>3, <2>4, <2>6 DEF FileInv, CallInv, KeysInv
<1> QED BY <1>4, <1>5, CopyWrites

(* Adding a live observation keeps FileInv: its key is not in the index.       *)
LEMMA AddStep ==
    ASSUME FileInv, AddLive
    PROVE  FileInv'
<1>1. /\ UNCHANGED <<final, live, history, screen, mode, pc, result>> /\ pc = "live"
      /\ cursor' = cursor + 1 /\ cursor \in Nat \ {0} /\ Occupied' = Occupied
      /\ temp.recs \in Seq(Records) /\ Len(temp.recs) \in Nat
  BY LenProperties DEF AddLive, FileInv, Types, Files, Occupied
<1>2. LiveKeys
  BY <1>1 DEF FileInv, KeysInv
<1>3. SourceInv'
  BY <1>1, SourceKept
<1>4. \A s \in Occupied : s \in Nat
  BY DEF Occupied
<1>5. CASE ~Addable(cursor)
  <2>1. UNCHANGED temp
    BY <1>5 DEF AddLive
  <2>2. Types'
    BY <1>1, <2>1 DEF FileInv, Types
  <2>3. LiveKeys'
    BY <1>1, <1>2, <1>4, <2>1 DEF LiveKeys, KeyExists
  <2> QED BY <1>1, <1>3, <2>2, <2>3 DEF FileInv, CallInv, KeysInv
<1>6. CASE Addable(cursor)
  <2>1. temp' = [state |-> "torn", recs |-> Append(temp.recs, live[cursor])]
        /\ live[cursor] \in Records /\ cursor \in Occupied /\ Len(temp.recs) < MaxRecords
        /\ ~KeyExists(KeyOf(live[cursor]))
    BY <1>6, LiveTyped DEF AddLive, WriterAdd, Torn, Addable, FileInv
  <2>2. \A i \in 1..Len(temp.recs) : KeyOf(temp.recs[i]) # KeyOf(live[cursor])
    <3> SUFFICES ASSUME NEW i \in 1..Len(temp.recs), KeyOf(temp.recs[i]) = KeyOf(live[cursor])
                 PROVE  FALSE
      OBVIOUS
    <3>1. ~KeyExists(KeyOf(temp.recs[i]))
      BY <2>1
    <3>2. PICK s \in Occupied : s < cursor /\ KeyOf(temp.recs[i]) = KeyOf(live[s])
      BY <1>2, <3>1 DEF LiveKeys
    <3>3. s = cursor
      BY <2>1, <3>2 DEF FileInv, SourceInv
    <3> QED BY <1>1, <3>2, <3>3
  <2>3. /\ temp'.recs = Append(temp.recs, live[cursor]) /\ temp'.recs \in Seq(Records)
        /\ Len(temp'.recs) = Len(temp.recs) + 1 /\ DistinctKeys(temp'.recs)
        /\ temp'.recs[Len(temp.recs) + 1] = live[cursor]
        /\ \A i \in 1..Len(temp.recs) : temp'.recs[i] = temp.recs[i]
    BY <1>1, <1>2, <2>1, <2>2, Appended DEF LiveKeys
  <2>4. Types'
    BY <1>1, <2>1, <2>3 DEF FileInv, Types, Files
  <2>5. \A i \in 1..Len(temp'.recs) :
           \/ KeyExists(KeyOf(temp'.recs[i]))
           \/ \E s \in Occupied : s < cursor' /\ KeyOf(temp'.recs[i]) = KeyOf(live[s])
    <3> SUFFICES ASSUME NEW i \in 1..(Len(temp.recs) + 1)
                 PROVE  \/ KeyExists(KeyOf(temp'.recs[i]))
                        \/ \E s \in Occupied : s < cursor + 1 /\ KeyOf(temp'.recs[i]) = KeyOf(live[s])
      BY <1>1, <2>3
    <3>1. CASE i \in 1..Len(temp.recs)
      BY <1>1, <1>2, <1>4, <2>3, <3>1 DEF LiveKeys
    <3>2. CASE i = Len(temp.recs) + 1
      BY <1>1, <2>1, <2>3, <3>2
    <3> QED BY <1>1, <3>1, <3>2
  <2>6. LiveKeys'
    <3>1. Len(temp'.recs) <= MaxRecords
      BY <1>1, <2>1, <2>3, HistoryAssumption
    <3>2. DistinctKeys(temp.recs)'
      BY <2>3 DEF DistinctKeys
    <3>3. live' = live /\ \A k : KeyExists(k)' <=> KeyExists(k)
      BY <1>1 DEF KeyExists
    <3>4. Occupied' = Occupied
      BY <3>3 DEF Occupied
    <3> QED BY <2>5, <3>1, <3>2, <3>3, <3>4 DEF LiveKeys
  <2> QED BY <1>1, <1>3, <2>4, <2>6 DEF FileInv, CallInv, KeysInv
<1> QED BY <1>5, <1>6

(* Giving up keeps FileInv: the final name is not touched.                     *)
LEMMA AbortStep ==
    ASSUME FileInv, pc \in Writing, NEW leftovers, leftovers \subseteq Files, Abort(leftovers)
    PROVE  FileInv'
<1>1. Absent \in Files
  <2>1. <<>> \in Seq(Records)
    OBVIOUS
  <2> QED BY <2>1 DEF Absent, Files
<1>2. Types'
  BY <1>1 DEF Abort, FileInv, Types
<1>3. SourceInv'
  BY SourceKept DEF Abort
<1>4. screen' # "config"
  BY DEF Abort, FileInv, CallInv, Writing
<1> QED BY <1>2, <1>3, <1>4, NotWriting DEF Abort

(* A temporary file that was just opened is a file without records.            *)
LEMMA TornEmpty == Torn(<<>>) \in Files /\ Torn(<<>>).recs = <<>>
<1>1. \A e \in Seq(Records) : Torn(e) \in Files /\ Torn(e).recs = e
  BY DEF Torn, Files
<1>2. <<>> \in Seq(Records)
  OBVIOUS
<1> QED BY <1>1, <1>2

(* A step of the writer keeps FileInv.                                         *)
LEMMA WriterStep ==
    ASSUME FileInv, Writer
    PROVE  FileInv'
<1>1. CASE WriterBegin
  <2>1. CASE Abort({temp, Torn(<<>>)})
    <3>1. {temp, Torn(<<>>)} \subseteq Files /\ pc \in Writing
      BY <1>1, TornEmpty DEF WriterBegin, Writing, FileInv, Types
    <3> QED BY <2>1, <3>1, AbortStep
  <2>2. CASE ~Abort({temp, Torn(<<>>)})
    <3>1. /\ temp' = Torn(<<>>) /\ cursor' = 1 /\ pc' = "copy" /\ pc = "begin"
          /\ UNCHANGED <<final, live, history, screen, mode, result>>
      BY <1>1, <2>2 DEF WriterBegin
    <3>2. Types' /\ SourceInv'
      BY <3>1, TornEmpty, SourceKept DEF FileInv, Types, Writing
    <3>3. history \in Indexes /\ Len(history.keys) \in Nat
      BY <3>1, LenProperties DEF FileInv, Types, CallInv, Writing, Indexes
    <3>4. CopyKeys'
      BY <3>1, <3>3, TornEmpty DEF CopyKeys, DistinctKeys
    <3> QED BY <3>1, <3>2, <3>4 DEF FileInv, CallInv, KeysInv, Writing
  <2> QED BY <2>1, <2>2
<1>2. CASE CopyRecord
  BY <1>2, CopyStep
<1>3. CASE CopyDone
  <2>1. /\ pc = "copy" /\ cursor' = 1 /\ cursor > Len(history.keys)
        /\ UNCHANGED <<final, temp, live, history, screen, mode, result>> /\ CopyKeys
        /\ pc' = IF screen = "capture" THEN "live" ELSE "finish"
    BY <1>3 DEF CopyDone, FileInv, KeysInv
  <2>2. Types' /\ SourceInv'
    BY <2>1, SourceKept DEF FileInv, Types, Writing
  <2>3. /\ history \in Indexes /\ Len(history.keys) \in Nat /\ Len(history.keys) <= MaxRecords
        /\ Len(temp.recs) \in Nat /\ cursor \in Nat
    BY <2>1, LenProperties DEF FileInv, Types, CallInv, SourceInv, Writing, Indexes, Files
  <2>4. Len(temp.recs) <= MaxRecords /\ DistinctKeys(temp.recs)
        /\ \A i \in 1..Len(temp.recs) : KeyExists(KeyOf(temp.recs[i]))
    <3>1. \A j \in 1..(cursor - 1) : j \in 1..Len(history.keys)
      BY <2>1, <2>3 DEF CopyKeys
    <3> QED BY <2>1, <2>3, <3>1, HistoryAssumption DEF CopyKeys, KeyExists
  <2>5. LiveKeys'
    BY <2>1, <2>4 DEF LiveKeys, KeyExists, DistinctKeys
  <2> QED BY <2>1, <2>2, <2>4, <2>5 DEF FileInv, CallInv, KeysInv, Writing, DistinctKeys
<1>4. CASE AddLive
  BY <1>4, AddStep
<1>5. CASE LiveDone
  <2>1. /\ pc = "live" /\ pc' = "finish" /\ LiveKeys
        /\ UNCHANGED <<final, temp, live, history, screen, mode, cursor, result>>
    BY <1>5 DEF LiveDone, FileInv, KeysInv
  <2>2. Types' /\ SourceInv'
    BY <2>1, SourceKept DEF FileInv, Types, Writing
  <2> QED BY <2>1, <2>2 DEF FileInv, CallInv, KeysInv, Writing, LiveKeys, DistinctKeys
<1>6. CASE WriterFinish
  <2>1. /\ pc = "finish" /\ pc' = "rename" /\ temp' = [state |-> "whole", recs |-> temp.recs]
        /\ UNCHANGED <<final, live, history, screen, mode, cursor, result>>
    BY <1>6 DEF WriterFinish, Whole
  <2>2. Types' /\ SourceInv'
    BY <2>1, SourceKept DEF FileInv, Types, Writing, Files
  <2> QED BY <2>1, <2>2 DEF FileInv, CallInv, KeysInv, Writing, DistinctKeys
<1>7. CASE Rename
  <2>1. Absent \in Files
    <3>1. <<>> \in Seq(Records)
      OBVIOUS
    <3> QED BY <3>1 DEF Absent, Files
  <2>2. Types' /\ SourceInv'
    BY <1>7, <2>1, SourceKept DEF Rename, FileInv, Types
  <2> QED BY <1>7, <2>2, NotWriting DEF Rename, FileInv, CallInv, Writing
<1>8. CASE IoFault
  <2>1. {temp} \subseteq Files /\ pc \in Writing
    BY <1>8 DEF IoFault, FileInv, Types, Writing
  <2> QED BY <1>8, <2>1, AbortStep DEF IoFault
<1> QED BY <1>1, <1>2, <1>3, <1>4, <1>5, <1>6, <1>7, <1>8 DEF Writer

(* No step breaks FileInv.                                                     *)
LEMMA FileStep == FileInv /\ [Next]_vars => FileInv'
BY ScreensStep, CallsStep, WriterStep DEF Next

(* A saved file that history_load accepts is only ever replaced by another one *)
(* it accepts, also when reads of the card fail (passive_history.c:649-670,    *)
(* 731).                                                                       *)
THEOREM ReplacedByReadable == Spec => FinalStaysReadable
<1>1. FileInv /\ [Next]_vars => [Readable(final) => Readable(final')]_vars
  <2> SUFFICES ASSUME FileInv, Next, Readable(final) PROVE Readable(final')
    BY DEF vars
  <2>1. CASE Rename
    <3>1. final' = temp /\ temp.state = "whole" /\ Len(temp.recs) <= MaxRecords
          /\ DistinctKeys(temp.recs)
      BY <2>1 DEF Rename, FileInv, KeysInv
    <3> QED BY <3>1 DEF Readable, DistinctKeys
  <2>2. CASE ~Rename
    <3>1. UNCHANGED final
      BY <2>2 DEF Next, Screens, ChooseMode, StartCapture, OpenSaved, Back, Hear,
             Calls, MergeLive, ClearHistory, MergeReturn, ClearLiveReturn, ClearSavedReturn,
             Writer, WriterBegin, CopyRecord, CopyDone, AddLive, LiveDone, WriterFinish,
             IoFault, Abort, Crash, files
    <3> QED BY <3>1
  <2> QED BY <2>1, <2>2
<1> QED BY <1>1, FileInit, FileStep, PTL DEF Spec, FinalStaysReadable

-----------------------------------------------------------------------------
(* What a writer has written, if good files can be read.                      *)

(* The record that follows the saved record i in the new file.                 *)
NextOf(i) ==
    IF Successors(history.keys[i]) = {} THEN {final.recs[i]}
    ELSE {live[s] : s \in Successors(history.keys[i])}

IsNew(s) ==
    s \in Occupied /\ FilterMatches(mode, live[s].protocol) /\ ~KeyExists(KeyOf(live[s]))

(* A merge has written what follows each saved record, and then new ones from  *)
(* the slots up to c: all of them or as many as there is room for.             *)
Merged(c) ==
    /\ Len(history.keys) <= Len(temp.recs)
    /\ \A i \in 1..Len(history.keys) : temp.recs[i] \in NextOf(i)
    /\ \A i \in (Len(history.keys) + 1)..Len(temp.recs) :
          \E s \in Occupied : IsNew(s) /\ temp.recs[i] = live[s]
    /\ \A s \in 1..(c - 1) : IsNew(s) =>
          \/ Len(temp.recs) = MaxRecords
          \/ \E i \in (Len(history.keys) + 1)..Len(temp.recs) : temp.recs[i] = live[s]

Kept(c) == {k \in 1..(c - 1) : ~FilterMatches(mode, final.recs[k].protocol)}

(* A clear has written the saved records up to c that it is not asked to clear.*)
Cleared(c) == {temp.recs[i] : i \in 1..Len(temp.recs)} = {final.recs[k] : k \in Kept(c)}

IndexInv ==
    /\ pc \in Writing => history = HistoryLoad(final)
    /\ screen = "saved" /\ (pc = "idle" \/ (pc = "return" /\ result = FALSE)) =>
          history \in {HistoryLoad(final), NoHistory}

ContentInv ==
    /\ pc = "copy" /\ screen = "capture" =>
          /\ Len(temp.recs) = cursor - 1
          /\ \A i \in 1..(cursor - 1) : temp.recs[i] \in NextOf(i)
    /\ pc = "live" => Merged(cursor)
    /\ pc \in {"finish", "rename"} /\ screen = "capture" => Merged(Slots + 1)
    /\ pc = "copy" /\ screen # "capture" => Cleared(cursor)
    /\ pc \in {"finish", "rename"} /\ screen # "capture" => Cleared(Len(history.keys) + 1)

(* At the start no index is open and nothing is being written.                 *)
LEMMA IndexInit == Init => IndexInv /\ ContentInv
BY DEF Init, IndexInv, ContentInv, Writing

(* An index that was loaded from the file lists the keys of the saved set.     *)
LEMMA IndexIs ==
    ASSUME FileInv, history = HistoryLoad(final), history # NoHistory
    PROVE  /\ Len(history.keys) \in Nat /\ Len(history.keys) <= Len(final.recs)
           /\ \A i \in 1..Len(history.keys) :
                 final.recs[i] \in Records /\ history.keys[i] = KeyOf(final.recs[i])
           /\ SavedSet = {final.recs[i] : i \in 1..Len(history.keys)}
<1>1. final.recs \in Seq(Records) /\ Len(final.recs) \in Nat
      /\ \A i \in 1..Len(final.recs) : final.recs[i] \in Records
  BY LenProperties, ElementOfSeq DEF FileInv, Types, Files
<1>2. CASE Readable(final)
  <2>1. history.keys = [i \in 1..Len(final.recs) |-> KeyOf(final.recs[i])]
    BY <1>2 DEF HistoryLoad, Index, Readable
  <2>2. Len(history.keys) = Len(final.recs)
    BY <1>1, <2>1
  <2> QED BY <1>1, <1>2, <2>1, <2>2 DEF SavedSet
<1>3. CASE ~Readable(final)
  <2>1. history.keys = <<>>
    BY <1>3 DEF HistoryLoad, Index
  <2> QED BY <1>1, <1>3, <2>1 DEF SavedSet
<1> QED BY <1>2, <1>3

(* No step leaves an index behind the file, when a load does not fail.         *)
LEMMA IndexStep ==
    ASSUME ~LoadFaults, FileInv, IndexInv, [Next]_vars
    PROVE  IndexInv'
<1>1. LoadResults(final) = {HistoryLoad(final)}
  BY DEF LoadResults
<1> USE DEF IndexInv, Quiet, Writing
<1>2. CASE Screens
  BY <1>1, <1>2 DEF Screens, ChooseMode, StartCapture, OpenSaved, Back, Hear
<1>3. CASE MergeLive \/ MergeReturn \/ ClearLiveReturn \/ ClearSavedReturn
  BY <1>1, <1>3 DEF MergeLive, MergeReturn, ClearLiveReturn, ClearSavedReturn, FileInv, Types
<1>4. CASE ClearHistory
  <2>1. /\ history' = HistoryLoad(final) \/ (screen = "saved" /\ history' = history)
        /\ UNCHANGED <<final, screen>> /\ pc = "idle"
        /\ pc' = "return" \/ (pc' = "begin" /\ history' # NoHistory)
    BY <1>1, <1>4 DEF ClearHistory
  <2> QED BY <2>1
<1>5. CASE WriterBegin \/ IoFault
  BY <1>5 DEF WriterBegin, IoFault, Abort
<1>6. CASE CopyRecord \/ CopyDone \/ AddLive \/ LiveDone \/ WriterFinish
  BY <1>6 DEF CopyRecord, CopyDone, AddLive, LiveDone, WriterFinish
<1>7. CASE Rename
  BY <1>7 DEF Rename
<1>8. CASE Crash
  BY <1>8 DEF Crash
<1>9. CASE UNCHANGED vars
  BY <1>9 DEF vars
<1> QED BY <1>2, <1>3, <1>4, <1>5, <1>6, <1>7, <1>8, <1>9 DEF Next, Calls, Writer

(* The index behind the saved list is that of the file on the card             *)
(* (passive_history.c:581-603, 795).                                           *)
THEOREM IndexIsCurrent == ASSUME ~LoadFaults PROVE Spec => []SavedIndexCurrent
<1>1. Init => FileInv /\ IndexInv
  BY FileInit, IndexInit
<1>2. FileInv /\ IndexInv /\ [Next]_vars => FileInv' /\ IndexInv'
  BY FileStep, IndexStep
<1>3. IndexInv => SavedIndexCurrent
  BY DEF IndexInv, SavedIndexCurrent, Quiet
<1> QED BY <1>1, <1>2, <1>3, PTL DEF Spec

(* A step that leaves what the writer reads and has written alone.             *)
LEMMA ContentKept ==
    ASSUME UNCHANGED <<final, live, history, mode, screen>>, temp'.recs = temp.recs
    PROVE  /\ \A i : NextOf(i)' = NextOf(i)
           /\ \A c : Merged(c) => Merged(c)'
           /\ \A c : Cleared(c) => Cleared(c)'
           /\ UNCHANGED <<Occupied, Len(history.keys), Len(temp.recs)>>
<1>1. UNCHANGED <<Occupied, Len(history.keys), Len(temp.recs)>>
  BY DEF Occupied
<1>2. \A i : NextOf(i)' = NextOf(i)
  BY DEF NextOf, Successors, FindBySource, Occupied
<1>3. \A s : IsNew(s)' <=> IsNew(s)
  BY DEF IsNew, Occupied, KeyExists
<1>4. \A c : Merged(c) => Merged(c)'
  BY <1>1, <1>2, <1>3 DEF Merged
<1>5. \A c : Cleared(c) => Cleared(c)'
  BY <1>1 DEF Cleared, Kept
<1> QED BY <1>1, <1>2, <1>4, <1>5

(* Copying a record keeps what the new file is known to hold.                  *)
LEMMA CopyContent ==
    ASSUME FileInv, IndexInv, ContentInv, CopyRecord
    PROVE  ContentInv'
<1> DEFINE recs == temp.recs
           n == Len(recs)
<1>1. /\ UNCHANGED <<final, live, history, screen, mode, pc, result>> /\ pc = "copy"
      /\ cursor' = cursor + 1 /\ cursor \in 1..Len(history.keys) /\ recs \in Seq(Records)
      /\ n \in Nat /\ cursor \in Nat \ {0} /\ history # NoHistory /\ history = HistoryLoad(final)
      /\ Occupied' = Occupied
  <2>1. history \in Indexes /\ history # NoHistory /\ pc = "copy" /\ history = HistoryLoad(final)
    BY DEF CopyRecord, FileInv, Types, CallInv, IndexInv, Writing
  <2>2. Len(history.keys) \in Nat
    BY <2>1, LenProperties DEF Indexes
  <2> QED BY <2>1, <2>2, LenProperties DEF CopyRecord, FileInv, Types, Files, Occupied
<1>2. /\ cursor <= Len(final.recs) /\ final.recs[cursor] \in Records
      /\ history.keys[cursor] = KeyOf(final.recs[cursor])
  BY <1>1, IndexIs
<1>3. RecordReads(cursor) \subseteq {final.recs[cursor]}
  BY DEF RecordReads
<1>4. \A r \in Records : WriterAdd(r) =>
         /\ Len(temp'.recs) = n + 1 /\ temp'.recs[n + 1] = r
         /\ \A i \in 1..n : temp'.recs[i] = recs[i]
  BY <1>1, Appended DEF WriterAdd, Torn
<1>5. \A i : NextOf(i)' = NextOf(i)
  BY <1>1 DEF NextOf, Successors, FindBySource
<1>6. CASE screen = "capture"
  <2>1. PICK r \in NextOf(cursor) : r \in Records /\ WriterAdd(r)
    <3>1. CASE Successors(history.keys[cursor]) = {}
      BY <1>2, <1>3, <1>6, <3>1 DEF CopyRecord, NextOf
    <3>2. CASE Successors(history.keys[cursor]) # {}
      BY <1>6, <3>2, LiveTyped DEF CopyRecord, NextOf, Successors, FindBySource, FileInv
    <3> QED BY <3>1, <3>2
  <2>2. n = cursor - 1 /\ \A i \in 1..(cursor - 1) : recs[i] \in NextOf(i)
    BY <1>1, <1>6 DEF ContentInv
  <2>3. Len(temp'.recs) = cursor' - 1 /\ \A i \in 1..(cursor' - 1) : temp'.recs[i] \in NextOf(i)
    <3>1. n + 1 = cursor /\ cursor' - 1 = cursor
      BY <1>1, <2>2
    <3>2. \A i \in 1..cursor : i = cursor \/ i \in 1..(cursor - 1)
      BY <1>1
    <3> QED BY <1>4, <2>1, <2>2, <3>1, <3>2
  <2> QED BY <1>1, <1>5, <1>6, <2>3 DEF ContentInv
<1>7. CASE screen # "capture"
  <2>1. {recs[i] : i \in 1..n} = {final.recs[k] : k \in Kept(cursor)}
    BY <1>1, <1>7 DEF ContentInv, Cleared
  <2>2. history.keys[cursor][2] = final.recs[cursor].protocol
    BY <1>2 DEF KeyOf
  <2>3. \A k : k \in Kept(cursor + 1) <=>
           k \in Kept(cursor) \/ (k = cursor /\ ~FilterMatches(mode, final.recs[cursor].protocol))
    BY <1>1 DEF Kept
  <2>4. Kept(cursor)' = Kept(cursor + 1)
    BY <1>1 DEF Kept
  <2>5. CASE FilterMatches(mode, final.recs[cursor].protocol)
    <3>1. UNCHANGED temp
      BY <1>7, <2>2, <2>5 DEF CopyRecord
    <3>2. Kept(cursor + 1) = Kept(cursor)
      BY <2>3, <2>5
    <3>3. {temp'.recs[i] : i \in 1..Len(temp'.recs)} = {final.recs[k] : k \in Kept(cursor + 1)}
      BY <2>1, <3>1, <3>2
    <3>4. Cleared(cursor)'
      BY <1>1, <2>4, <3>3 DEF Cleared
    <3> QED BY <1>1, <1>7, <3>4 DEF ContentInv
  <2>6. CASE ~FilterMatches(mode, final.recs[cursor].protocol)
    <3>1. WriterAdd(final.recs[cursor])
      BY <1>3, <1>7, <2>2, <2>6 DEF CopyRecord
    <3>2. /\ Len(temp'.recs) = n + 1 /\ temp'.recs[n + 1] = final.recs[cursor]
          /\ \A i \in 1..n : temp'.recs[i] = recs[i]
      BY <1>2, <1>4, <3>1
    <3>3. {temp'.recs[i] : i \in 1..(n + 1)} = {recs[i] : i \in 1..n} \cup {final.recs[cursor]}
      <4>1. \A i \in 1..(n + 1) : i = n + 1 \/ i \in 1..n
        BY <1>1
      <4>2. n + 1 \in 1..(n + 1) /\ \A i \in 1..n : i \in 1..(n + 1)
        BY <1>1
      <4> QED BY <3>2, <4>1, <4>2
    <3>4. {final.recs[k] : k \in Kept(cursor + 1)} =
              {final.recs[k] : k \in Kept(cursor)} \cup {final.recs[cursor]}
      BY <2>3, <2>6
    <3>5. {temp'.recs[i] : i \in 1..Len(temp'.recs)} = {final.recs[k] : k \in Kept(cursor + 1)}
      BY <2>1, <3>2, <3>3, <3>4
    <3>6. Cleared(cursor)'
      BY <1>1, <2>4, <3>5 DEF Cleared
    <3> QED BY <1>1, <1>7, <3>6 DEF ContentInv
  <2> QED BY <2>5, <2>6
<1> QED BY <1>6, <1>7

(* After the copies a merge has the successor of every saved record.           *)
LEMMA CopyDoneContent ==
    ASSUME FileInv, IndexInv, ContentInv, CopyDone
    PROVE  ContentInv'
<1>1. /\ UNCHANGED <<final, temp, live, history, screen, mode, result>> /\ pc = "copy"
      /\ cursor' = 1 /\ cursor > Len(history.keys) /\ cursor \in Nat \ {0}
      /\ pc' = IF screen = "capture" THEN "live" ELSE "finish"
      /\ temp.recs \in Seq(Records) /\ Len(temp.recs) \in Nat
  BY LenProperties DEF CopyDone, FileInv, Types, Files
<1>2. Len(history.keys) \in Nat /\ cursor = Len(history.keys) + 1
  <2>1. history # NoHistory /\ history = HistoryLoad(final)
    BY <1>1 DEF FileInv, CallInv, IndexInv, Writing
  <2>2. cursor <= Len(history.keys) + 1
    BY <1>1 DEF FileInv, KeysInv, CopyKeys
  <2> QED BY <1>1, <2>1, <2>2, IndexIs
<1>3. CASE screen = "capture"
  <2>1. Len(temp.recs) = Len(history.keys) /\ \A i \in 1..Len(history.keys) : temp.recs[i] \in NextOf(i)
    BY <1>1, <1>2, <1>3 DEF ContentInv
  <2>2. (\A i \in (Len(history.keys) + 1)..Len(temp.recs) : FALSE) /\ (\A s \in 1..(1 - 1) : FALSE)
    BY <1>2, <2>1
  <2>3. Merged(1)
    BY <1>2, <2>1, <2>2 DEF Merged
  <2>4. Merged(1)'
    BY <1>1, <2>3, ContentKept
  <2> QED BY <1>1, <1>3, <2>4 DEF ContentInv
<1>4. CASE screen # "capture"
  <2>1. Cleared(cursor)
    BY <1>1, <1>4 DEF ContentInv
  <2>2. Cleared(Len(history.keys) + 1)'
    BY <1>1, <1>2, <2>1, ContentKept
  <2> QED BY <1>1, <1>4, <2>2 DEF ContentInv
<1> QED BY <1>3, <1>4

(* Adding an observation keeps what the new file is known to hold.             *)
LEMMA AddContent ==
    ASSUME FileInv, IndexInv, ContentInv, AddLive
    PROVE  ContentInv'
<1> DEFINE recs == temp.recs
           n == Len(recs)
           m == Len(history.keys)
<1>1. /\ UNCHANGED <<final, live, history, screen, mode, pc, result>> /\ pc = "live"
      /\ cursor' = cursor + 1 /\ recs \in Seq(Records) /\ n \in Nat /\ cursor \in Nat \ {0}
      /\ screen = "capture"
  BY LenProperties DEF AddLive, FileInv, Types, Files, CallInv
<1>2. m \in Nat
  <2>1. history # NoHistory /\ history = HistoryLoad(final)
    BY <1>1 DEF FileInv, CallInv, IndexInv, Writing
  <2> QED BY <2>1, IndexIs
<1>3. Merged(cursor) /\ n <= MaxRecords
  BY <1>1 DEF ContentInv, FileInv, KeysInv, LiveKeys
<1>4. (\A i : NextOf(i)' = NextOf(i)) /\ (\A s : IsNew(s)' <=> IsNew(s)) /\ Occupied' = Occupied
  BY <1>1 DEF NextOf, Successors, FindBySource, Occupied, IsNew, KeyExists
<1>5. \A s \in 1..cursor : s = cursor \/ s \in 1..(cursor - 1)
  BY <1>1
<1>6. CASE ~Addable(cursor)
  <2>1. UNCHANGED temp
    BY <1>6 DEF AddLive
  <2>2. IsNew(cursor) => n = MaxRecords
    BY <1>1, <1>3, <1>6, HistoryAssumption DEF Addable, IsNew
  <2>3. Merged(cursor + 1)
    <3>1. (cursor + 1) - 1 = cursor
      BY <1>1
    <3> QED BY <1>3, <1>5, <2>2, <3>1 DEF Merged
  <2>4. PICK d : d = cursor + 1
    OBVIOUS
  <2>5. Merged(d)'
    BY <1>1, <2>1, <2>3, <2>4, ContentKept
  <2>6. Merged(cursor)'
    BY <1>1, <2>4, <2>5 DEF Merged
  <2> QED BY <1>1, <2>6 DEF ContentInv
<1>7. CASE Addable(cursor)
  <2>1. live[cursor] \in Records /\ IsNew(cursor) /\ n < MaxRecords /\ cursor \in Occupied
    BY <1>7, LiveTyped DEF Addable, IsNew, FileInv
  <2>2. /\ Len(temp'.recs) = n + 1 /\ temp'.recs[n + 1] = live[cursor]
        /\ \A i \in 1..n : temp'.recs[i] = recs[i]
    BY <1>1, <1>7, <2>1, Appended DEF AddLive, WriterAdd, Torn
  <2>3. m <= n + 1 /\ \A i \in 1..m : i \in 1..n /\ temp'.recs[i] \in NextOf(i)
    <3>1. m <= n /\ \A i \in 1..m : recs[i] \in NextOf(i)
      BY <1>3 DEF Merged
    <3>2. \A i \in 1..m : i \in 1..n
      BY <1>1, <1>2, <3>1
    <3>3. m <= n + 1
      BY <1>1, <1>2, <3>1
    <3> QED BY <2>2, <3>1, <3>2, <3>3
  <2>4. \A i \in (m + 1)..(n + 1) : \E s \in Occupied : IsNew(s) /\ temp'.recs[i] = live[s]
    <3> SUFFICES ASSUME NEW i \in (m + 1)..(n + 1)
                 PROVE  \E s \in Occupied : IsNew(s) /\ temp'.recs[i] = live[s]
      OBVIOUS
    <3>1. CASE i = n + 1
      BY <2>1, <2>2, <3>1
    <3>2. CASE i # n + 1
      <4>1. i \in (m + 1)..n /\ i \in 1..n
        BY <1>1, <1>2, <3>2
      <4>2. \E s \in Occupied : IsNew(s) /\ recs[i] = live[s]
        BY <1>3, <4>1 DEF Merged
      <4> QED BY <2>2, <4>1, <4>2
    <3> QED BY <3>1, <3>2
  <2>5. \A s \in 1..cursor : IsNew(s) =>
           \/ n + 1 = MaxRecords
           \/ \E i \in (m + 1)..(n + 1) : temp'.recs[i] = live[s]
    <3> SUFFICES ASSUME NEW s \in 1..cursor, IsNew(s)
                 PROVE  \E i \in (m + 1)..(n + 1) : temp'.recs[i] = live[s]
      OBVIOUS
    <3>1. n + 1 \in (m + 1)..(n + 1)
      BY <1>1, <1>2, <1>3 DEF Merged
    <3>2. CASE s = cursor
      BY <2>2, <3>1, <3>2
    <3>3. CASE s \in 1..(cursor - 1)
      <4>1. n # MaxRecords
        BY <1>1, <2>1, HistoryAssumption
      <4>2. PICK i \in (m + 1)..n : recs[i] = live[s]
        BY <1>3, <3>3, <4>1 DEF Merged
      <4>3. i \in 1..n /\ i \in (m + 1)..(n + 1)
        BY <1>1, <1>2
      <4> QED BY <2>2, <4>2, <4>3
    <3> QED BY <1>5, <3>2, <3>3
  <2>6. cursor' - 1 = cursor
    BY <1>1
  <2>7. Merged(cursor)'
    BY <1>1, <1>4, <2>2, <2>3, <2>4, <2>5, <2>6 DEF Merged
  <2> QED BY <1>1, <2>7 DEF ContentInv
<1> QED BY <1>6, <1>7

(* No step breaks ContentInv.                                                  *)
LEMMA ContentStep ==
    ASSUME FileInv, IndexInv, ContentInv, [Next]_vars
    PROVE  ContentInv'
<1>1. CASE CopyRecord \/ CopyDone \/ AddLive
  BY <1>1, CopyContent, CopyDoneContent, AddContent
<1>2. CASE LiveDone
  <2>1. /\ UNCHANGED <<final, temp, live, history, screen, mode>> /\ pc' = "finish"
        /\ screen = "capture" /\ Merged(cursor) /\ cursor > Slots /\ cursor \in Nat
    BY <1>2 DEF LiveDone, FileInv, CallInv, Types, ContentInv
  <2>2. Merged(Slots + 1)
    <3>1. \A s \in 1..((Slots + 1) - 1) : s \in 1..(cursor - 1)
      BY <2>1, HistoryAssumption
    <3> QED BY <2>1, <3>1 DEF Merged
  <2>3. Merged(Slots + 1)'
    BY <2>1, <2>2, ContentKept
  <2> QED BY <2>1, <2>3 DEF ContentInv
<1>3. CASE WriterFinish
  <2>1. /\ UNCHANGED <<final, live, history, screen, mode>> /\ temp'.recs = temp.recs
        /\ pc = "finish" /\ pc' = "rename"
    BY <1>3 DEF WriterFinish, Whole
  <2> QED BY <2>1, ContentKept DEF ContentInv
<1>4. CASE WriterBegin /\ pc' = "copy"
  <2>1. /\ UNCHANGED <<final, live, history, screen, mode>> /\ temp' = Torn(<<>>)
        /\ cursor' = 1 /\ pc' = "copy"
    BY <1>4 DEF WriterBegin, Abort
  <2>2. Len(temp'.recs) = 0
    BY <2>1, TornEmpty
  <2>3. Cleared(cursor)'
    <3>1. {temp'.recs[i] : i \in 1..Len(temp'.recs)} = {}
      BY <2>2
    <3>2. Kept(cursor)' = {}
      BY <2>1 DEF Kept
    <3> QED BY <3>1, <3>2 DEF Cleared
  <2> QED BY <2>1, <2>2, <2>3 DEF ContentInv
<1>5. CASE pc' \in {"idle", "return", "begin"}
  BY <1>5 DEF ContentInv
<1>6. CASE UNCHANGED vars
  BY <1>6, ContentKept DEF vars, ContentInv
<1>7. CASE ~(CopyRecord \/ CopyDone \/ AddLive \/ LiveDone \/ WriterFinish)
  <2>1. \/ UNCHANGED vars \/ pc' \in {"idle", "return", "begin"} \/ (WriterBegin /\ pc' = "copy")
    BY <1>7 DEF Next, Screens, ChooseMode, StartCapture, OpenSaved, Back, Hear, Quiet,
             Calls, MergeLive, ClearHistory, MergeReturn, ClearLiveReturn, ClearSavedReturn,
             Writer, WriterBegin, Rename, IoFault, Abort, Crash
  <2> QED BY <1>4, <1>5, <1>6, <2>1
<1> QED BY <1>1, <1>2, <1>3, <1>7

-----------------------------------------------------------------------------
(* The store.                                                                 *)

Part(recs, a, b) == {recs[i] : i \in a..b}

(* A stretch of a list with distinct keys has as many records as positions.    *)
LEMMA Counted ==
    ASSUME NEW recs \in Seq(Records), DistinctKeys(recs), NEW a \in Nat \ {0}, NEW b \in Nat,
           b <= Len(recs), a <= b + 1
    PROVE  Cardinality(Part(recs, a, b)) = b - a + 1
<1> USE DEF Part
<1> DEFINE T == {recs[i] : i \in a..b}
           f == [i \in a..b |-> recs[i]]
<1>1. Len(recs) \in Nat /\ a..b \subseteq 1..Len(recs)
  BY LenProperties
<1>2. \A i, j \in a..b : recs[i] = recs[j] => i = j
  BY <1>1 DEF DistinctKeys
<1>3. f \in Bijection(a..b, T)
  <2>1. f \in [a..b -> T]
    OBVIOUS
  <2>2. \A i, j \in a..b : f[i] = f[j] => i = j
    BY <1>2
  <2>3. \A t \in T : \E i \in a..b : f[i] = t
    OBVIOUS
  <2> QED BY <2>1, <2>2, <2>3, Fun_IsBij
<1>4. IsFiniteSet(a..b) /\ Cardinality(a..b) = b - a + 1
  <2>1. IsFiniteSet(a..b) /\ Cardinality(a..b) = IF a > b THEN 0 ELSE b - a + 1
    BY FS_Interval
  <2> QED BY <2>1
<1>5. ExistsBijection(a..b, T)
  BY <1>3 DEF ExistsBijection
<1> QED BY <1>4, <1>5, FS_Bijection

(* The store counts as this module does.                                      *)
LEMMA SameCount == ASSUME NEW S PROVE Store!Cardinality(S) = Cardinality(S)
BY DEF Store!Cardinality, Cardinality

(* Before anything was saved the store is empty.                              *)
LEMMA StoreInit == Init => Store!Init
<1> SUFFICES ASSUME Init PROVE Store!Init
  OBVIOUS
<1>1. SavedSet = {}
  <2>1. final.recs = <<>>
    BY DEF Init, Absent, Corrupt, Whole
  <2> QED BY <2>1 DEF SavedSet
<1>2. HeardSet = {}
  BY DEF Init, HeardSet, Occupied, Released
<1>3. Store!Keys({}) = {} /\ Cardinality({}) = 0
  BY FS_EmptySet DEF Store!Keys
<1>4. {} \in SUBSET Store!Records /\ 0 <= MaxRecords
  BY HistoryAssumption
<1>5. SavedSet \in {S \in SUBSET Store!Records :
                       /\ Store!Cardinality(S) <= MaxRecords
                       /\ Store!Cardinality(Store!Keys(S)) = Store!Cardinality(S)}
  BY <1>1, <1>3, <1>4, SameCount
<1>6. result = FALSE
  BY DEF Init
<1> QED BY <1>2, <1>5, <1>6, Zenon DEF Store!Init

(* What the live observations are to the store.                                *)
LEMMA HeardTyped == FileInv => HeardSet \subseteq Store!Records
BY LiveTyped DEF FileInv, HeardSet, Store!Records, Records

(* The rename at the end of a merge merges.                                    *)
LEMMA MergeCommits ==
    ASSUME FileInv, IndexInv, ContentInv, Rename, screen = "capture"
    PROVE  Store!Merge(mode)
<1> DEFINE n == Len(history.keys)
           recs == temp.recs
           l == Len(recs)
           fresh == Store!Selected(HeardSet, mode)
           kept == {r \in SavedSet : Store!KeyOf(r) \notin Store!Keys(fresh)}
           update == {r \in fresh : Store!KeyOf(r) \in Store!Keys(SavedSet)}
           new == fresh \ update
           room == MaxRecords - Cardinality(SavedSet)
           copied == {recs[i] : i \in 1..n}
           added == {recs[i] : i \in (n + 1)..l}
<1>1. /\ history = HistoryLoad(final) /\ history # NoHistory /\ Merged(Slots + 1)
      /\ l <= MaxRecords /\ DistinctKeys(recs) /\ temp.state = "whole"
      /\ final' = temp /\ result' = TRUE /\ UNCHANGED live
  BY DEF Rename, FileInv, CallInv, KeysInv, IndexInv, ContentInv, Writing
<1>2. /\ n \in Nat /\ n <= Len(final.recs) /\ SavedSet = {final.recs[i] : i \in 1..n}
      /\ \A i \in 1..n : final.recs[i] \in Records /\ history.keys[i] = KeyOf(final.recs[i])
  BY <1>1, IndexIs
<1>3. /\ recs \in Seq(Records) /\ l \in Nat /\ n <= l
      /\ final.recs \in Seq(Records) /\ Len(final.recs) \in Nat
  BY <1>1, LenProperties DEF FileInv, Types, Files, Merged
<1>4. SavedSet' = copied \cup added
  <2>1. SavedSet' = {recs[i] : i \in 1..l}
    BY <1>1 DEF SavedSet, Readable, DistinctKeys
  <2>2. \A i \in 1..l : i \in 1..n \/ i \in (n + 1)..l
    BY <1>2, <1>3
  <2>3. \A i : i \in 1..n \/ i \in (n + 1)..l => i \in 1..l
    BY <1>2, <1>3
  <2> QED BY <2>1, <2>2, <2>3
<1>5. \A r : r \in fresh <=> \E s \in Occupied : r = live[s] /\ FilterMatches(mode, live[s].protocol)
  BY DEF Store!Selected, HeardSet, FilterMatches
<1>6. \A k : k \in Store!Keys(SavedSet) <=> KeyExists(k)
  BY <1>2 DEF Store!Keys, Store!KeyOf, KeyOf, KeyExists
<1>7. \A k : k \in Store!Keys(fresh) <=> Successors(k) # {}
  <2>1. ASSUME NEW k, NEW s \in Successors(k) PROVE k \in Store!Keys(fresh)
    BY <1>5 DEF Successors, FindBySource, Store!Keys, Store!KeyOf, KeyOf
  <2>2. ASSUME NEW k, k \in Store!Keys(fresh) PROVE Successors(k) # {}
    BY <1>5, <2>2 DEF Successors, FindBySource, Store!Keys, Store!KeyOf, KeyOf
  <2> QED BY <2>1, <2>2
<1>8. copied = kept \cup update
  <2>1. ASSUME NEW i \in 1..n PROVE recs[i] \in kept \cup update
    <3>1. recs[i] \in NextOf(i) /\ final.recs[i] \in SavedSet
          /\ history.keys[i] = KeyOf(final.recs[i]) /\ KeyExists(history.keys[i])
      BY <1>1, <1>2 DEF Merged, KeyExists
    <3>2. CASE Successors(history.keys[i]) = {}
      <4>1. recs[i] = final.recs[i]
        BY <3>1, <3>2 DEF NextOf
      <4>2. KeyOf(final.recs[i]) \notin Store!Keys(fresh)
        BY <1>7, <3>1, <3>2
      <4> QED BY <3>1, <4>1, <4>2 DEF Store!KeyOf, KeyOf
    <3>3. CASE Successors(history.keys[i]) # {}
      <4>1. PICK s \in Successors(history.keys[i]) : recs[i] = live[s]
        BY <3>1, <3>3 DEF NextOf
      <4>2. recs[i] \in fresh /\ KeyOf(recs[i]) = history.keys[i]
        BY <1>5, <4>1 DEF Successors, FindBySource
      <4>3. KeyOf(recs[i]) \in Store!Keys(SavedSet)
        BY <1>6, <3>1, <4>2
      <4> QED BY <4>2, <4>3 DEF Store!KeyOf, KeyOf
    <3> QED BY <3>2, <3>3
  <2>2. ASSUME NEW r \in kept PROVE r \in copied
    <3>1. PICK i \in 1..n : r = final.recs[i]
      BY <1>2
    <3>2. Successors(history.keys[i]) = {}
      BY <1>2, <1>7, <3>1 DEF Store!KeyOf, KeyOf
    <3>3. recs[i] = final.recs[i]
      BY <1>1, <3>2 DEF Merged, NextOf
    <3> QED BY <3>1, <3>3
  <2>3. ASSUME NEW r \in update PROVE r \in copied
    <3>1. PICK s \in Occupied : r = live[s] /\ FilterMatches(mode, live[s].protocol)
      BY <1>5
    <3>2. KeyExists(KeyOf(r))
      BY <1>6 DEF Store!KeyOf, KeyOf
    <3>3. PICK i \in 1..n : history.keys[i] = KeyOf(r)
      BY <3>2 DEF KeyExists
    <3>4. s \in Successors(history.keys[i])
      BY <3>1, <3>3 DEF Successors, FindBySource
    <3>5. PICK t \in Successors(history.keys[i]) : recs[i] = live[t]
      BY <1>1, <3>4 DEF Merged, NextOf
    <3>6. t \in Occupied /\ KeyOf(live[t]) = KeyOf(live[s])
      BY <3>1, <3>3, <3>5 DEF Successors, FindBySource
    <3>7. t = s
      BY <3>6 DEF FileInv, SourceInv
    <3> QED BY <3>1, <3>5, <3>7
  <2> QED BY <2>1, <2>2, <2>3
<1>9. \A r : r \in new <=> \E s \in Occupied : IsNew(s) /\ r = live[s]
  BY <1>5, <1>6 DEF IsNew, Store!KeyOf, KeyOf
<1>10. added \subseteq new
  BY <1>1, <1>9 DEF Merged
<1>11. Cardinality(SavedSet) = n
  <2>1. n # 0 => Readable(final)
    BY <1>1 DEF HistoryLoad, Index
  <2>2. CASE n = 0
    <3>1. SavedSet = {}
      BY <1>2, <2>2
    <3> QED BY <2>2, <3>1, FS_EmptySet
  <2>3. CASE n # 0
    <3>1. DistinctKeys(final.recs)
      BY <2>1, <2>3 DEF Readable, DistinctKeys
    <3>2. Cardinality(Part(final.recs, 1, n)) = n - 1 + 1
      <4>1. /\ n \in Nat /\ 1 \in Nat \ {0} /\ n <= Len(final.recs) /\ 1 <= n + 1
            /\ final.recs \in Seq(Records)
        BY <1>2, <1>3
      <4> HIDE DEF n
      <4> QED BY <3>1, <4>1, Counted
    <3>3. SavedSet = Part(final.recs, 1, n)
      BY <1>2 DEF Part
    <3>4. n \in Nat
      BY <1>2
    <3> HIDE DEF n
    <3> QED BY <3>2, <3>3, <3>4
  <2> QED BY <2>2, <2>3
<1>12. Cardinality(added) = l - n
  <2>1. n + 1 \in Nat \ {0} /\ n + 1 <= l + 1
    BY <1>2, <1>3
  <2>2. Cardinality(Part(recs, n + 1, l)) = l - (n + 1) + 1
    <3>1. /\ recs \in Seq(Records) /\ DistinctKeys(recs) /\ l \in Nat
          /\ l <= Len(recs)
      BY <1>1, <1>3
    <3> HIDE DEF n, l, recs
    <3> QED BY <2>1, <3>1, Counted
  <2>3. added = Part(recs, n + 1, l)
    BY DEF Part
  <2>4. n \in Nat /\ l \in Nat
    BY <1>2, <1>3
  <2> HIDE DEF n, l, added
  <2> QED BY <2>2, <2>3, <2>4
<1>13. \/ added = new /\ Cardinality(new) <= room
       \/ Cardinality(added) = room
  <2>1. CASE l = MaxRecords
    BY <1>11, <1>12, <2>1
  <2>2. CASE l # MaxRecords
    <3>1. \A s \in Occupied : s \in 1..((Slots + 1) - 1)
      BY HistoryAssumption DEF Occupied
    <3>2. \A s \in Occupied : IsNew(s) => live[s] \in added
      BY <1>1, <2>2, <3>1 DEF Merged
    <3>3. added = new
      BY <1>9, <1>10, <3>2
    <3>4. Cardinality(new) = l - n /\ room = MaxRecords - n
      BY <1>11, <1>12, <3>3
    <3>5. l - n <= MaxRecords - n
      BY <1>1, <1>2, <1>3, HistoryAssumption
    <3> QED BY <3>3, <3>4, <3>5
  <2> QED BY <2>1, <2>2
<1>14. SavedSet' = kept \cup update \cup added /\ added \in SUBSET new
  BY <1>4, <1>8, <1>10
<1>15. UNCHANGED HeardSet
  BY <1>1 DEF HeardSet, Occupied
<1>16. \E a \in SUBSET new :
          /\ \/ a = new /\ Store!Cardinality(new) <= MaxRecords - Store!Cardinality(SavedSet)
             \/ Store!Cardinality(a) = MaxRecords - Store!Cardinality(SavedSet)
          /\ SavedSet' = kept \cup update \cup a
  <2>1. /\ Store!Cardinality(new) = Cardinality(new)
        /\ Store!Cardinality(added) = Cardinality(added)
        /\ Store!Cardinality(SavedSet) = Cardinality(SavedSet)
    BY SameCount
  <2> QED BY <1>13, <1>14, <2>1, Zenon
<1>17. result' = TRUE
  BY <1>1
<1> QED BY <1>15, <1>16, <1>17, Zenon DEF Store!Merge

(* The rename at the end of a clear clears.                                    *)
LEMMA ClearCommits ==
    ASSUME FileInv, IndexInv, ContentInv, Rename, screen # "capture"
    PROVE  Store!Clear(mode)
<1> DEFINE n == Len(history.keys)
<1>1. /\ history = HistoryLoad(final) /\ history # NoHistory /\ Cleared(n + 1)
      /\ Len(temp.recs) <= MaxRecords /\ DistinctKeys(temp.recs) /\ temp.state = "whole"
      /\ final' = temp /\ result' = TRUE /\ UNCHANGED live
  BY DEF Rename, FileInv, CallInv, KeysInv, IndexInv, ContentInv, Writing
<1>2. n \in Nat /\ SavedSet = {final.recs[i] : i \in 1..n}
  BY <1>1, IndexIs
<1>3. SavedSet' = {temp.recs[i] : i \in 1..Len(temp.recs)}
  BY <1>1 DEF SavedSet, Readable, DistinctKeys
<1>4. Kept(n + 1) = {k \in 1..n : ~FilterMatches(mode, final.recs[k].protocol)}
  BY <1>2 DEF Kept
<1>5. SavedSet' = {final.recs[k] : k \in {k \in 1..n : ~FilterMatches(mode, final.recs[k].protocol)}}
  BY <1>1, <1>3, <1>4 DEF Cleared
<1>6. SavedSet' = SavedSet \ Store!Selected(SavedSet, mode)
  BY <1>2, <1>5 DEF Store!Selected, FilterMatches
<1>7. UNCHANGED HeardSet
  BY <1>1 DEF HeardSet, Occupied
<1> QED BY <1>1, <1>6, <1>7 DEF Store!Clear

(* Every step is a step of the store, or none.                                 *)
LEMMA StoreStep ==
    ASSUME FileInv, FileInv', IndexInv, ContentInv, [Next]_vars
    PROVE  [Store!Next]_<<SavedSet, HeardSet, result>>
<1> USE DEF Quiet
<1>1. UNCHANGED final => UNCHANGED SavedSet
  BY DEF SavedSet, Readable
<1>2. UNCHANGED live => UNCHANGED HeardSet
  BY DEF HeardSet, Occupied
<1>3. HeardSet' \in SUBSET Store!Records
  <2>1. HeardSet' \subseteq Store!Records
    BY DEF FileInv, Types, HeardSet, Occupied, Store!Records, Records
  <2> QED BY <2>1
<1>4. CASE Screens
  <2>1. UNCHANGED <<final, result>>
    BY <1>4 DEF Screens, ChooseMode, StartCapture, OpenSaved, Back, Hear
  <2> QED BY <1>1, <1>3, <2>1 DEF Store!Next, Store!Listen
<1>5. CASE MergeLive \/ MergeReturn \/ ClearLiveReturn \/ ClearSavedReturn
  <2>1. UNCHANGED <<final, result>>
    BY <1>5 DEF MergeLive, MergeReturn, ClearLiveReturn, ClearSavedReturn
  <2> QED BY <1>1, <1>3, <2>1 DEF Store!Next, Store!Listen
<1>6. CASE ClearHistory
  <2>1. UNCHANGED <<final, live>> /\ (result' = FALSE \/ UNCHANGED result)
    BY <1>6 DEF ClearHistory
  <2> QED BY <1>1, <1>2, <2>1 DEF Store!Next, Store!Fail
<1>7. CASE WriterBegin \/ IoFault
  <2>1. UNCHANGED <<final, live>> /\ (result' = FALSE \/ UNCHANGED result)
    BY <1>7 DEF WriterBegin, IoFault, Abort
  <2> QED BY <1>1, <1>2, <2>1 DEF Store!Next, Store!Fail
<1>8. CASE CopyRecord \/ CopyDone \/ AddLive \/ LiveDone \/ WriterFinish
  <2>1. UNCHANGED <<final, live, result>>
    BY <1>8 DEF CopyRecord, CopyDone, AddLive, LiveDone, WriterFinish
  <2> QED BY <1>1, <1>2, <2>1
<1>9. CASE Rename
  <2>1. mode \in Store!Filters
    BY DEF FileInv, Types, Filters, Store!Filters
  <2> QED BY <1>9, <2>1, MergeCommits, ClearCommits DEF Store!Next
<1>10. CASE Crash
  <2>1. HeardSet' = {} /\ result' = FALSE /\ UNCHANGED final
    BY <1>10 DEF Crash, files, HeardSet, Occupied, Released
  <2> QED BY <1>1, <2>1 DEF Store!Next, Store!PowerCut
<1>11. CASE UNCHANGED vars
  BY <1>1, <1>2, <1>11 DEF vars
<1> QED BY <1>4, <1>5, <1>6, <1>7, <1>8, <1>9, <1>10, <1>11 DEF Next, Calls, Writer

(* As long as a good file can be read, merging and clearing change the saved   *)
(* results as a whole or not at all, whatever write fails and whenever the     *)
(* power goes, and what they return tells whether they did                     *)
(* (passive_history.c:689-797).                                                *)
THEOREM StoreImplemented == ASSUME ~LoadFaults PROVE Spec => ImplementsStore
<1>1. Init => FileInv /\ IndexInv /\ ContentInv /\ Store!Init
  BY FileInit, IndexInit, StoreInit
<1>2. FileInv /\ IndexInv /\ ContentInv /\ [Next]_vars => FileInv' /\ IndexInv' /\ ContentInv'
  BY FileStep, IndexStep, ContentStep
<1>3. FileInv /\ FileInv' /\ IndexInv /\ ContentInv /\ [Next]_vars
         => [Store!Next]_<<SavedSet, HeardSet, result>>
  BY StoreStep
<1> QED BY <1>1, <1>2, <1>3, PTL DEF Spec, ImplementsStore, Store!Spec, Store!storeVars
-----------------------------------------------------------------------------
(* Types and sizes.                                                            *)

SizeInv == Len(final.recs) <= MaxRecords /\ Len(temp.recs) <= MaxRecords

(* A file being written grows with the cursor over an index that is within the *)
(* limit, and stops at the limit after that; the other files are left as they  *)
(* were, emptied, or renamed.                                                  *)
LEMMA SizeStep == FileInv /\ SizeInv /\ [Next]_vars /\ FileInv' => SizeInv'
<1> SUFFICES ASSUME FileInv, SizeInv, [Next]_vars, FileInv' PROVE SizeInv'
  OBVIOUS
<1> USE DEF SizeInv
<1>1. final' = final \/ final' = temp
  <2>1. CASE Screens \/ Calls
    BY <2>1 DEF Screens, ChooseMode, StartCapture, OpenSaved, Back, Hear,
                Calls, MergeLive, ClearHistory, MergeReturn, ClearLiveReturn, ClearSavedReturn
  <2>2. CASE Writer
    BY <2>2 DEF Writer, WriterBegin, CopyRecord, CopyDone, AddLive, LiveDone, WriterFinish,
                Rename, IoFault, Abort
  <2> QED BY <2>1, <2>2 DEF Next, Crash, files, vars
<1>2. Len(final'.recs) <= MaxRecords
  BY <1>1
<1>3. CASE pc' = "copy"
  <2>1. history' # NoHistory /\ Len(history'.keys) <= MaxRecords
    BY <1>3 DEF FileInv, CallInv, SourceInv, Writing
  <2>2. Len(temp'.recs) < cursor' /\ cursor' <= Len(history'.keys) + 1
    BY <1>3 DEF FileInv, KeysInv, CopyKeys
  <2>3. history' \in Indexes /\ temp' \in Files /\ cursor' \in Nat
    BY <2>1 DEF FileInv, Types
  <2>4. Len(history'.keys) \in Nat /\ Len(temp'.recs) \in Nat
    BY <2>3 DEF Indexes, Files
  <2> QED BY <1>2, <2>1, <2>2, <2>3, <2>4, HistoryAssumption
<1>4. CASE pc' \in {"live", "finish", "rename"}
  BY <1>2, <1>4 DEF FileInv, KeysInv, LiveKeys
<1>5. CASE pc' \in {"idle", "return", "begin"}
  <2>1. temp' \in {temp, Absent, Torn(<<>>)}
    <3>1. CASE Screens \/ Calls
      BY <3>1 DEF Screens, ChooseMode, StartCapture, OpenSaved, Back, Hear,
                  Calls, MergeLive, ClearHistory, MergeReturn, ClearLiveReturn, ClearSavedReturn
    <3>2. CASE WriterBegin \/ IoFault
      BY <3>2 DEF WriterBegin, IoFault, Abort
    <3>3. CASE Rename
      BY <3>3 DEF Rename
    <3>4. CASE CopyRecord \/ CopyDone \/ AddLive \/ LiveDone \/ WriterFinish
      BY <1>5, <3>4 DEF CopyRecord, CopyDone, AddLive, LiveDone, WriterFinish
    <3> QED BY <3>1, <3>2, <3>3, <3>4 DEF Next, Writer, Crash, files, vars
  <2>2. Len(Absent.recs) = 0 /\ Len(Torn(<<>>).recs) = 0
    BY DEF Absent, Torn
  <2> QED BY <1>2, <2>1, <2>2, HistoryAssumption
<1> QED BY <1>3, <1>4, <1>5 DEF FileInv, Types, Writing

(* Every variable keeps its type, and no file, temporary or final, holds more  *)
(* records than an index can take, for any number of records and slots         *)
(* (passive_history.c:649-670, 731).                                           *)
THEOREM HistoryTypeCorrect == Spec => []TypeOK
<1>1. Init => SizeInv
  BY HistoryAssumption DEF Init, SizeInv, Absent, Corrupt, Whole
<1>2. ASSUME FileInv, SizeInv PROVE TypeOK
  <2>1. ASSUME NEW file \in Files
        PROVE  /\ file.state \in {"absent", "corrupt", "torn", "whole"}
               /\ \A i \in 1..Len(file.recs) : file.recs[i] \in Records
    BY ElementOfSeq DEF Files
  <2>2. final \in Files /\ temp \in Files
    BY <1>2 DEF FileInv, Types
  <2>3. history = NoHistory \/ history.status \in {"Ready", "Missing", "Invalid"}
    BY <1>2 DEF FileInv, Types, Indexes
  <2>4. pc \in {"idle", "begin", "copy", "live", "finish", "rename", "return"}
    BY <1>2 DEF FileInv, Types, Writing
  <2> QED BY <1>2, <2>1, <2>2, <2>3, <2>4 DEF FileInv, Types, SizeInv, TypeOK
<1> QED
  BY <1>1, <1>2, FileInit, FileStep, SizeStep, PTL DEF Spec
===============================================================================
