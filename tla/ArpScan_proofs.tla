--------------------------- MODULE ArpScan_proofs ---------------------------
(* Machine-checked proofs about ArpScan, for any range of addresses and any    *)
(* number of scans.                                                            *)
EXTENDS ArpScan, SequenceTheorems, TLAPS

(* The GUI thread stays in the scan scene as long as there is a worker, and    *)
(* what the worker knows at each step of its loop.                             *)
WorkInv ==
    /\ owned <=> wpc # "none"
    /\ owned => scene = "scan" /\ scan # 0
    /\ wpc \in {"arm", "wait", "disarm"} => i < RangeIp
    /\ wpc \in {"loop", "arm", "wait"} => ~cancelled
    /\ wpc = "wait" => ~got
    /\ wpc = "disarm" /\ got => matched /\ ~cancelled
    /\ wpc = "end" /\ ~cancelled /\ failure = "none" => i = RangeIp

(* A matched wait has the MAC of the address that was asked in the next entry. *)
MacInv ==
    wpc \in {"wait", "disarm"} /\ matched =>
        list[counter + 1].mac = [host |-> i + 1, scan |-> scan]

Unsaved == {"begin", "loop", "arm", "wait", "disarm", "end", "open"}

(* The file is of an earlier scan until the worker has written its header.     *)
FileInv ==
    /\ file.header # None => /\ file.header.stamp <= scan
                             /\ wpc \in Unsaved => file.header.stamp < scan
    /\ wpc \in {"open", "header", "body"} =>
            results[scan] = [whole |-> TRUE, hosts |-> Found(count)]
    /\ wpc \in {"header", "body"} => stamp = scan /\ file.body = <<>>
    /\ wpc = "header" => file.header = None
    /\ wpc = "body" => file.header = Header(count, scan)

ScanInv ==
    TypeOK /\ WorkInv /\ MacInv /\ FoundPaired /\ FileInv /\ SavedIsCompleted /\ ShownIsSaved

(* The invariant holds before the first scan.                                  *)
LEMMA ScanInit == Init => ScanInv
<1> SUFFICES ASSUME Init PROVE ScanInv
  OBVIOUS
<1>1. SceneTypes /\ FlagTypes
  BY EmptySeq DEF Init, SceneTypes, FlagTypes
<1>2. CountTypes
  BY ArpScanAssumption DEF Init, CountTypes
<1>3. ListTypes
  BY EmptySeq DEF Init, ListTypes, Blank, Entries, Empty
<1>4. WorkInv /\ MacInv /\ FoundPaired
  BY DEF Init, WorkInv, MacInv, FoundPaired
<1>5. FileInv /\ SavedIsCompleted /\ ShownIsSaved
  BY DEF Init, Empty, FileInv, SavedIsCompleted, ShownIsSaved, FileWhole
<1> QED
  BY <1>1, <1>2, <1>3, <1>4, <1>5 DEF ScanInv, TypeOK

-----------------------------------------------------------------------------
(* Sequences and the entries of the list.                                      *)

(* The first n entries of the list are a sequence of n entries.                *)
LEMMA FoundType ==
    ASSUME NEW l \in [Addresses -> Entries], NEW n \in 0..RangeIp
    PROVE  /\ SubSeq(l, 1, n) \in Seq(Entries)
           /\ Len(SubSeq(l, 1, n)) = n
           /\ \A k \in 1..n : SubSeq(l, 1, n)[k] = l[k]
<1>1. \A k \in 1..n : l[k] \in Entries
  BY ArpScanAssumption DEF Addresses
<1>2. n \in Int /\ 1 \in Int
  OBVIOUS
<1> HIDE DEF Entries
<1>3. /\ SubSeq(l, 1, n) \in Seq(Entries)
      /\ Len(SubSeq(l, 1, n)) = IF 1 <= n THEN n - 1 + 1 ELSE 0
      /\ \A k \in 1..(n - 1 + 1) : SubSeq(l, 1, n)[k] = l[1 + k - 1]
  BY <1>1, <1>2, SubSeqProperties
<1> QED
  BY <1>3

(* A shorter list of results is a prefix of a longer one.                      *)
LEMMA PrefixOfFound ==
    ASSUME list \in [Addresses -> Entries], NEW m \in 0..RangeIp, NEW n \in 0..m
    PROVE  Found(n) = SubSeq(Found(m), 1, n)
<1>1. n \in 0..RangeIp /\ n \in Int /\ n <= m
  BY ArpScanAssumption
<1>2. /\ Found(m) \in Seq(Entries) /\ Len(Found(m)) = m
      /\ \A k \in 1..m : Found(m)[k] = list[k]
  BY FoundType DEF Found
<1>3. /\ Found(n) \in Seq(Entries) /\ Len(Found(n)) = n
      /\ \A k \in 1..n : Found(n)[k] = list[k]
  BY <1>1, FoundType DEF Found
<1>4. \A k \in 1..n : Found(m)[k] \in Entries
  BY <1>1, <1>2, ElementOfSeq
<1> DEFINE s == Found(m)
<1> HIDE DEF s
<1>5. /\ SubSeq(s, 1, n) \in Seq(Entries)
      /\ Len(SubSeq(s, 1, n)) = IF 1 <= n THEN n - 1 + 1 ELSE 0
      /\ \A k \in 1..(n - 1 + 1) : SubSeq(s, 1, n)[k] = s[1 + k - 1]
  BY <1>1, <1>4, SubSeqProperties DEF s
<1>6. Len(SubSeq(s, 1, n)) = n /\ \A k \in 1..n : SubSeq(s, 1, n)[k] = s[k]
  BY <1>1, <1>5
<1>7. \A k \in 1..n : Found(n)[k] = SubSeq(s, 1, n)[k]
  BY <1>1, <1>2, <1>3, <1>6 DEF s
<1> QED
  BY <1>3, <1>5, <1>6, <1>7, SeqEqual DEF s

(* What a load leaves in memory has its type.                                  *)
LEMMA LoadType ==
    ASSUME ListTypes, CountTypes, LoadLastScan
    PROVE  /\ list' \in [Addresses -> Entries]
           /\ count' \in 0..RangeIp
           /\ stamp' \in Scans \cup {None}
<1>1. CASE file.header = None
  BY <1>1 DEF LoadLastScan, Load, ListTypes, CountTypes, appVars
<1>2. CASE file.header # None
  <2>1. file.header \in [count : 0..RangeIp, stamp : Scans]
    BY <1>2 DEF ListTypes
  <2>2. file.body \in Seq(Entries)
    BY DEF ListTypes
  <2>3. \A a \in Addresses : a <= Len(file.body) => file.body[a] \in Entries
    BY <2>2, ElementOfSeq, LenProperties, ArpScanAssumption DEF Addresses
  <2> QED
    BY <1>2, <2>1, <2>3 DEF LoadLastScan, Load, ListTypes
<1> QED
  BY <1>1, <1>2

-----------------------------------------------------------------------------
(* The parts of the invariant that are about steps and types.                  *)

(* No step breaks the types of the scene's state.                              *)
LEMMA SceneStep == SceneTypes /\ [Next]_vars => SceneTypes'
<1> SUFFICES ASSUME SceneTypes, [Next]_vars PROVE SceneTypes'
  OBVIOUS
<1> USE DEF SceneTypes
<1>1. CASE Gui
  <2>1. CASE Start \/ ShowList \/ Back
    BY <2>1 DEF Start, ShowList, Back, GoTo, workVars, waitVars
  <2>2. CASE HandleEvent
    <3>1. events' \in Seq({"finished", "cancelled", "memory"})
      BY <2>2, HeadTailProperties DEF HandleEvent
    <3> QED
      BY <2>2, <3>1 DEF HandleEvent, GoTo, waitVars
  <2> QED
    BY <1>1, <2>1, <2>2 DEF Gui
<1>2. CASE Worker
  <2>1. CASE WBegin \/ WLoop \/ WArm \/ WGot \/ WGiveUp
    BY <2>1 DEF WBegin, WLoop, WArm, WGot, WGiveUp, WGoto, guiVars
  <2>2. CASE WDisarm \/ WEnd
    BY <2>2 DEF WDisarm, WEnd, WGoto, guiVars, waitVars
  <2>3. CASE WOpen \/ WHeader \/ WBody
    BY <2>3 DEF WOpen, WHeader, WBody, Saving, guiVars, waitVars
  <2>4. CASE WPost
    <3>1. \A e \in {"finished", "cancelled", "memory"} :
            Append(events, e) \in Seq({"finished", "cancelled", "memory"})
      BY AppendProperties
    <3> QED
      BY <2>4, <3>1 DEF WPost, waitVars
  <2> QED
    BY <1>2, <2>1, <2>2, <2>3, <2>4 DEF Worker
<1>3. CASE Reopen
  BY <1>3, EmptySeq DEF Reopen
<1>4. ASSUME NEW h \in Addresses, Reply(h) PROVE SceneTypes'
  BY <1>4 DEF Reply, guiVars
<1>5. CASE UNCHANGED vars
  BY <1>5 DEF vars, guiVars, workVars, waitVars
<1> QED
  BY <1>1, <1>2, <1>3, <1>4, <1>5 DEF Next

(* No step breaks the types of the flags.                                      *)
LEMMA FlagStep == FlagTypes /\ [Next]_vars => FlagTypes'
<1> SUFFICES ASSUME FlagTypes, [Next]_vars PROVE FlagTypes'
  OBVIOUS
<1> USE DEF FlagTypes
<1>1. CASE Gui
  BY <1>1 DEF Gui, Start, ShowList, Back, HandleEvent, workVars, waitVars
<1>2. CASE WBegin \/ WLoop \/ WArm \/ WGot \/ WGiveUp \/ WDisarm \/ WEnd
  BY <1>2 DEF WBegin, WLoop, WArm, WGot, WGiveUp, WDisarm, WEnd, WGoto, guiVars, waitVars
<1>3. CASE WOpen \/ WHeader \/ WBody \/ WPost
  BY <1>3 DEF WOpen, WHeader, WBody, WPost, Saving, guiVars, waitVars
<1>4. CASE Reopen
  BY <1>4 DEF Reopen
<1>5. ASSUME NEW h \in Addresses, Reply(h) PROVE FlagTypes'
  BY <1>5 DEF Reply, guiVars
<1>6. CASE UNCHANGED vars
  BY <1>6 DEF vars, guiVars, workVars, waitVars
<1> QED
  BY <1>1, <1>2, <1>3, <1>4, <1>5, <1>6 DEF Next, Worker

(* No step breaks what the position of the worker says.                        *)
LEMMA WorkStep == SceneTypes /\ FlagTypes /\ CountTypes /\ WorkInv /\ [Next]_vars => WorkInv'
<1> SUFFICES ASSUME SceneTypes, FlagTypes, CountTypes, WorkInv, [Next]_vars PROVE WorkInv'
  OBVIOUS
<1>t. wpc # "none" => owned /\ scene = "scan" /\ scan # 0
  BY DEF WorkInv
<1> USE DEF WorkInv
<1>1. CASE Gui
  <2>1. CASE Start
    <3>1. scan + 1 # 0
      BY DEF CountTypes
    <3>2. CASE UNCHANGED <<owned, wpc, scan>>
      BY <2>1, <3>2 DEF Start
    <3>3. CASE scan' = scan + 1 /\ wpc' = "begin" /\ owned' = TRUE /\ GoTo("scan", "loading")
      BY <3>1, <3>3 DEF GoTo
    <3> QED
      BY <2>1, <3>2, <3>3 DEF Start
  <2>2. CASE ShowList \/ Back
    BY <2>2 DEF ShowList, Back, GoTo, workVars, waitVars
  <2>3. CASE HandleEvent
    BY <2>3 DEF HandleEvent, GoTo, waitVars
  <2> QED
    BY <1>1, <2>1, <2>2, <2>3 DEF Gui
<1>2. CASE Worker
  <2>1. CASE WBegin \/ WArm \/ WGot \/ WGiveUp
    BY <2>1, <1>t DEF WBegin, WArm, WGot, WGiveUp, WGoto, guiVars, FlagTypes
  <2>2. CASE WLoop
    <3>1. owned' /\ scene' = "scan" /\ scan' # 0
      BY <2>2, <1>t DEF WLoop, WGoto, guiVars
    <3>2. CASE wpc' = "arm"
      <4>1. i' < RangeIp /\ ~cancelled'
        BY <2>2, <3>2 DEF WLoop, WGoto
      <4> QED
        BY <3>1, <3>2, <4>1
    <3>3. CASE wpc' = "end"
      <4>1. ~cancelled' => i' = RangeIp
        BY <2>2, <3>3 DEF WLoop, WGoto
      <4> QED
        BY <3>1, <3>3, <4>1
    <3> QED
      BY <2>2, <3>2, <3>3 DEF WLoop, WGoto
  <2>3. CASE WDisarm
    BY <2>3, <1>t DEF WDisarm, WGoto, guiVars, waitVars, FlagTypes
  <2>4. CASE WEnd
    BY <2>4, <1>t DEF WEnd, WGoto, guiVars, waitVars
  <2>5. CASE WOpen \/ WHeader \/ WBody
    BY <2>5, <1>t DEF WOpen, WHeader, WBody, Saving, guiVars, waitVars
  <2>6. CASE WPost
    BY <2>6, <1>t DEF WPost, waitVars
  <2> QED
    BY <1>2, <2>1, <2>2, <2>3, <2>4, <2>5, <2>6 DEF Worker
<1>3. CASE Reopen
  BY <1>3 DEF Reopen
<1>4. ASSUME NEW h \in Addresses, Reply(h) PROVE WorkInv'
  BY <1>4 DEF Reply, guiVars
<1>5. CASE UNCHANGED vars
  BY <1>5 DEF vars, guiVars, workVars, waitVars
<1> QED
  BY <1>1, <1>2, <1>3, <1>4, <1>5 DEF Next

(* No step takes the count of results past the range.                          *)
LEMMA CountStep == CountTypes /\ ListTypes /\ WorkInv /\ [Next]_vars => CountTypes'
<1> SUFFICES ASSUME CountTypes, ListTypes, WorkInv, [Next]_vars PROVE CountTypes'
  OBVIOUS
<1> USE DEF CountTypes
<1>1. CASE Gui
  <2>1. CASE Start
    <3>1. UNCHANGED <<i, counter, count>>
      BY <2>1 DEF Start, appVars
    <3>2. scan' = scan \/ (scan < MaxScans /\ scan' = scan + 1)
      BY <2>1 DEF Start
    <3> QED
      BY <3>1, <3>2, ArpScanAssumption
  <2>2. count' \in 0..RangeIp
    BY <1>1, LoadType DEF Gui, Start, ShowList, Back, HandleEvent, appVars
  <2>3. CASE ShowList \/ Back \/ HandleEvent
    BY <2>2, <2>3 DEF ShowList, Back, HandleEvent, workVars
  <2> QED
    BY <1>1, <2>1, <2>3 DEF Gui
<1>2. CASE Worker
  <2>1. CASE WBegin \/ WLoop \/ WArm \/ WGot \/ WGiveUp
    BY <2>1, ArpScanAssumption DEF WBegin, WLoop, WArm, WGot, WGiveUp, WGoto, appVars
  <2>2. CASE WDisarm
    <3>1. wpc = "disarm" /\ i < RangeIp
      BY <2>2 DEF WDisarm, WorkInv
    <3>2. CASE got
      <4>1. ~cancelled
        BY <3>1, <3>2 DEF WorkInv
      <4>2. i' = i + 1 /\ counter' = counter + 1
        BY <2>2, <3>2, <4>1 DEF WDisarm
      <4> QED
        BY <2>2, <3>1, <4>2, ArpScanAssumption DEF WDisarm, WGoto
    <3>3. CASE ~got
      <4>1. counter' = counter /\ i' \in {i, i + 1}
        BY <2>2, <3>3 DEF WDisarm
      <4> QED
        BY <2>2, <3>1, <4>1, ArpScanAssumption DEF WDisarm, WGoto
    <3> QED
      BY <3>2, <3>3
  <2>3. CASE WEnd
    BY <2>3, ArpScanAssumption DEF WEnd, WGoto
  <2>4. CASE WOpen \/ WHeader \/ WBody \/ WPost
    BY <2>4 DEF WOpen, WHeader, WBody, WPost, Saving, appVars
  <2> QED
    BY <1>2, <2>1, <2>2, <2>3, <2>4 DEF Worker
<1>3. CASE Reopen
  BY <1>3, ArpScanAssumption DEF Reopen
<1>4. ASSUME NEW h \in Addresses, Reply(h) PROVE CountTypes'
  BY <1>4 DEF Reply
<1>5. CASE UNCHANGED vars
  BY <1>5 DEF vars, workVars, appVars
<1> QED
  BY <1>1, <1>2, <1>3, <1>4, <1>5 DEF Next

FileTypes ==
    [header : [count : 0..RangeIp, stamp : Scans] \cup {None}, body : Seq(Entries)]

(* No step breaks the types of the list and the file.                          *)
LEMMA ListStep ==
    CountTypes /\ ListTypes /\ WorkInv /\ FileInv /\ [Next]_vars => ListTypes'
<1> SUFFICES ASSUME CountTypes, ListTypes, WorkInv, FileInv, [Next]_vars PROVE ListTypes'
  OBVIOUS
<1>s. wpc # "none" => scan \in Scans
  BY DEF WorkInv, CountTypes, Scans
<1>c. i \in Nat /\ counter \in 0..i /\ counter \in 0..RangeIp /\ count \in 0..RangeIp
  BY ArpScanAssumption DEF CountTypes
<1>f. file \in FileTypes
  BY DEF ListTypes, FileTypes
<1>1. CASE Gui
  <2>1. UNCHANGED <<file, results>>
    BY <1>1 DEF Gui, Start, ShowList, Back, HandleEvent
  <2>2. UNCHANGED appVars \/ LoadLastScan
    BY <1>1 DEF Gui, Start, ShowList, Back, HandleEvent
  <2> QED
    BY <2>1, <2>2, LoadType DEF ListTypes, appVars
<1>2. CASE Worker
  <2>1. CASE WBegin \/ WLoop \/ WArm \/ WGot \/ WGiveUp
    BY <2>1 DEF WBegin, WLoop, WArm, WGot, WGiveUp, WGoto, appVars, ListTypes
  <2>2. CASE WDisarm
    <3>1. i < RangeIp /\ scan \in Scans
      BY <2>2, <1>s DEF WDisarm, WorkInv
    <3>2. i + 1 \in Addresses /\ counter + 1 \in Addresses
      BY <3>1, <1>c, ArpScanAssumption DEF Addresses
    <3>3. [host |-> i + 1, scan |-> scan] \in Origins
      BY <3>1, <3>2 DEF Origins
    <3>4. [list EXCEPT ![counter + 1].ip = [host |-> i + 1, scan |-> scan]]
            \in [Addresses -> Entries]
      BY <3>2, <3>3 DEF ListTypes, Entries
    <3>5. list' \in [Addresses -> Entries]
      BY <2>2, <3>4 DEF WDisarm, ListTypes
    <3> QED
      BY <2>2, <3>5 DEF WDisarm, WGoto, ListTypes
  <2>3. CASE WEnd
    <3>1. Found(counter) \in Seq(Entries)
      BY <1>c, FoundType DEF Found, ListTypes
    <3>2. results' \in [Scans -> [whole : BOOLEAN, hosts : Seq(Entries)]]
      BY <2>3, <3>1 DEF WEnd, ListTypes
    <3> QED
      BY <2>3, <3>2 DEF WEnd, WGoto, ListTypes
  <2>4. CASE WOpen
    <3>1. Empty \in FileTypes
      BY EmptySeq DEF Empty, FileTypes
    <3>2. file' \in FileTypes /\ stamp' \in Scans \cup {None}
      BY <2>4, <1>f, <1>s, <3>1 DEF WOpen, ListTypes
    <3> QED
      BY <2>4, <3>2 DEF WOpen, Saving, ListTypes, FileTypes
  <2>5. CASE WHeader
    <3>1. stamp \in Scans
      BY <2>5, <1>s DEF WHeader, FileInv
    <3>2. Header(count, stamp) \in [count : 0..RangeIp, stamp : Scans]
      BY <3>1, <1>c DEF Header
    <3>3. file' \in FileTypes
      BY <2>5, <1>f, <3>2 DEF WHeader, FileTypes
    <3> QED
      BY <2>5, <3>3 DEF WHeader, Saving, ListTypes, FileTypes
  <2>6. CASE WBody
    <3>1. PICK n \in 0..count : file' = [file EXCEPT !.body = Found(n)]
      BY <2>6 DEF WBody
    <3>2. n \in 0..RangeIp
      BY <1>c, ArpScanAssumption
    <3>3. Found(n) \in Seq(Entries)
      BY <3>2, FoundType DEF Found, ListTypes
    <3>4. file' \in FileTypes
      BY <1>f, <3>1, <3>3 DEF FileTypes
    <3> QED
      BY <2>6, <3>4 DEF WBody, Saving, ListTypes, FileTypes
  <2>7. CASE WPost
    BY <2>7 DEF WPost, appVars, ListTypes
  <2> QED
    BY <1>2, <2>1, <2>2, <2>3, <2>4, <2>5, <2>6, <2>7 DEF Worker
<1>3. CASE Reopen
  <2>1. [a \in Addresses |-> Blank] \in [Addresses -> Entries]
    BY DEF Blank, Entries
  <2> QED
    BY <1>3, <2>1 DEF Reopen, ListTypes
<1>4. ASSUME NEW h \in Addresses, Reply(h) PROVE ListTypes'
  <2>1. scan \in Scans /\ i < RangeIp
    BY <1>4, <1>s DEF Reply, WorkInv
  <2>2. counter + 1 \in Addresses
    BY <2>1, <1>c, ArpScanAssumption DEF Addresses
  <2>3. [host |-> h, scan |-> scan] \in Origins
    BY <1>4, <2>1 DEF Origins
  <2>4. list' \in [Addresses -> Entries]
    BY <1>4, <2>2, <2>3 DEF Reply, ListTypes, Entries
  <2> QED
    BY <1>4, <2>4 DEF Reply, ListTypes
<1>5. CASE UNCHANGED vars
  BY <1>5 DEF vars, appVars, ListTypes
<1> QED
  BY <1>1, <1>2, <1>3, <1>4, <1>5 DEF Next

-----------------------------------------------------------------------------
(* The list.                                                                   *)

(* No step breaks the pairing of a result with its scan.                       *)
LEMMA PairedStep ==
    CountTypes /\ ListTypes /\ WorkInv /\ MacInv /\ FoundPaired /\ [Next]_vars
        => MacInv' /\ FoundPaired'
<1> SUFFICES ASSUME CountTypes, ListTypes, WorkInv, MacInv, FoundPaired, [Next]_vars
             PROVE  MacInv' /\ FoundPaired'
  OBVIOUS
<1>c. i \in Nat /\ counter \in 0..i
  BY ArpScanAssumption DEF CountTypes
<1> USE DEF MacInv, FoundPaired
<1>1. CASE Gui
  <2>1. CASE owned
    <3>1. scene = "scan" /\ wpc # "none"
      BY <2>1 DEF WorkInv
    <3>2. wpc' = "none" \/ UNCHANGED <<workVars, list, scan>>
      BY <1>1, <2>1, <3>1 DEF Gui, Start, ShowList, Back, HandleEvent, appVars
    <3> QED
      BY <3>2 DEF workVars, waitVars
  <2>2. CASE ~owned
    <3>1. wpc = "none"
      BY <2>2 DEF WorkInv
    <3>2. wpc' \in {"none", "begin"}
      BY <1>1, <3>1 DEF Gui, Start, ShowList, Back, HandleEvent, workVars
    <3> QED
      BY <3>2
  <2> QED
    BY <2>1, <2>2
<1>2. CASE Worker
  <2>1. CASE WBegin
    <3>1. wpc' = "loop" /\ counter' = 0
      BY <2>1 DEF WBegin, WGoto
    <3> QED
      BY <3>1
  <2>2. CASE WArm
    <3>1. matched' = FALSE /\ UNCHANGED <<counter, list, scan>> /\ wpc = "arm"
      BY <2>2 DEF WArm, WGoto, appVars
    <3> QED
      BY <3>1
  <2>3. CASE WLoop \/ WGot \/ WGiveUp
    <3>1. /\ UNCHANGED <<i, counter, matched, list, scan>>
          /\ wpc \in {"loop", "wait"} /\ (wpc' = "disarm" => wpc = "wait") /\ wpc' # "wait"
      BY <2>3 DEF WLoop, WGot, WGiveUp, WGoto, appVars
    <3> QED
      BY <3>1
  <2>4. CASE WDisarm
    <3>1. wpc = "disarm" /\ wpc' \in {"loop", "end"} /\ scan' = scan
      BY <2>4 DEF WDisarm, WGoto
    <3>2. CASE got
      <4>1. list[counter + 1].mac = [host |-> i + 1, scan |-> scan]
        BY <3>1, <3>2 DEF WorkInv
      <4>2. i < RangeIp
        BY <3>1 DEF WorkInv
      <4>3. counter + 1 \in Addresses
        BY <4>2, <1>c, ArpScanAssumption DEF Addresses
      <4>4. /\ list' = [list EXCEPT ![counter + 1].ip = [host |-> i + 1, scan |-> scan]]
            /\ counter' = counter + 1
        BY <2>4, <3>2 DEF WDisarm
      <4>5. /\ list'[counter + 1].ip = [host |-> i + 1, scan |-> scan]
            /\ list'[counter + 1].mac = [host |-> i + 1, scan |-> scan]
            /\ \A k \in 1..counter : list'[k] = list[k]
        BY <4>1, <4>3, <4>4, <1>c, ArpScanAssumption DEF ListTypes, Entries, Addresses
      <4>6. \A k \in 1..(counter + 1) : k \in 1..counter \/ k = counter + 1
        BY <1>c
      <4> QED
        BY <3>1, <4>4, <4>5, <4>6
    <3>3. CASE ~got
      <4>1. UNCHANGED <<list, counter>>
        BY <2>4, <3>3 DEF WDisarm
      <4> QED
        BY <3>1, <4>1
    <3> QED
      BY <3>2, <3>3
  <2>5. CASE WEnd \/ WOpen \/ WHeader \/ WBody \/ WPost
    <3>1. /\ UNCHANGED <<counter, list, scan>>
          /\ wpc \notin {"none", "begin"} /\ wpc' \notin {"wait", "disarm"}
      BY <2>5 DEF WEnd, WOpen, WHeader, WBody, WPost, WGoto, Saving, appVars
    <3> QED
      BY <3>1
  <2> QED
    BY <1>2, <2>1, <2>2, <2>3, <2>4, <2>5 DEF Worker
<1>3. CASE Reopen
  BY <1>3 DEF Reopen
<1>4. ASSUME NEW h \in Addresses, Reply(h) PROVE MacInv' /\ FoundPaired'
  <2>1. /\ wpc \in {"wait", "disarm"} /\ UNCHANGED <<wpc, i, counter, scan>> /\ h = i + 1
        /\ list' = [list EXCEPT ![counter + 1].mac = [host |-> h, scan |-> scan]]
    BY <1>4 DEF Reply, Answers
  <2>2. i < RangeIp
    BY <2>1 DEF WorkInv
  <2>3. counter + 1 \in Addresses
    BY <2>2, <1>c, ArpScanAssumption DEF Addresses
  <2>4. /\ list'[counter + 1].mac = [host |-> i + 1, scan |-> scan]
        /\ \A k \in 1..counter : list'[k] = list[k]
    BY <2>1, <2>3, <1>c, ArpScanAssumption DEF ListTypes, Entries, Addresses
  <2> QED
    BY <2>1, <2>4
<1>5. CASE UNCHANGED vars
  BY <1>5 DEF vars, workVars, waitVars, appVars
<1> QED
  BY <1>1, <1>2, <1>3, <1>4, <1>5 DEF Next

-----------------------------------------------------------------------------
(* The file.                                                                   *)

(* No step breaks what the file is known to hold.                              *)
LEMMA FileStep ==
    CountTypes /\ ListTypes /\ WorkInv /\ FileInv /\ SavedIsCompleted /\ [Next]_vars
        => FileInv' /\ SavedIsCompleted'
<1> SUFFICES ASSUME CountTypes, ListTypes, WorkInv, FileInv, SavedIsCompleted, [Next]_vars
             PROVE  FileInv' /\ SavedIsCompleted'
  OBVIOUS
<1>s. wpc # "none" => scan \in Scans
  BY DEF WorkInv, CountTypes, Scans
<1>n. scan \in Nat
  BY DEF CountTypes
<1>h. file.header # None => file.header.stamp \in Scans
  BY DEF ListTypes
<1>k. file.header # None => file.header.stamp \in Nat
  BY <1>h DEF Scans
<1>1. CASE Gui
  <2>1. UNCHANGED <<file, results>>
    BY <1>1 DEF Gui, Start, ShowList, Back, HandleEvent
  <2>2. SavedIsCompleted'
    BY <2>1 DEF SavedIsCompleted
  <2>3. CASE UNCHANGED <<wpc, scan>> /\ wpc = "none"
    BY <2>1, <2>2, <2>3 DEF FileInv, Unsaved
  <2>4. CASE UNCHANGED <<wpc, scan, list, count, stamp>>
    BY <2>1, <2>2, <2>4 DEF FileInv, Found
  <2>5. CASE wpc' = "none" /\ scan' = scan
    BY <2>1, <2>2, <2>5 DEF FileInv, Unsaved
  <2>6. CASE wpc' = "begin" /\ scan' = scan + 1
    BY <2>1, <2>2, <2>6, <1>n, <1>k DEF FileInv
  <2>7. owned => scene = "scan"
    BY DEF WorkInv
  <2>8. \/ UNCHANGED <<wpc, scan>> /\ wpc = "none"
        \/ UNCHANGED <<wpc, scan, list, count, stamp>>
        \/ wpc' = "none" /\ scan' = scan
        \/ wpc' = "begin" /\ scan' = scan + 1
    BY <1>1, <2>7 DEF Gui, Start, ShowList, Back, HandleEvent, WorkInv, workVars, appVars
  <2> QED
    BY <2>2, <2>3, <2>4, <2>5, <2>6, <2>8
<1>2. CASE Worker
  <2>1. CASE WBegin \/ WLoop \/ WArm \/ WGot \/ WGiveUp \/ WDisarm
    <3>1. /\ UNCHANGED <<file, results, scan>> /\ wpc \in Unsaved
          /\ wpc' \in {"loop", "arm", "wait", "disarm", "end"}
      BY <2>1 DEF WBegin, WLoop, WArm, WGot, WGiveUp, WDisarm, WGoto, Unsaved
    <3> QED
      BY <3>1 DEF FileInv, SavedIsCompleted
  <2>2. CASE WEnd
    <3>1. wpc = "end" /\ UNCHANGED <<file, scan, list>> /\ count' = counter
      BY <2>2 DEF WEnd, WGoto
    <3>2. scan \in Scans
      BY <3>1, <1>s
    <3>3. file.header # None => results'[file.header.stamp] = results[file.header.stamp]
      <4>1. ASSUME file.header # None PROVE file.header.stamp # scan
        BY <3>1, <4>1, <1>n, <1>k DEF FileInv, Unsaved
      <4> QED
        BY <2>2, <4>1, <1>h, <3>2 DEF WEnd, ListTypes
    <3>4. SavedIsCompleted'
      BY <3>1, <3>3 DEF SavedIsCompleted
    <3>5. CASE Saves
      <4>1. i = RangeIp
        BY <3>1, <3>5 DEF WorkInv, Saves
      <4>2. results'[scan] = [whole |-> TRUE, hosts |-> Found(counter)]
        BY <2>2, <4>1, <3>2 DEF WEnd, ListTypes
      <4>3. wpc' = "open"
        BY <2>2, <3>5 DEF WEnd, WGoto
      <4> QED
        BY <3>1, <3>4, <4>2, <4>3 DEF FileInv, Found, Unsaved
    <3>6. CASE ~Saves
      <4>1. wpc' = "post"
        BY <2>2, <3>6 DEF WEnd, WGoto
      <4> QED
        BY <3>1, <3>4, <4>1 DEF FileInv, Unsaved
    <3> QED
      BY <3>5, <3>6
  <2>3. CASE WOpen
    <3>1. wpc = "open" /\ UNCHANGED <<scan, list, count, results>>
      BY <2>3 DEF WOpen, Saving
    <3>2. CASE file' = Empty /\ stamp' = scan /\ wpc' = "header"
      BY <3>1, <3>2 DEF Empty, FileInv, SavedIsCompleted, Found, Unsaved
    <3>3. CASE UNCHANGED file /\ wpc' = "post"
      BY <3>1, <3>3 DEF FileInv, SavedIsCompleted, Unsaved
    <3> QED
      BY <2>3, <3>2, <3>3 DEF WOpen, Saving, Empty
  <2>4. CASE WHeader
    <3>1. /\ wpc = "header" /\ UNCHANGED <<scan, list, count, results, stamp>>
          /\ stamp = scan /\ file.header = None /\ file.body = <<>>
          /\ results[scan] = [whole |-> TRUE, hosts |-> Found(count)]
      BY <2>4 DEF WHeader, Saving, FileInv
    <3>2. CASE file' = [file EXCEPT !.header = Header(count, stamp)] /\ wpc' = "body"
      <4>1. file'.header = Header(count, scan) /\ file'.body = <<>>
        BY <3>1, <3>2 DEF ListTypes
      <4>2. file'.header.stamp = scan /\ file'.header.count = count
        BY <4>1 DEF Header
      <4>3. count \in 0..RangeIp
        BY DEF CountTypes
      <4>4. Len(Found(count)) = count
        BY <4>3, FoundType DEF Found, ListTypes
      <4>5. Len(<<>>) = 0 /\ SubSeq(Found(count), 1, 0) = <<>>
        BY EmptySeq, SubSeqEmpty
      <4>6. SavedIsCompleted'
        BY <3>1, <4>1, <4>2, <4>4, <4>5 DEF SavedIsCompleted
      <4>7. FileInv'
        BY <3>1, <3>2, <4>1, <4>2, <1>n DEF FileInv, Found, Unsaved, Header
      <4> QED
        BY <4>6, <4>7
    <3>3. CASE UNCHANGED file /\ wpc' = "post"
      BY <3>1, <3>3 DEF FileInv, SavedIsCompleted, Unsaved
    <3> QED
      BY <2>4, <3>2, <3>3 DEF WHeader, Saving
  <2>5. CASE WBody
    <3>1. /\ wpc = "body" /\ wpc' = "post" /\ UNCHANGED <<scan, list, count, results>>
          /\ file.header = Header(count, scan)
          /\ results[scan] = [whole |-> TRUE, hosts |-> Found(count)]
      BY <2>5 DEF WBody, Saving, FileInv
    <3>2. PICK n \in 0..count : file' = [file EXCEPT !.body = Found(n)]
      BY <2>5 DEF WBody
    <3>3. count \in 0..RangeIp /\ n \in 0..RangeIp
      BY ArpScanAssumption DEF CountTypes
    <3>4. file'.header = Header(count, scan) /\ file'.body = Found(n)
      BY <3>1, <3>2 DEF ListTypes
    <3>5. /\ Len(Found(count)) = count /\ Found(count) \in Seq(Entries)
          /\ Len(Found(n)) = n /\ Found(n) \in Seq(Entries)
      BY <3>3, FoundType DEF Found, ListTypes
    <3>6. Found(n) = SubSeq(Found(count), 1, n)
      BY <3>3, PrefixOfFound DEF ListTypes
    <3>7. file'.header.stamp = scan /\ file'.header.count = count
      BY <3>4 DEF Header
    <3>8. SavedIsCompleted'
      BY <3>1, <3>4, <3>5, <3>6, <3>7 DEF SavedIsCompleted
    <3>9. FileInv'
      BY <3>1, <3>7, <1>n DEF FileInv, Unsaved
    <3> QED
      BY <3>8, <3>9
  <2>6. CASE WPost
    <3>1. UNCHANGED <<file, results, scan>> /\ wpc = "post" /\ wpc' = "done"
      BY <2>6 DEF WPost
    <3> QED
      BY <3>1 DEF FileInv, SavedIsCompleted, Unsaved
  <2> QED
    BY <1>2, <2>1, <2>2, <2>3, <2>4, <2>5, <2>6 DEF Worker
<1>3. CASE Reopen
  <2>1. UNCHANGED <<file, results, scan>> /\ wpc' = "none"
    BY <1>3 DEF Reopen
  <2> QED
    BY <2>1 DEF FileInv, SavedIsCompleted, Unsaved
<1>4. ASSUME NEW h \in Addresses, Reply(h) PROVE FileInv' /\ SavedIsCompleted'
  <2>1. UNCHANGED <<wpc, file, results, scan>> /\ wpc \in {"wait", "disarm"}
    BY <1>4 DEF Reply
  <2> QED
    BY <2>1 DEF FileInv, SavedIsCompleted
<1>5. CASE UNCHANGED vars
  BY <1>5 DEF vars, workVars, appVars, FileInv, SavedIsCompleted, Found
<1> QED
  BY <1>1, <1>2, <1>3, <1>4, <1>5 DEF Next

-----------------------------------------------------------------------------
(* What is shown.                                                              *)

(* A load shows the completed scan the file was saved from.                    *)
LEMMA LoadShows ==
    ASSUME CountTypes, ListTypes, SavedIsCompleted, FileWhole, LoadLastScan
    PROVE  /\ stamp' \in Scans
           /\ results[stamp'] = [whole |-> TRUE, hosts |-> SubSeq(list', 1, count')]
<1>1. file.header # None /\ Len(file.body) = file.header.count
  BY DEF FileWhole
<1>2. file.header \in [count : 0..RangeIp, stamp : Scans] /\ file.body \in Seq(Entries)
  BY <1>1 DEF ListTypes
<1>3. /\ stamp' = file.header.stamp /\ count' = file.header.count
      /\ list' = [a \in Addresses |->
                    IF a <= Len(file.body) THEN file.body[a] ELSE list[a]]
  BY <1>1 DEF LoadLastScan, Load
<1>4. count' \in 0..RangeIp /\ list' \in [Addresses -> Entries]
  BY LoadType
<1>5. SubSeq(list', 1, count') = file.body
  <2> DEFINE shown == SubSeq(list', 1, count')
  <2>1. /\ shown \in Seq(Entries) /\ Len(shown) = count'
        /\ \A k \in 1..count' : shown[k] = list'[k]
    BY <1>4, FoundType
  <2>2. \A k \in 1..count' : list'[k] = file.body[k]
    BY <1>1, <1>3, <1>4, ArpScanAssumption DEF Addresses
  <2> DEFINE body == file.body
  <2>3. /\ body \in Seq(Entries) /\ Len(body) = count'
        /\ \A k \in 1..count' : shown[k] = body[k]
    BY <1>1, <1>2, <1>3, <2>1, <2>2
  <2> HIDE DEF shown, body
  <2>4. shown = body
    BY <2>1, <2>3, SeqEqual
  <2> QED
    BY <2>4 DEF shown, body
<1> DEFINE result == results[file.header.stamp]
<1>6. result \in [whole : BOOLEAN, hosts : Seq(Entries)]
  BY <1>2 DEF ListTypes
<1>7. /\ result.whole /\ file.header.count = Len(result.hosts)
      /\ file.body = SubSeq(result.hosts, 1, Len(file.body))
  BY <1>1 DEF SavedIsCompleted
<1>8. file.body = result.hosts
  BY <1>1, <1>6, <1>7, SubSeqFull
<1>9. result = [whole |-> TRUE, hosts |-> file.body]
  BY <1>6, <1>7, <1>8
<1> QED
  BY <1>2, <1>3, <1>5, <1>9

(* No step shows a list that is not a completed scan's.                        *)
LEMMA ShownStep ==
    CountTypes /\ ListTypes /\ WorkInv /\ SavedIsCompleted /\ ShownIsSaved /\ [Next]_vars
        => ShownIsSaved'
<1> SUFFICES ASSUME CountTypes, ListTypes, WorkInv, SavedIsCompleted, ShownIsSaved, [Next]_vars,
                    scene' = "list", FileWhole'
             PROVE  stamp' \in Scans
                    /\ results'[stamp'] = [whole |-> TRUE, hosts |-> Found(count)']
  BY DEF ShownIsSaved
<1>1. CASE ShowList \/ HandleEvent
  <2>1. UNCHANGED <<file, results>> /\ LoadLastScan
    BY <1>1 DEF ShowList, HandleEvent, GoTo
  <2>2. FileWhole
    BY <2>1 DEF FileWhole
  <2> QED
    BY <2>1, <2>2, LoadShows DEF Found
<1>2. CASE UNCHANGED <<scene, list, count, stamp, file, results>>
  BY <1>2 DEF ShownIsSaved, FileWhole, Found
<1>3. CASE Start \/ Back
  BY <1>2, <1>3 DEF Start, Back, GoTo, appVars
<1>4. CASE Worker \/ \E h \in Addresses : Reply(h)
  <2>1. wpc # "none" /\ scene' = scene
    BY <1>4 DEF Worker, WBegin, WLoop, WArm, WGot, WGiveUp, WDisarm, WEnd, WOpen, WHeader,
                WBody, WPost, Reply, WGoto, Saving, guiVars
  <2> QED
    BY <2>1 DEF WorkInv
<1>5. CASE Reopen
  BY <1>5 DEF Reopen
<1>6. CASE UNCHANGED vars
  BY <1>2, <1>6 DEF vars, guiVars, appVars
<1> QED
  BY <1>1, <1>3, <1>4, <1>5, <1>6 DEF Next, Gui

-----------------------------------------------------------------------------
(* The parts together: no step breaks the invariant.                           *)
LEMMA ScanInvStep == ScanInv /\ [Next]_vars => ScanInv'
BY SceneStep, FlagStep, CountStep, ListStep, WorkStep, PairedStep, FileStep, ShownStep
   DEF ScanInv, TypeOK

(* The invariant holds in every reachable state.                               *)
LEMMA ScanCorrect == Spec => []ScanInv
BY ScanInit, ScanInvStep, PTL DEF Spec

(* Every variable keeps to its type, for any range of addresses.               *)
THEOREM ScanTypeCorrect == Spec => []TypeOK
<1>1. ScanInv => TypeOK
  BY DEF ScanInv
<1> QED
  BY <1>1, ScanCorrect, PTL

(* A host that was found is listed with the MAC it answered with               *)
(* (arp_module.c:223-237, scanner_session.c:249-262).                          *)
THEOREM HostsPaired == Spec => []FoundPaired
<1>1. ScanInv => FoundPaired
  BY DEF ScanInv
<1> QED
  BY <1>1, ScanCorrect, PTL

(* The file holds nothing but what a completed scan found                      *)
(* (ArpScannerScene.c:639-643, app_user.c:110-130).                            *)
THEOREM FileCompleted == Spec => []SavedIsCompleted
<1>1. ScanInv => SavedIsCompleted
  BY DEF ScanInv
<1> QED
  BY <1>1, ScanCorrect, PTL

(* The list on the screen is the one that was saved                            *)
(* (app_user.c:85-108, ArpScannerScene.c:317-323).                             *)
THEOREM ListIsFile == Spec => []ShownIsSaved
<1>1. ScanInv => ShownIsSaved
  BY DEF ScanInv
<1> QED
  BY <1>1, ScanCorrect, PTL
=============================================================================
