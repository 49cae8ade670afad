--------------------------- MODULE Settings_proofs ---------------------------
(* Machine-checked proofs about Settings, for any leases, MACs and old files   *)
(* and any number of changes.                                                  *)
EXTENDS Settings, TLAPS

(* What a save writes of the memory it began with, field by field.             *)
WrittenOf(memory, n) == IF n = "dora" THEN memory.dora /\ TupleIsValid(memory) ELSE memory[n]
FirstFields(memory, k) == [i \in 1..k |-> WrittenOf(memory, Names[i])]

(* A file of the present version holds the first fields of what memory was when*)
(* the file was opened, and memory does not change while it is written; a file *)
(* of an earlier version has no subnet mask.                                   *)
FileInv ==
    /\ \/ file = Empty
       \/ file.version \in {1, 2} /\ Len(file.fields) \in 0..6
       \/ \E k \in 0..7 : file = [version |-> 3, fields |-> FirstFields(kept, k)]
    /\ scene = "saving" =>
          /\ kept = Memory
          /\ file.version \in {0, 3}

(* Where each field stands in the file.                                        *)
LEMMA Positions ==
    /\ DOMAIN Names = 1..7 /\ Len(Names) = 7
    /\ Position("mac") = 1 /\ Position("ip") = 2 /\ Position("static") = 3
    /\ Position("dora") = 4 /\ Position("gateway") = 5 /\ Position("gwMac") = 6
    /\ Position("subnet") = 7
<1>1. DOMAIN Names = 1..7 /\ Len(Names) = 7
  BY DEF Names
<1>2. \A i \in 1..7 : \A j \in 1..7 : Names[i] = Names[j] => i = j
  BY DEF Names
<1>3. \A i \in 1..7 : Position(Names[i]) = i
  BY <1>1, <1>2 DEF Position
<1> QED BY <1>1, <1>3 DEF Names

(* Writing the next field of a prefix gives the longer prefix.                 *)
LEMMA FieldsAppended ==
    ASSUME NEW memory, NEW k \in 0..6
    PROVE  /\ Len(FirstFields(memory, k)) = k
           /\ Append(FirstFields(memory, k), WrittenOf(memory, Names[k + 1]))
                 = FirstFields(memory, k + 1)
  BY DEF FirstFields

(* A prefix of k fields has k of them.                                         *)
LEMMA FieldsLength == \A memory : \A k \in 0..7 : Len(FirstFields(memory, k)) = k
  BY DEF FirstFields

(* What is written for a field is what memory holds for it.                    *)
LEMMA WrittenField == 
   \A i \in 1..7 : Written[Names[i]] = WrittenOf(Memory, Names[i])
  BY DEF Written, WrittenOf, Memory, Names, TupleIsValid

(* FileInv holds when the program is first started.                            *)
LEMMA FileInit == Init => FileInv
BY SettingsAssumption DEF Init, FileInv

(* No step breaks FileInv.                                                     *)
LEMMA FileStep == FileInv /\ [Next]_vars => FileInv'
<1> SUFFICES ASSUME FileInv, [Next]_vars PROVE FileInv'
  OBVIOUS
<1>1. CASE Start
  BY <1>1 DEF Start, FileInv
<1>2. CASE \E l \in Leases : GetLease(l)
  BY <1>2 DEF GetLease, FileInv
<1>3. CASE \E m \in Macs : RandomMac(m) \/ TypeMac(m)
  BY <1>3 DEF RandomMac, TypeMac, FileInv
<1>4. CASE OpenMac \/ OpenIp \/ TypeIp \/ Confirm \/ Leave
  BY <1>4 DEF OpenMac, OpenIp, TypeIp, Confirm, Leave, Forget, FileInv
<1>5. CASE SaveOpen
  <2>1. Memory' = Memory
    BY <1>5 DEF SaveOpen, Memory, editorVars
  <2> QED BY <1>5, <2>1 DEF SaveOpen, FileInv, Empty
<1>6. CASE SaveHeader
  <2>1. Memory' = Memory
    BY <1>6 DEF SaveHeader, Memory, editorVars
  <2>2. file = Empty
    BY <1>6 DEF SaveHeader, FileInv
  <2>3. FirstFields(kept', 0) = <<>>
    BY DEF FirstFields
  <2> QED BY <1>6, <2>1, <2>2, <2>3 DEF SaveHeader, FileInv, Empty
<1>7. CASE SaveField
  <2>1. Memory' = Memory /\ kept' = kept
    BY <1>7 DEF SaveField, Memory, editorVars
  <2>2. PICK k \in 0..7 : file = [version |-> 3, fields |-> FirstFields(kept, k)]
    BY <1>7 DEF SaveField, FileInv, Empty
  <2>3. Len(file.fields) = k
    BY <2>2, FieldsLength
  <2>k. k \in 0..6
    BY <1>7, <2>3, Positions DEF SaveField
  <2>4. Written[Names[k + 1]] = WrittenOf(kept, Names[k + 1])
    BY <1>7, <2>k, WrittenField DEF SaveField, FileInv
  <2>5. file' = [version |-> 3, fields |-> FirstFields(kept, k + 1)]
    <3>1. file' = [file EXCEPT !.fields = Append(@, Written[Names[k + 1]])]
      BY <1>7, <2>3 DEF SaveField
    <3>2. Append(FirstFields(kept, k), WrittenOf(kept, Names[k + 1])) = FirstFields(kept, k + 1)
      BY <2>k, FieldsAppended
    <3> QED BY <2>2, <2>4, <3>1, <3>2
  <2>6. k + 1 \in 0..7
    BY <2>k
  <2>7. scene' = "saving" /\ kept' = Memory'
    BY <1>7, <2>1 DEF SaveField, FileInv
  <2> QED BY <2>1, <2>5, <2>6, <2>7 DEF FileInv
<1>8. CASE Off
  BY <1>8 DEF Off, FileInv
<1>9. CASE UNCHANGED vars
  BY <1>9 DEF vars, editorVars, FileInv, Memory
<1> QED BY <1>1, <1>2, <1>3, <1>4, <1>5, <1>6, <1>7, <1>8, <1>9 DEF Next

(* In every reachable state a file of the present version is the beginning of  *)
(* what memory held when the save opened it (settings.c:151-190).              *)
THEOREM FileIsKept == Spec => []FileInv
<1>1. Init => FileInv
  BY FileInit
<1>2. FileInv /\ [Next]_vars => FileInv'
  BY FileStep
<1> QED BY <1>1, <1>2, PTL DEF Spec

(* What a start finds in a file of the present version.                        *)
LEMMA FieldsRead ==
    ASSUME FileInv, NEW n \in {"mac", "ip", "static", "dora", "gateway", "gwMac", "subnet"},
           Has(n), Has("subnet")
    PROVE  /\ file.version = 3 /\ file.fields = FirstFields(kept, 7)
           /\ \A d : Field(n, d) = WrittenOf(kept, n)
<1>1. PICK k \in 0..7 : file = [version |-> 3, fields |-> FirstFields(kept, k)]
  <2>1. file.version \in {1, 2, 3} /\ 7 <= Len(file.fields)
    BY Positions DEF Has, Readable
  <2>2. file # Empty
    BY <2>1 DEF Empty
  <2>3. \A l \in 0..6 : ~(7 <= l)
    OBVIOUS
  <2>4. ~(file.version \in {1, 2} /\ Len(file.fields) \in 0..6)
    BY <2>1, <2>3, Zenon
  <2> QED BY <2>2, <2>4 DEF FileInv
<1>2. k = 7
  <2>1. Len(file.fields) = k
    BY <1>1, FieldsLength
  <2> QED BY <2>1, Positions DEF Has
<1>3. Position(n) \in 1..7 /\ Names[Position(n)] = n
  BY Positions DEF Names
<1> QED BY <1>1, <1>2, <1>3 DEF Field, FirstFields

(* A start that restores the tuple takes every part from what was saved.          *)
LEMMA RestoreStep ==
    ASSUME FileInv, Start, app'.dora
    PROVE  /\ kept.dora /\ TupleIsValid(kept)
           /\ \A n \in {"ip", "subnet", "gateway", "gwMac"} : Memory'[n] = kept[n]
<1>1. Grants
  BY DEF Start
<1>2. Has("ip") /\ Has("subnet") /\ Has("gateway") /\ Has("gwMac") /\ Has("dora")
  BY <1>1, Positions DEF Grants, Has
<1>3. file.version = 3
  BY <1>2, FieldsRead
<1>4. \A d : \A n \in {"ip", "subnet", "gateway", "gwMac"} : Field(n, d) = kept[n]
  BY <1>2, FieldsRead DEF WrittenOf
<1>5. kept.dora /\ TupleIsValid(kept)
  BY <1>1, <1>2, FieldsRead DEF Grants, WrittenOf
<1>6. Memory'.ip = kept.ip
  BY <1>4 DEF Start, Memory
<1>7. Memory'.subnet = kept.subnet /\ Memory'.gateway = kept.gateway /\ Memory'.gwMac = kept.gwMac
  BY <1>1, <1>3, <1>4 DEF Start, Memory, Loaded
<1> QED BY <1>5, <1>6, <1>7

(* Whatever failed and whenever the power went, a start takes for acquired only*)
(* a tuple that was in memory as such, whole and valid (settings.c:76-196).    *)
THEOREM RestoredWhole == Spec => RestoredTuple
<1>1. FileInv /\ [Next]_vars =>
        [Starts /\ app'.dora =>
            /\ kept.dora /\ TupleIsValid(kept)
            /\ \A n \in {"ip", "subnet", "gateway", "gwMac"} : Memory'[n] = kept[n]]_vars
  <2> SUFFICES ASSUME FileInv, Next, Starts, app'.dora
               PROVE  /\ kept.dora /\ TupleIsValid(kept)
                      /\ \A n \in {"ip", "subnet", "gateway", "gwMac"} : Memory'[n] = kept[n]
    BY DEF vars
  <2>1. Start
    BY DEF Next, Starts, OpenMac, OpenIp, TypeIp, Confirm, Leave, Forget, GetLease,
           RandomMac, TypeMac, SaveOpen, SaveHeader, SaveField, Off
  <2> QED BY <2>1, RestoreStep
<1>2. Spec => [][Next]_vars
  BY PTL DEF Spec
<1> QED BY <1>1, <1>2, FileIsKept, PTL DEF RestoredTuple

(* A start that finds a whole file restores every field of it.                 *)
LEMMA ReadBackStep ==
    ASSUME FileInv, Start, Whole
    PROVE  /\ \A n \in {"mac", "ip", "static"} : Memory'[n] = kept[n]
           /\ app'.dora = (kept.dora /\ TupleIsValid(kept))
           /\ chipMac' = kept.mac
<1>1. /\ Has("mac") /\ Has("ip") /\ Has("static") /\ Has("dora")
      /\ Has("gateway") /\ Has("gwMac") /\ Has("subnet")
  BY Positions DEF Whole, Has, Readable
<1>2. /\ \A d : Field("mac", d) = kept.mac
      /\ \A d : Field("ip", d) = kept.ip
      /\ \A d : Field("static", d) = kept.static
      /\ \A d : Field("dora", d) = (kept.dora /\ TupleIsValid(kept))
      /\ \A d : Field("gateway", d) = kept.gateway
      /\ \A d : Field("gwMac", d) = kept.gwMac
      /\ \A d : Field("subnet", d) = kept.subnet
  BY <1>1, FieldsRead DEF WrittenOf
<1>3. Memory'.mac = kept.mac /\ Memory'.ip = kept.ip /\ Memory'.static = kept.static
  <2>1. /\ app'.mac = Field("mac", DefaultMac)
        /\ app'.static = Field("static", FALSE)
        /\ address'[0] = Field("ip", DefaultIp)
    BY DEF Start
  <2> QED BY <1>2, <2>1 DEF Memory
<1>4. chipMac' = kept.mac
  BY <1>2 DEF Start
<1>5. TupleIsValid(Loaded) = TupleIsValid(kept)
  BY <1>2 DEF TupleIsValid, Loaded, Whole
<1>6. app'.dora = Grants
  BY DEF Start
<1>7. Grants = (kept.dora /\ TupleIsValid(kept))
  BY <1>1, <1>2, <1>5 DEF Grants
<1> QED BY <1>3, <1>4, <1>6, <1>7

(* A save that was finished is restored as it was (settings.c:76-196).         *)
THEOREM SavedRestored == Spec => SavedIsRestored
<1>1. FileInv /\ [Next]_vars =>
        [Starts /\ Whole =>
            /\ \A n \in {"mac", "ip", "static"} : Memory'[n] = kept[n]
            /\ app'.dora = (kept.dora /\ TupleIsValid(kept))
            /\ chipMac' = kept.mac]_vars
  <2> SUFFICES ASSUME FileInv, Next, Starts, Whole
               PROVE  /\ \A n \in {"mac", "ip", "static"} : Memory'[n] = kept[n]
                      /\ app'.dora = (kept.dora /\ TupleIsValid(kept))
                      /\ chipMac' = kept.mac
    BY DEF vars
  <2>1. Start
    BY DEF Next, Starts, OpenMac, OpenIp, TypeIp, Confirm, Leave, Forget, GetLease,
           RandomMac, TypeMac, SaveOpen, SaveHeader, SaveField, Off
  <2> QED BY <2>1, ReadBackStep
<1>2. Spec => [][Next]_vars
  BY PTL DEF Spec
<1> QED BY <1>1, <1>2, FileIsKept, PTL DEF SavedIsRestored
-----------------------------------------------------------------------------
(* What memory, file and editor may hold.                                     *)

NetworkType == [mac : Byte, static : BOOLEAN, dora : BOOLEAN,
                subnet : Byte, gateway : Byte, gwMac : Byte]
MemoryType == [mac : Byte, ip : Byte, static : BOOLEAN, dora : BOOLEAN,
               subnet : Byte, gateway : Byte, gwMac : Byte]
FieldNames == {"mac", "ip", "static", "dora", "gateway", "gwMac", "subnet"}
FieldType(n) == IF n \in {"static", "dora"} THEN BOOLEAN ELSE Byte

(* A file of an earlier version is one the card held at first, and what a file *)
(* of this version was written from was in memory.  The first digit  *)
(* never exceeds 2, although nothing in the code says so: it is what keeps the *)
(* other digits within theirs.                                                 *)
EditorInv ==
    /\ selector \in 0..2 /\ address \in [0..0 -> Byte]
    /\ digits \in [0..2 -> 0..9] /\ digits[0] \in 0..2
PlainInv ==
    /\ scene \in {"off", "menu", "edit ip", "edit mac", "saving"}
    /\ changes \in 0..MaxChanges /\ chipMac \in Byte
MemoryInv ==
    /\ app \in NetworkType
    /\ kept \in MemoryType
    /\ file = Empty \/ file \in OldFiles \/ file.version = 3
TypeInv == EditorInv /\ PlainInv /\ MemoryInv

(* The digits of a byte are those the editor opens with.                       *)
LEMMA DigitsOf ==
    ASSUME NEW n \in Byte, NEW d, d = [p \in 0..2 |-> Editor!Digit(n, 2 - p)]
    PROVE  d \in [0..2 -> 0..9] /\ d[0] \in 0..2 /\ Editor!ShownIn(d, 0) = n
<1>1. \A p \in 0..2 : Editor!Digit(n, p) \in 0..9
  BY DEF Editor!Digit, Byte
<1>2. \A p \in 0..2 : 2 - p \in 0..2
  OBVIOUS
<1>3. d \in [0..2 -> 0..9]
  BY <1>1, <1>2
<1>4. /\ Editor!Digit(n, 2) = (n \div 100) % 10
      /\ Editor!Digit(n, 1) = (n \div 10) % 10
      /\ Editor!Digit(n, 0) = n % 10 /\ (n \div 100) % 10 \in 0..2
  BY DEF Editor!Digit, Byte
<1>5. 100 * ((n \div 100) % 10) + 10 * ((n \div 10) % 10) + (n % 10) = n
  BY DEF Byte
<1>6. /\ Editor!ShownIn(d, 0) = 100 * d[0] + 10 * d[1] + d[2]
      /\ d[0] = Editor!Digit(n, 2) /\ d[1] = Editor!Digit(n, 1) /\ d[2] = Editor!Digit(n, 0)
  BY DEF Editor!ShownIn
<1> QED BY <1>3, <1>4, <1>5, <1>6

(* UP and DOWN leave digits, and carry an octet past 255 only from 56 to 59,   *)
(* with the first digit counted down (ip_assigner.c:235-350).                  *)
LEMMA SumOfDigits ==
    ASSUME NEW k, NEW h, NEW t, NEW u, k \in 0..2, h \in 0..2, t \in 0..9, u \in 0..9,
           NEW new, new = Editor!Sum(k, h, t, u)
    PROVE  /\ new[1] \in 0..2 /\ new[2] \in 0..9 /\ new[3] \in 0..9
           /\ 100 * h + 10 * t + u <= 255 => 100 * new[1] + 10 * new[2] + new[3] <= 255
<1> USE DEF Editor!Sum, Editor!CycleUp, Editor!AtMost5
<1>1. CASE k = 0 /\ h = 1
  BY <1>1
<1>2. CASE k = 0 /\ h # 1
  BY <1>2
<1>3. CASE k = 1 /\ h = 2 /\ t = 4
  BY <1>3
<1>4. CASE k = 1 /\ ~(h = 2 /\ t = 4)
  BY <1>4
<1>5. CASE k = 2
  BY <1>5
<1> QED BY <1>1, <1>2, <1>3, <1>4, <1>5

(* DOWN leaves digits, the first of them 2 at most, and takes an octet past    *)
(* 255 only from 056 to 059.                                                   *)
LEMMA SubtractionOfDigits ==
    ASSUME NEW k, NEW h, NEW t, NEW u, k \in 0..2, h \in 0..2, t \in 0..9, u \in 0..9,
           NEW new, new = Editor!Subtraction(k, h, t, u)
    PROVE  /\ new[1] \in 0..2 /\ new[2] \in 0..9 /\ new[3] \in 0..9
           /\ 100 * h + 10 * t + u <= 255 /\ 100 * new[1] + 10 * new[2] + new[3] > 255
                  => k = 0 /\ 100 * h + 10 * t + u \in 56..59
<1> USE DEF Editor!Subtraction, Editor!CycleDown, Editor!AtMost5
<1>1. CASE k = 0 /\ h = 0
  BY <1>1
<1>2. CASE k = 0 /\ h # 0
  BY <1>2
<1>3. CASE k = 1 /\ h = 2 /\ t = 0
  BY <1>3
<1>4. CASE k = 1 /\ ~(h = 2 /\ t = 0)
  BY <1>4
<1>5. CASE k = 2
  BY <1>5
<1> QED BY <1>1, <1>2, <1>3, <1>4, <1>5

(* The editor is on one octet, and what a press shows is what it computed.     *)
LEMMA PressShown ==
    ASSUME EditorInv, NEW new, Editor!Show(new),
           new[1] \in 0..2, new[2] \in 0..9, new[3] \in 0..9
    PROVE  /\ digits' \in [0..2 -> 0..9] /\ digits'[0] \in 0..2
           /\ ShownOctet' = 100 * new[1] + 10 * new[2] + new[3]
           /\ address' \in [0..0 -> Byte]
           /\ selector' = selector
<1>1. Editor!Positions = 0..2 /\ Octets = 1
  BY SettingsAssumption DEF Editor!Positions
<1>2. selector \in 0..2
  BY DEF EditorInv
<1>3. Editor!OctetOf(selector) = 0 /\ \A p \in 0..2 : Editor!OctetOf(p) = 0 /\ p % 3 = p
  BY <1>2 DEF Editor!OctetOf
<1>4. digits' = [p \in 0..2 |-> new[p + 1]]
  BY <1>1, <1>3 DEF Editor!Show
<1>5. digits'[0] = new[1] /\ digits'[1] = new[2] /\ digits'[2] = new[3]
  BY <1>4
<1>6. digits' \in [0..2 -> 0..9]
  BY <1>4
<1>7. address' = [o \in 0..0 |-> Editor!ShownIn(digits', o) % 256]
  BY <1>1 DEF Editor!Show, Editor!Stored
<1>8. Editor!ShownIn(digits', 0) = 100 * new[1] + 10 * new[2] + new[3]
  BY <1>5 DEF Editor!ShownIn
<1>9. Editor!ShownIn(digits', 0) % 256 \in Byte
  BY <1>8 DEF Byte
<1>10. address' \in [0..0 -> Byte]
  BY <1>7, <1>9
<1> QED BY <1>5, <1>6, <1>8, <1>10 DEF ShownOctet, Editor!Show

(* One press of a key in the editor.                                           *)
LEMMA PressStep ==
    ASSUME EditorInv, PlainInv, TypeIp
    PROVE  /\ EditorInv' /\ PlainInv'
           /\ ShownOctet <= 255 /\ ShownOctet' > 255 => selector = 0 /\ ShownOctet \in 56..59
<1>1. Editor!Positions = 0..2 /\ Octets = 1
  BY SettingsAssumption DEF Editor!Positions
<1>2. /\ selector \in 0..2 /\ digits \in [0..2 -> 0..9] /\ digits[0] \in 0..2
      /\ address \in [0..0 -> Byte] /\ changes \in 0..MaxChanges
  BY DEF EditorInv, PlainInv
<1>3. UNCHANGED <<chipMac, scene>>
  BY DEF TypeIp
<1>4. ASSUME /\ selector' \in 0..2 /\ digits' \in [0..2 -> 0..9] /\ digits'[0] \in 0..2
             /\ address' \in [0..0 -> Byte] /\ changes' \in 0..MaxChanges
      PROVE  EditorInv' /\ PlainInv'
  BY <1>3, <1>4 DEF EditorInv, PlainInv
<1>5. CASE (Editor!Left \/ Editor!Right) /\ UNCHANGED changes
  <2>1. selector' \in 0..2
    BY <1>1, <1>2, <1>5 DEF Editor!Left, Editor!Right
  <2>2. UNCHANGED <<digits, address, changes>>
    BY <1>5 DEF Editor!Left, Editor!Right
  <2>3. ShownOctet' = ShownOctet
    BY <2>2 DEF ShownOctet, Editor!ShownIn
  <2>4. ShownOctet \in Nat
    BY <1>2 DEF ShownOctet, Editor!ShownIn
  <2> QED BY <1>2, <1>4, <2>1, <2>2, <2>3, <2>4
<1>6. CASE Change /\ (Editor!Up \/ Editor!Down)
  <2> DEFINE k == selector % 3
             h == digits[0]
             t == digits[1]
             u == digits[2]
  <2>1. k \in 0..2 /\ h \in 0..2 /\ t \in 0..9 /\ u \in 0..9 /\ k = selector
    BY <1>2
  <2>2. Editor!Selected(0) = h /\ Editor!Selected(1) = t /\ Editor!Selected(2) = u
    BY <1>2 DEF Editor!Selected, Editor!OctetOf
  <2>3. ShownOctet = 100 * h + 10 * t + u
    BY DEF ShownOctet, Editor!ShownIn
  <2>4. changes' \in 0..MaxChanges
    BY <1>2, <1>6, SettingsAssumption DEF Change
  <2>5. CASE Editor!Up
    <3> DEFINE new == Editor!Sum(k, h, t, u)
    <3>0. new = Editor!Sum(k, h, t, u)
      OBVIOUS
    <3>1. Editor!Show(new)
      BY <2>2, <2>5 DEF Editor!Up
    <3> HIDE DEF new, k, h, t, u
    <3>2. /\ new[1] \in 0..2 /\ new[2] \in 0..9 /\ new[3] \in 0..9
          /\ 100 * h + 10 * t + u <= 255 => 100 * new[1] + 10 * new[2] + new[3] <= 255
      BY <2>1, <3>0, SumOfDigits
    <3>3. /\ digits' \in [0..2 -> 0..9] /\ digits'[0] \in 0..2 /\ address' \in [0..0 -> Byte]
          /\ ShownOctet' = 100 * new[1] + 10 * new[2] + new[3] /\ selector' = selector
      BY <3>1, <3>2, PressShown
    <3>4. ~(ShownOctet <= 255 /\ ShownOctet' > 255)
      BY <2>3, <3>2, <3>3
    <3> QED BY <1>2, <1>4, <2>4, <3>3, <3>4
  <2>6. CASE Editor!Down
    <3> DEFINE new == Editor!Subtraction(k, h, t, u)
    <3>0. new = Editor!Subtraction(k, h, t, u)
      OBVIOUS
    <3>1. Editor!Show(new)
      BY <2>2, <2>6 DEF Editor!Down
    <3> HIDE DEF new, k, h, t, u
    <3>2. /\ new[1] \in 0..2 /\ new[2] \in 0..9 /\ new[3] \in 0..9
          /\ 100 * h + 10 * t + u <= 255 /\ 100 * new[1] + 10 * new[2] + new[3] > 255
                 => k = 0 /\ 100 * h + 10 * t + u \in 56..59
      BY <2>1, <3>0, SubtractionOfDigits
    <3>3. /\ digits' \in [0..2 -> 0..9] /\ digits'[0] \in 0..2 /\ address' \in [0..0 -> Byte]
          /\ ShownOctet' = 100 * new[1] + 10 * new[2] + new[3] /\ selector' = selector
      BY <3>1, <3>2, PressShown
    <3>4. ShownOctet <= 255 /\ ShownOctet' > 255 => selector = 0 /\ ShownOctet \in 56..59
      BY <2>1, <2>3, <3>2, <3>3
    <3> QED BY <1>2, <1>4, <2>4, <3>3, <3>4
  <2> QED BY <1>6, <2>5, <2>6
<1> QED BY <1>5, <1>6 DEF TypeIp

(* What the assumption says of the types, and the values a start begins with.  *)
LEMMA Bounds ==
    /\ MaxChanges \in Nat /\ Macs \subseteq Byte /\ DefaultIp \in Byte /\ DefaultMac \in Byte
    /\ Leases \subseteq [ip : Byte, subnet : Byte, gateway : Byte, gwMac : Byte]
    /\ 0 \in Byte
  BY SettingsAssumption DEF Byte
(* What the application starts with is typed.                                  *)
LEMMA Defaults ==
    /\ NoDigits \in [0..2 -> 0..9] /\ NoDigits[0] \in 0..2
    /\ DefaultAddress \in [0..0 -> Byte]
    /\ DefaultApp \in NetworkType
  BY Bounds DEF NoDigits, DefaultAddress, DefaultApp, NetworkType

(* A change that is counted stays within the bound.                            *)
LEMMA ChangeCounted == ASSUME PlainInv, Change PROVE changes' \in 0..MaxChanges
<1>1. MaxChanges \in Nat
  BY Bounds
<1>2. changes \in 0..MaxChanges /\ changes < MaxChanges /\ changes' = changes + 1
  BY DEF PlainInv, Change
<1> QED BY <1>1, <1>2

(* The editor is reset.                                                        *)
LEMMA EditorCleared ==
    ASSUME address' \in [0..0 -> Byte], digits' = NoDigits, selector' = 0
    PROVE  EditorInv'
  BY Defaults DEF EditorInv

(* A step that leaves a group alone keeps what is said of it.                  *)
LEMMA EditorKept == ASSUME EditorInv, UNCHANGED editorVars PROVE EditorInv'
  BY DEF EditorInv, editorVars
(* A step that leaves memory and file alone keeps their types.                 *)
LEMMA MemoryKept == ASSUME MemoryInv, UNCHANGED <<app, file, kept>> PROVE MemoryInv'
  BY DEF MemoryInv

(* Memory holds what its parts hold, and a field written of it is of its type. *)
LEMMA MemoryInMemory ==
    ASSUME app \in NetworkType, address \in [0..0 -> Byte]
    PROVE  Memory \in MemoryType
  BY DEF Memory, NetworkType, MemoryType
(* Each field a save writes is of its field's type.                            *)
LEMMA MemoryTyped ==
    ASSUME NEW memory \in MemoryType, NEW n \in FieldNames
    PROVE  WrittenOf(memory, n) \in FieldType(n)
  BY DEF WrittenOf, FieldType, FieldNames, MemoryType, TupleIsValid

(* Once a save has written the header, the file is of this version.            *)
LEMMA HeaderWritten ==
    ASSUME FileInv, SaveHeader \/ SaveField
    PROVE  file'.version = 3
<1>1. CASE SaveHeader
  <2>1. file = Empty
    BY <1>1 DEF SaveHeader, FileInv
  <2> QED BY <1>1, <2>1 DEF SaveHeader, Empty
<1>2. CASE SaveField
  <2>1. PICK k \in 0..7 : file = [version |-> 3, fields |-> FirstFields(kept, k)]
    BY <1>2 DEF SaveField, FileInv, Empty
  <2>2. file' = [file EXCEPT !.fields = Append(@, Written[Names[Len(@) + 1]])]
    BY <1>2 DEF SaveField
  <2> QED BY <2>1, <2>2
<1> QED BY <1>1, <1>2

(* What a start reads of a field is of the field's type, in files of any       *)
(* version.                                                                    *)
LEMMA FieldTyped ==
    ASSUME FileInv, MemoryInv, NEW n \in FieldNames, NEW d \in FieldType(n)
    PROVE  Field(n, d) \in FieldType(n)
<1>1. CASE ~Has(n)
  BY <1>1 DEF Field
<1>2. CASE Has(n) /\ file \in OldFiles
  <2>1. Position(n) \in 1..Len(file.fields) /\ (Position(n) \in {3, 4} <=> n \in {"static", "dora"})
    BY <1>2, SettingsAssumption, Positions DEF Has, FieldNames
  <2> QED BY <1>2, <2>1, SettingsAssumption DEF Field, FieldType
<1>3. CASE Has(n) /\ file.version = 3
  <2>1. file.version \notin {1, 2} /\ file # Empty
    BY <1>3 DEF Empty
  <2>2. PICK k \in 0..7 : file = [version |-> 3, fields |-> FirstFields(kept, k)]
    BY <2>1 DEF FileInv
  <2>3. Len(file.fields) = k
    BY <2>2, FieldsLength
  <2>4. Position(n) \in 1..7 /\ Names[Position(n)] = n
    BY Positions DEF Names, FieldNames
  <2>5. Position(n) \in 1..k
    BY <1>3, <2>3, <2>4 DEF Has
  <2>6. Field(n, d) = WrittenOf(kept, n)
    BY <1>3, <2>2, <2>4, <2>5 DEF Field, FirstFields
  <2> QED BY <2>6, MemoryTyped DEF MemoryInv
<1>4. file = Empty => ~Has(n)
  BY DEF Empty, Has, Readable
<1> QED BY <1>1, <1>2, <1>3, <1>4 DEF MemoryInv

(* A start restores what is well typed.                                        *)
LEMMA StartTyped ==
    ASSUME FileInv, MemoryInv, EditorInv, PlainInv, Start
    PROVE  EditorInv' /\ PlainInv' /\ MemoryInv'
<1>1. /\ DefaultIp \in Byte /\ DefaultMac \in Byte /\ 0 \in Byte /\ FALSE \in BOOLEAN
  BY SettingsAssumption DEF Byte
<1>2. /\ Field("ip", DefaultIp) \in Byte /\ Field("mac", DefaultMac) \in Byte
      /\ Field("static", FALSE) \in BOOLEAN
      /\ Field("subnet", 0) \in Byte /\ Field("gateway", 0) \in Byte /\ Field("gwMac", 0) \in Byte
  BY <1>1, FieldTyped DEF FieldNames, FieldType
<1>3. Loaded.subnet \in Byte /\ Loaded.gateway \in Byte /\ Loaded.gwMac \in Byte
  BY <1>1, <1>2 DEF Loaded
<1>4. Grants \in BOOLEAN
  BY DEF Grants
<1>5. app' \in NetworkType
  BY <1>1, <1>2, <1>3, <1>4 DEF Start, NetworkType
<1>6. MemoryInv'
  BY <1>5 DEF MemoryInv, Start
<1>7. EditorInv'
  BY <1>2 DEF EditorInv, Start
<1>8. chipMac' \in Byte
  BY <1>5 DEF Start, NetworkType
<1> QED BY <1>6, <1>7, <1>8 DEF PlainInv, Start

(* No other step breaks the types either.                                      *)
LEMMA TypeStep == FileInv /\ TypeInv /\ [Next]_vars => TypeInv'
<1> SUFFICES ASSUME FileInv, EditorInv, PlainInv, MemoryInv, [Next]_vars
             PROVE  EditorInv' /\ PlainInv' /\ MemoryInv'
  BY DEF TypeInv
<1>1. CASE Start
  BY <1>1, StartTyped
<1>2. ASSUME NEW l \in Leases, GetLease(l)
      PROVE  EditorInv' /\ PlainInv' /\ MemoryInv'
  <2>1. l \in [ip : Byte, subnet : Byte, gateway : Byte, gwMac : Byte]
    BY Bounds
  <2>2. /\ UNCHANGED <<digits, selector, chipMac, scene, file, kept>> /\ Change
        /\ address' = [o \in 0..0 |-> l.ip] \/ address' = address
    BY <1>2, Zenon DEF GetLease
  <2>3. app' \in NetworkType
    BY <1>2, <2>1 DEF GetLease, MemoryInv, NetworkType
  <2>4. l.ip \in Byte
    BY <2>1
  <2>5. address' \in [0..0 -> Byte]
    BY <2>2, <2>4 DEF EditorInv
  <2>6. EditorInv'
    BY <2>2, <2>5 DEF EditorInv
  <2>7. PlainInv'
    BY <2>2, ChangeCounted DEF PlainInv
  <2> QED BY <2>2, <2>3, <2>6, <2>7 DEF MemoryInv
<1>3. ASSUME NEW m \in Macs, RandomMac(m) \/ TypeMac(m)
      PROVE  EditorInv' /\ PlainInv' /\ MemoryInv'
  <2>1. m \in Byte
    BY Bounds
  <2>2. app' = [app EXCEPT !.mac = m] /\ UNCHANGED <<file, kept>>
    BY <1>3 DEF RandomMac, TypeMac
  <2>3. app' \in NetworkType
    BY <2>1, <2>2 DEF MemoryInv, NetworkType
  <2>4. UNCHANGED editorVars /\ Change /\ scene' = scene /\ chipMac' \in {chipMac, m}
    BY <1>3 DEF RandomMac, TypeMac
  <2>5. PlainInv'
    BY <2>1, <2>4, ChangeCounted DEF PlainInv
  <2> QED BY <2>2, <2>3, <2>4, <2>5, EditorKept DEF MemoryInv
<1>4. CASE TypeIp
  <2>1. UNCHANGED <<app, file, kept>>
    BY <1>4 DEF TypeIp
  <2> QED BY <1>4, <2>1, PressStep, MemoryKept
<1>5. CASE OpenIp
  <2>1. address[0] \in Byte
    BY DEF EditorInv
  <2>2. digits' \in [0..2 -> 0..9] /\ digits'[0] \in 0..2
    BY <1>5, <2>1, DigitsOf DEF OpenIp
  <2>3. selector' = 0 /\ scene' = "edit ip" /\ UNCHANGED <<address, app, chipMac, changes, file, kept>>
    BY <1>5, Zenon DEF OpenIp
  <2>4. EditorInv'
    <3>1. address \in [0..0 -> Byte]
      BY DEF EditorInv
    <3>2. 0 \in 0..2
      OBVIOUS
    <3>3. selector' \in 0..2 /\ address' = address
      BY <2>3, <3>2, Zenon
    <3>4. address' \in [0..0 -> Byte]
      BY <3>1, <3>3
    <3> QED BY <2>2, <3>3, <3>4, Zenon DEF EditorInv
  <2>5. PlainInv'
    BY <2>3 DEF PlainInv
  <2> QED BY <2>3, <2>4, <2>5, MemoryKept
<1>6. CASE OpenMac
  <2>1. PlainInv'
    BY <1>6 DEF OpenMac, PlainInv
  <2> QED BY <1>6, <2>1, EditorKept, MemoryKept DEF OpenMac
<1>7. CASE Confirm
  <2>1. app' \in NetworkType
    BY <1>7 DEF Confirm, MemoryInv, NetworkType
  <2>2. chipMac' \in Byte
    BY <1>7 DEF Confirm, MemoryInv, NetworkType, PlainInv
  <2>3. EditorInv'
    BY <1>7, EditorCleared DEF Confirm, Forget, EditorInv
  <2>4. PlainInv' /\ UNCHANGED <<file, kept>>
    BY <1>7, <2>2 DEF Confirm, Forget, PlainInv
  <2> QED BY <2>1, <2>3, <2>4 DEF MemoryInv
<1>8. CASE Leave
  <2>1. EditorInv'
    BY <1>8, EditorCleared DEF Leave, Forget, EditorInv
  <2>2. PlainInv'
    BY <1>8 DEF Leave, Forget, PlainInv
  <2> QED BY <1>8, <2>1, <2>2, MemoryKept DEF Leave
<1>9. CASE SaveOpen
  <2>1. Memory \in MemoryType
    BY MemoryInMemory DEF MemoryInv, EditorInv
  <2>2. MemoryInv'
    BY <1>9, <2>1 DEF SaveOpen, MemoryInv
  <2>3. PlainInv'
    BY <1>9 DEF SaveOpen, PlainInv
  <2> QED BY <1>9, <2>2, <2>3, EditorKept DEF SaveOpen
<1>10. CASE SaveHeader \/ SaveField
  <2>1. file'.version = 3
    BY <1>10, HeaderWritten
  <2>2. UNCHANGED <<editorVars, app, chipMac, scene, changes, kept>>
    BY <1>10 DEF SaveHeader, SaveField
  <2>3. PlainInv' /\ MemoryInv'
    BY <2>1, <2>2 DEF PlainInv, MemoryInv
  <2> QED BY <2>2, <2>3, EditorKept
<1>11. CASE Off
  <2>1. /\ app' = DefaultApp /\ address' = DefaultAddress /\ digits' = NoDigits /\ selector' = 0
        /\ scene' = "off" /\ chipMac' = DefaultMac /\ UNCHANGED <<changes, file, kept>>
    BY <1>11 DEF Off
  <2>2. EditorInv'
    BY <2>1, EditorCleared, Defaults
  <2>3. PlainInv'
    BY <2>1, Bounds DEF PlainInv
  <2>4. MemoryInv'
    BY <2>1, Defaults DEF MemoryInv
  <2> QED BY <2>2, <2>3, <2>4
<1>12. CASE UNCHANGED vars
  <2>1. PlainInv'
    BY <1>12 DEF vars, PlainInv
  <2> QED BY <1>12, <2>1, EditorKept, MemoryKept DEF vars
<1> QED BY <1>1, <1>2, <1>3, <1>4, <1>5, <1>6, <1>7, <1>8, <1>9, <1>10, <1>11, <1>12 DEF Next

(* Everything is well typed from the start.                                    *)
LEMMA TypeInit == Init => TypeInv
<1> SUFFICES ASSUME Init PROVE EditorInv /\ PlainInv /\ MemoryInv
  BY DEF TypeInv
<1>1. app \in NetworkType /\ address \in [0..0 -> Byte] /\ chipMac \in Byte
  BY SettingsAssumption DEF Init, DefaultApp, DefaultAddress, NetworkType, Byte
<1>2. EditorInv
  BY <1>1 DEF Init, NoDigits, EditorInv
<1>3. PlainInv
  BY <1>1, SettingsAssumption DEF Init, PlainInv
<1>4. Memory \in MemoryType
  BY <1>1, MemoryInMemory
<1> QED BY <1>1, <1>2, <1>3, <1>4 DEF Init, MemoryInv

(* Memory, file and editor stay within their types, for files of any version;  *)
(* in particular no digit is ever counted out of its range.                    *)
THEOREM SettingsTypeCorrect == Spec => []TypeOK
<1>1. FileInv /\ TypeInv => TypeOK
  <2> SUFFICES ASSUME FileInv, EditorInv, PlainInv, MemoryInv PROVE TypeOK
    BY DEF TypeInv
  <2>1. Editor!TypeOK
    BY SettingsAssumption DEF EditorInv, Editor!TypeOK, Editor!Positions, Byte
  <2>2. file.version \in 0..3 /\ Len(file.fields) <= Len(Names)
    <3>0. Len(Names) = 7
      BY Positions
    <3>1. CASE file = Empty
      BY <3>0, <3>1 DEF Empty
    <3>2. CASE file.version \in {1, 2} /\ Len(file.fields) \in 0..6
      <4>1. \A n \in 0..6 : n <= 7
        OBVIOUS
      <4>2. Len(file.fields) <= 7
        BY <3>2, <4>1, Zenon
      <4> QED BY <3>0, <3>2, <4>2
    <3>3. CASE \E k \in 0..7 : file = [version |-> 3, fields |-> FirstFields(kept, k)]
      <4>1. PICK k \in 0..7 : file = [version |-> 3, fields |-> FirstFields(kept, k)]
        BY <3>3
      <4>2. Len(file.fields) = k /\ file.version = 3
        BY <4>1, FieldsLength
      <4> QED BY <3>0, <4>2
    <3> QED BY <3>1, <3>2, <3>3 DEF FileInv
  <2> QED BY <2>1, <2>2 DEF PlainInv, MemoryInv, NetworkType, TypeOK
<1>2. Init => TypeInv
  BY TypeInit
<1>3. FileInv /\ TypeInv /\ [Next]_vars => TypeInv'
  BY TypeStep
<1> QED BY <1>1, <1>2, <1>3, FileIsKept, PTL DEF Spec

(* The editor shows an octet that is no byte only after the first digit was    *)
(* counted down from 0 before 56 to 59 (ip_assigner.c:235-350).                *)
THEOREM OverflowsOnlyFrom56 == Spec => OverflowOnlyFrom56
<1>1. FileInv /\ TypeInv /\ [Next]_vars =>
        [ShownOctet <= 255 /\ ShownOctet' > 255 => selector = 0 /\ ShownOctet \in 56..59]_vars
  <2> SUFFICES ASSUME EditorInv, PlainInv, Next
               PROVE  ShownOctet <= 255 /\ ShownOctet' > 255 => selector = 0 /\ ShownOctet \in 56..59
    BY DEF TypeInv, vars
  <2>1. CASE TypeIp
    BY <2>1, PressStep
  <2>2. CASE OpenIp
    <3>1. address[0] \in Byte
      BY DEF EditorInv
    <3>2. ShownOctet' = address[0]
      BY <2>2, <3>1, DigitsOf DEF OpenIp, ShownOctet
    <3> QED BY <3>1, <3>2 DEF Byte
  <2>3. CASE Confirm \/ Leave \/ Off
    <3>1. digits' = [p \in 0..2 |-> 0]
      BY <2>3 DEF Confirm, Leave, Forget, Off, NoDigits
    <3>2. ShownOctet' = 0
      BY <3>1 DEF ShownOctet, Editor!ShownIn
    <3> QED BY <3>2
  <2>4. CASE digits' = digits
    <3>1. ShownOctet' = ShownOctet
      BY <2>4 DEF ShownOctet, Editor!ShownIn
    <3>2. ShownOctet \in Nat
      BY DEF EditorInv, ShownOctet, Editor!ShownIn
    <3> QED BY <3>1, <3>2
  <2>5. Next => TypeIp \/ OpenIp \/ Confirm \/ Leave \/ Off \/ digits' = digits
    BY DEF Next, Start, OpenMac, GetLease, RandomMac, TypeMac, SaveOpen, SaveHeader, SaveField,
           editorVars
  <2> QED BY <2>1, <2>2, <2>3, <2>4, <2>5
<1>2. Spec => [](FileInv /\ TypeInv)
  BY TypeInit, TypeStep, FileIsKept, PTL DEF Spec
<1>3. Spec => [][Next]_vars
  BY PTL DEF Spec
<1> QED BY <1>1, <1>2, <1>3, PTL DEF OverflowOnlyFrom56
=============================================================================
