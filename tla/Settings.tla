------------------------------ MODULE Settings ------------------------------
(* The settings of the application: what is in memory (app_user.c), how its     *)
(* scenes change it (SettingsScene.c, with the address editor of IpEditor), and *)
(* the file it is saved to when the application ends and loaded from when it    *)
(* starts (settings.c).  A write may fail and the power may go at any point.    *)
(*                                                                              *)
(* One octet stands for the four of an address and for the six of a MAC.  The   *)
(* scan parameters, the last fields of the file, are left out.                  *)
EXTENDS Naturals, Sequences

CONSTANTS
    Octets,         \* of IpEditor
    DefaultIp,      \* IP_DEFAULT
    DefaultMac,     \* MAC_INITIAL
    Macs,           \* MACs a user gives the device
    Leases,         \* what DORA acquires: [ip, subnet, gateway, gwMac]
    OldFiles,       \* what earlier versions left on the card
    MaxChanges      \* bound: leases, new MACs and digits changed

VARIABLES
    digits, selector, address,  \* of IpEditor; address is ethernet->ip_address
    app,            \* the other settings in memory
    chipMac,        \* the MAC in the registers of the chip
    scene,          \* "off", "menu", "edit ip", "edit mac", "saving"
    changes,        \* counted against MaxChanges
    file,           \* its version, 0 without a header, and the fields written
    kept            \* history: what memory held when the file was last opened to save

editorVars == <<digits, selector, address>>
vars == <<editorVars, app, chipMac, scene, changes, file, kept>>

Editor == INSTANCE IpEditor

Byte == 0..255

(* Every field is read as bytes, or as a flag.                                  *)
ASSUME SettingsAssumption ==
    /\ Octets = 1 /\ MaxChanges \in Nat
    /\ DefaultIp \in 1..255 /\ DefaultMac \in 1..254 /\ Macs \subseteq Byte
    /\ Leases \subseteq [ip : Byte, subnet : Byte, gateway : Byte, gwMac : Byte]
    /\ \A f \in OldFiles :
          /\ f.version \in {1, 2} /\ Len(f.fields) \in 0..6
          /\ \A i \in 1..Len(f.fields) : f.fields[i] \in IF i \in {3, 4} THEN BOOLEAN ELSE Byte

(* The fields in the order they are written and read.                           *)
Names == <<"mac", "ip", "static", "dora", "gateway", "gwMac", "subnet">>
Position(n) == CHOOSE i \in DOMAIN Names : Names[i] = n

-----------------------------------------------------------------------------
(* settings_subnet_is_valid: ones, at least one, and then zeros.                *)
SubnetIsValid(m) == m \in {128, 192, 224, 240, 248, 252, 254, 255}

(* settings_mac_is_valid: not all zeros, not all ones, not a group address.     *)
MacIsValid(m) == m \notin {0, 255} /\ m % 2 = 0

(* settings_dora_tuple_is_valid                                                 *)
TupleIsValid(t) ==
    t.ip # 0 /\ SubnetIsValid(t.subnet) /\ t.gateway # 0 /\ MacIsValid(t.gwMac)

Memory == [n \in {"mac", "ip", "static", "dora", "gateway", "gwMac", "subnet"} |->
              IF n = "ip" THEN address[0] ELSE app[n]]

(* What settings_save writes: is_dora only with a tuple that is valid.          *)
Written == [Memory EXCEPT !.dora = @ /\ TupleIsValid(Memory)]

TypeOK ==
    /\ Editor!TypeOK
    /\ app \in [mac : Byte, static : BOOLEAN, dora : BOOLEAN,
                subnet : Byte, gateway : Byte, gwMac : Byte]
    /\ chipMac \in Byte
    /\ scene \in {"off", "menu", "edit ip", "edit mac", "saving"}
    /\ changes \in 0..MaxChanges
    /\ file.version \in 0..3 /\ Len(file.fields) <= Len(Names)

Empty == [version |-> 0, fields |-> <<>>]

(* The defaults of app_alloc and enc28j60_alloc.                                *)
DefaultApp == [mac |-> DefaultMac, static |-> FALSE, dora |-> FALSE,
               subnet |-> 0, gateway |-> 0, gwMac |-> 0]
DefaultAddress == [o \in 0..0 |-> DefaultIp]
NoDigits == [p \in 0..2 |-> 0]

Init ==
    /\ scene = "off" /\ changes = 0
    /\ address = DefaultAddress /\ digits = NoDigits /\ selector = 0
    /\ app = DefaultApp
    /\ chipMac = DefaultMac
    /\ file \in OldFiles \cup {Empty}
    /\ kept = Memory

-----------------------------------------------------------------------------
(* app_alloc: defaults, then settings_load.                                     *)

(* Variant: a load that knows the versions before the subnet mask was added.    *)
ReadableUpTo2 == file.version \in {1, 2}
Readable == file.version \in {1, 2, 3}

Has(n) == Readable /\ Position(n) <= Len(file.fields)
Field(n, default) == IF Has(n) THEN file.fields[Position(n)] ELSE default

Loaded == [ip      |-> Field("ip", 0),
           subnet  |-> IF file.version = 3 THEN Field("subnet", 0) ELSE 0,
           gateway |-> Field("gateway", 0),
           gwMac   |-> Field("gwMac", 0)]

(* Variant: is_dora is taken from the file whatever follows it there.           *)
GrantsUnchecked == Field("dora", FALSE)
Grants ==
    /\ Field("dora", FALSE)
    /\ Has("ip") /\ Has("subnet") /\ Has("gateway") /\ Has("gwMac")
    /\ TupleIsValid(Loaded)

Start ==
    /\ scene = "off"
    /\ scene' = "menu"
    /\ address' = [o \in 0..0 |-> Field("ip", DefaultIp)]
    /\ app' = [mac     |-> Field("mac", DefaultMac),
               static  |-> Field("static", FALSE),
               dora    |-> Grants,
               subnet  |-> IF Grants THEN Loaded.subnet ELSE 0,
               gateway |-> IF Grants THEN Loaded.gateway ELSE 0,
               gwMac   |-> IF Grants THEN Loaded.gwMac ELSE 0]
    /\ chipMac' = app'.mac
    /\ UNCHANGED <<digits, selector, changes, file, kept>>

-----------------------------------------------------------------------------
(* The scenes.                                                                  *)

Change == changes < MaxChanges /\ changes' = changes + 1

(* DORA, in its own module: a whole lease with its flags, or one whose exchange *)
(* was cancelled after the tuple was copied, or after the mask and the MAC were.*)
GetLease(l) ==
    /\ scene = "menu"
    /\ Change
    /\ \/ /\ address' = [o \in 0..0 |-> l.ip]
          /\ \E flag \in BOOLEAN :
                app' = [app EXCEPT !.subnet = l.subnet, !.gateway = l.gateway, !.gwMac = l.gwMac,
                                   !.dora = @ \/ flag, !.static = @ \/ flag]
       \/ /\ app' = [app EXCEPT !.subnet = l.subnet, !.gwMac = l.gwMac]
          /\ UNCHANGED address
    /\ UNCHANGED <<digits, selector, chipMac, scene, file, kept>>

(* callback_random_mac                                                          *)
RandomMac(m) ==
    /\ scene = "menu"
    /\ Change
    /\ app' = [app EXCEPT !.mac = m]
    /\ chipMac' = m
    /\ UNCHANGED <<editorVars, scene, file, kept>>

(* mac_set_address_view; the byte editor changes the caller's bytes.            *)
OpenMac ==
    /\ scene = "menu"
    /\ scene' = "edit mac"
    /\ UNCHANGED <<editorVars, app, chipMac, changes, file, kept>>

TypeMac(m) ==
    /\ scene = "edit mac"
    /\ Change
    /\ app' = [app EXCEPT !.mac = m]
    /\ UNCHANGED <<editorVars, chipMac, scene, file, kept>>

(* ip_set_address_view                                                          *)
OpenIp ==
    /\ scene = "menu"
    /\ scene' = "edit ip"
    /\ digits' = [p \in 0..2 |-> Editor!Digit(address[0], 2 - p)]
    /\ selector' = 0
    /\ UNCHANGED <<address, app, chipMac, changes, file, kept>>

TypeIp ==
    /\ scene = "edit ip"
    /\ \/ (Editor!Left \/ Editor!Right) /\ UNCHANGED changes
       \/ /\ Change
          /\ Editor!Up \/ Editor!Down
    /\ UNCHANGED <<app, chipMac, scene, file, kept>>

(* An editor is left; ip_assigner_reset clears its digits before the next use.  *)
Forget ==
    /\ scene' = "menu"
    /\ digits' = NoDigits /\ selector' = 0
    /\ UNCHANGED address

(* settings_input_byte_address                                                  *)
Confirm ==
    /\ \/ scene = "edit mac" /\ chipMac' = app.mac /\ UNCHANGED app
       \/ /\ scene = "edit ip"
          /\ app' = [app EXCEPT !.static = TRUE, !.dora = TRUE]
          /\ UNCHANGED chipMac
    /\ Forget
    /\ UNCHANGED <<changes, file, kept>>

(* BACK leaves the editors with what they have changed.                         *)
Leave ==
    /\ scene \in {"edit ip", "edit mac"}
    /\ Forget
    /\ UNCHANGED <<app, chipMac, changes, file, kept>>

-----------------------------------------------------------------------------
(* app_free and settings_save.                                                  *)

(* flipper_format_file_open_always, which truncates.                            *)
SaveOpen ==
    /\ scene = "menu" /\ scene' = "saving"
    /\ kept' = Memory
    /\ file' = Empty
    /\ UNCHANGED <<editorVars, app, chipMac, changes>>

SaveHeader ==
    /\ scene = "saving" /\ file.version = 0
    /\ file' = [file EXCEPT !.version = 3]
    /\ UNCHANGED <<editorVars, app, chipMac, scene, changes, kept>>

SaveField ==
    /\ scene = "saving" /\ file.version = 3 /\ Len(file.fields) < Len(Names)
    /\ file' = [file EXCEPT !.fields = Append(@, Written[Names[Len(@) + 1]])]
    /\ UNCHANGED <<editorVars, app, chipMac, scene, changes, kept>>

(* The last field, a write that failed, or an open that did: the application    *)
(* and its memory are gone.  A power cut has the same effect, at any time.      *)
Off ==
    /\ scene # "off"
    /\ scene' = "off"
    /\ address' = DefaultAddress /\ digits' = NoDigits /\ selector' = 0
    /\ app' = DefaultApp
    /\ chipMac' = DefaultMac
    /\ UNCHANGED <<changes, file, kept>>

Next ==
    \/ Start \/ OpenMac \/ OpenIp \/ TypeIp \/ Confirm \/ Leave
    \/ \E l \in Leases : GetLease(l)
    \/ \E m \in Macs : RandomMac(m) \/ TypeMac(m)
    \/ SaveOpen \/ SaveHeader \/ SaveField \/ Off

Spec == Init /\ [][Next]_vars

-----------------------------------------------------------------------------
(* Properties.                                                                  *)

Starts == scene = "off" /\ scene' = "menu"
Whole == file.version = 3 /\ Len(file.fields) = Len(Names)

(* However old the file is, and wherever a write failed or the power went, a    *)
(* start takes the network for acquired only with a tuple that is valid and was *)
(* in memory as acquired, all of it at one time (settings.c:107-120, 151-180).  *)
RestoredTuple ==
    [][Starts /\ app'.dora =>
          /\ kept.dora /\ TupleIsValid(kept)
          /\ \A n \in {"ip", "subnet", "gateway", "gwMac"} : Memory'[n] = kept[n]]_vars

(* What a save wrote to its end, the next start reads: the MAC, the address and *)
(* whether it is static, and the network if its tuple was valid; and the MAC    *)
(* is also the chip's (settings.c:76-120, 151-196).                             *)
SavedIsRestored ==
    [][Starts /\ Whole =>
          /\ \A n \in {"mac", "ip", "static"} : Memory'[n] = kept[n]
          /\ app'.dora = (kept.dora /\ TupleIsValid(kept))
          /\ chipMac' = kept.mac]_vars

ShownOctet == Editor!ShownIn(digits, 0)

(* The editor shows an octet above 255 only after the first digit was counted   *)
(* down from 0 before 56 to 59: no other sequence of presses leads there        *)
(* (ip_assigner.c:235-350).                                                     *)
OverflowOnlyFrom56 ==
    [][ShownOctet <= 255 /\ ShownOctet' > 255 =>
          selector = 0 /\ ShownOctet \in 56..59]_vars

=============================================================================
