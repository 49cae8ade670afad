---------------------------- MODULE HistoryStore ----------------------------
(* What the saved results of Passive Discovery promise to the application: a  *)
(* set of observations, at most one per <<MAC, protocol>> and never more than *)
(* MaxRecords, that one call changes as a whole or not at all.  A call that   *)
(* fails, and a power cut, leave every saved observation as it was.           *)
EXTENDS Naturals, FiniteSets

CONSTANTS
    Macs,           \* source addresses
    Protocols,      \* LLDP, CDP, EAPOL
    Infos,          \* what an observation says, as far as a reader can tell
    All,            \* the filter that matches every protocol
    MaxRecords      \* PASSIVE_HISTORY_MAX_RECORDS

VARIABLES
    store,          \* the saved observations
    heard,          \* the live observations of the running application
    result          \* what the last merge or clear returned

storeVars == <<store, heard, result>>

Records == [mac : Macs, protocol : Protocols, info : Infos]
Filters == Protocols \cup {All}
KeyOf(r) == <<r.mac, r.protocol>>
Keys(S) == {KeyOf(r) : r \in S}
Selected(S, f) == {r \in S : f \in {All, r.protocol}}

Init ==
    /\ store \in {S \in SUBSET Records : /\ Cardinality(S) <= MaxRecords
                                         /\ Cardinality(Keys(S)) = Cardinality(S)}
    /\ heard = {}
    /\ result = FALSE

(* The application hears, forgets or re-reads live observations.              *)
Listen == heard' \in SUBSET Records /\ UNCHANGED <<store, result>>

(* A successful merge: a saved observation heard again takes the new content, *)
(* every other one is kept, and new ones are added while there is room.       *)
Merge(f) ==
    LET fresh  == Selected(heard, f)
        kept   == {r \in store : KeyOf(r) \notin Keys(fresh)}
        update == {r \in fresh : KeyOf(r) \in Keys(store)}
        new    == fresh \ update
        room   == MaxRecords - Cardinality(store)
    IN  /\ \E added \in SUBSET new :
              /\ \/ added = new /\ Cardinality(new) <= room
                 \/ Cardinality(added) = room
              /\ store' = kept \cup update \cup added
        /\ result' = TRUE
        /\ UNCHANGED heard

Clear(f) == store' = store \ Selected(store, f) /\ result' = TRUE /\ UNCHANGED heard

Fail == result' = FALSE /\ UNCHANGED <<store, heard>>

PowerCut == heard' = {} /\ result' = FALSE /\ UNCHANGED store

Next == Listen \/ Fail \/ PowerCut \/ \E f \in Filters : Merge(f) \/ Clear(f)

Spec == Init /\ [][Next]_storeVars
=============================================================================
