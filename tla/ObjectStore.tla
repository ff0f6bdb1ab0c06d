----------------------------- MODULE ObjectStore -----------------------------
(***************************************************************************)
(* LocalObjectStore (storage/object_store.py): objects are files named by  *)
(* the hash of their content and by the file name.  put looks whether the  *)
(* file is there, and if not has a thread write it in place: opening       *)
(* truncates the file, closing it makes it whole.  Between the look and    *)
(* the opening, and between the opening and the closing, other coroutines  *)
(* of the process go on.                                                   *)
(***************************************************************************)
EXTENDS Naturals

CONSTANTS
    Client,     \* coroutines that put
    Object      \* object keys

NoObject == "no object"

ASSUME ObjectAssumption == NoObject \notin Object

VARIABLES
    object,     \* what the file of each key holds
    put,        \* the write a client has under way
    torn        \* history: keys of which some write never finished

storeVars == <<object, put, torn>>

NoPut == [phase |-> "none", key |-> NoObject]

StoreTypeOK ==
    /\ object \in [Object -> {"absent", "partial", "whole"}]
    /\ put \in [Client -> {NoPut} \cup [phase : {"scheduled", "open"}, key : Object]]
    /\ torn \subseteq Object

StoreInit ==
    /\ object = [k \in Object |-> "absent"]
    /\ put = [c \in Client |-> NoPut]
    /\ torn = {}

\* exists: the name is there, whatever the file holds.
Exists(k) == object[k] # "absent"

\* Files that some client has open.
Open == {c \in Client : put[c].phase = "open"}

BeingWritten(k) == \E c \in Open : put[c].key = k

-----------------------------------------------------------------------------
\* put of a key whose file is there: nothing is written, put returns.
PutExisting(k) ==
    /\ Exists(k)
    /\ UNCHANGED storeVars

\* put of a key without a file: the writing is handed to a thread.
PutSchedule(c, k) ==
    /\ ~Exists(k)
    /\ put' = [put EXCEPT ![c] = [phase |-> "scheduled", key |-> k]]
    /\ UNCHANGED <<object, torn>>

\* The thread opens the file, which another thread may have written since.
PutOpen(c) ==
    /\ put[c].phase = "scheduled"
    /\ put' = [put EXCEPT ![c].phase = "open"]
    /\ object' = [object EXCEPT ![put[c].key] = "partial"]
    /\ UNCHANGED torn

\* It has written everything.  A thread that truncated the file meanwhile may
\* have left a gap that only its own writing fills.
PutComplete(c) ==
    LET k == put[c].key
        others == \E d \in Open \ {c} : put[d].key = k
    IN
    /\ put[c].phase = "open"
    /\ put' = [put EXCEPT ![c] = NoPut]
    /\ \E content \in {"whole"} \cup (IF others THEN {"partial"} ELSE {}) :
            object' = [object EXCEPT ![k] = content]
    /\ UNCHANGED torn

\* The writing raises in the middle: what has been written stays.
PutFail(c) ==
    /\ put[c].phase = "open"
    /\ put' = [put EXCEPT ![c] = NoPut]
    /\ torn' = torn \cup {put[c].key}
    /\ UNCHANGED object

\* The process dies with its threads.
PutsLost ==
    /\ put' = [c \in Client |-> NoPut]
    /\ torn' = torn \cup {put[c].key : c \in Open}
    /\ UNCHANGED object

-----------------------------------------------------------------------------
\* Nothing but an unfinished write leaves a file in part.
OnlyTornPartial ==
    \A k \in Object : object[k] = "partial" => BeingWritten(k) \/ k \in torn
=============================================================================
