------------------------ MODULE RevisionedRegister ------------------------
(***************************************************************************)
(* Optimistic concurrency as a client of a revisioned row understands it.  *)
(* A row holds a value and the number of writes it has seen.  A client     *)
(* sends a value with the revision it believes the row has; the write is   *)
(* granted, once and atomically, when that is the revision of the row, and *)
(* refused otherwise.  An answer may get lost, the write it is about not.  *)
(***************************************************************************)
EXTENDS Naturals

CONSTANTS
    Client,
    Key,
    Value,
    Blank      \* the value of a row never written

VARIABLES
    row,   \* [value, revision] of each key
    call   \* the call of each client, at most one at a time

vars == <<row, call>>

Unwritten == [value |-> Blank, revision |-> 0]
NoCall == [answer |-> "idle"]

Pending == [key : Key, value : Value, expected : Nat, answer : {"pending"}]

Init ==
    /\ row = [k \in Key |-> Unwritten]
    /\ call = [c \in Client |-> NoCall]

\* Whatever the client sends.
Invoke(c) ==
    /\ call[c] = NoCall
    /\ call'[c] \in Pending
    /\ call' = [call EXCEPT ![c] = call'[c]]
    /\ UNCHANGED row

\* The only step that changes a row: it changes one, by one revision.
Grant(c) ==
    /\ call[c].answer = "pending"
    /\ call[c].expected = row[call[c].key].revision
    /\ row' = [row EXCEPT ![call[c].key] =
                    [value |-> call[c].value, revision |-> call[c].expected + 1]]
    /\ call' = [call EXCEPT ![c].answer = "granted"]

Refuse(c) ==
    /\ call[c].answer = "pending"
    /\ call[c].expected # row[call[c].key].revision
    /\ call' = [call EXCEPT ![c].answer = "refused"]
    /\ UNCHANGED row

Lose(c) ==
    /\ call[c].answer \in {"pending", "granted", "refused"}
    /\ call' = [call EXCEPT ![c].answer = "lost"]
    /\ UNCHANGED row

\* The client takes the answer, or is gone before it comes.
Return(c) ==
    /\ call[c] # NoCall
    /\ call' = [call EXCEPT ![c] = NoCall]
    /\ UNCHANGED row

Next ==
    \E c \in Client :
        \/ Invoke(c)
        \/ Grant(c)
        \/ Refuse(c)
        \/ Lose(c)
        \/ Return(c)

Spec == Init /\ [][Next]_vars
============================================================================
