------------------------------- MODULE ObjectStore -------------------------------
(***************************************************************************)
(* What the users of a storage rely on: the contract of Storage.Put        *)
(* (storecrypt/storage.go), whatever backend, compression and encryption   *)
(* stand behind it.                                                        *)
(*                                                                         *)
(* A Put reads its source to the end and stores what it read.  It succeeds *)
(* only after the end of the source was seen, and then the object holds    *)
(* all of it.  While it runs, and after it failed, an atomic store shows   *)
(* the old object or the whole new one, any other store also a prefix.     *)
(* A content is a number of chunks: objects are written front to back.     *)
(***************************************************************************)
EXTENDS Integers

CONSTANTS
    Names,       \* the names objects can have
    MaxChunks    \* bound: chunks of a source

VARIABLES
    atomic,      \* the store never shows a part of an object
    objects,     \* objects[n]: the chunks stored under n, or NoObject
    put          \* the Put under way, or the last one

vars == <<atomic, objects, put>>

NoObject == -1
\* A Put that has read nothing yet, or has returned: its name and its result.
Result(n, r) == [name |-> n, given |-> 0, end |-> "open", res |-> r]

Running == put.res = "running"

Begin ==
    /\ ~Running
    /\ \E n \in Names : put' = Result(n, "running")
    /\ UNCHANGED <<atomic, objects>>

\* The source yields a chunk, its end, or an error.
Take ==
    /\ Running /\ put.end = "open"
    /\ put.given < MaxChunks
    /\ put' = [put EXCEPT !.given = @ + 1]
    /\ UNCHANGED <<atomic, objects>>

SourceEnds ==
    /\ Running /\ put.end = "open"
    /\ \E e \in {"eof", "error"} : put' = [put EXCEPT !.end = e]
    /\ UNCHANGED <<atomic, objects>>

\* What was stored so far becomes visible.
Show ==
    \E k \in 0..put.given :
        /\ atomic => put.end = "eof" /\ k = put.given
        /\ objects' = [objects EXCEPT ![put.name] = k]

Expose ==
    /\ Running
    /\ Show
    /\ UNCHANGED <<atomic, put>>

Succeed ==
    /\ Running /\ put.end = "eof"
    /\ objects' = [objects EXCEPT ![put.name] = put.given]
    /\ put' = Result(put.name, "ok")
    /\ UNCHANGED atomic

\* The call that failed may have taken effect.
Fail ==
    /\ Running
    /\ put' = Result(put.name, "err")
    /\ Show \/ UNCHANGED objects
    /\ UNCHANGED atomic

\* The process that called Put is gone.
Crash ==
    /\ put' = Result(put.name, "none")
    /\ UNCHANGED <<atomic, objects>>

Init ==
    /\ atomic \in BOOLEAN
    /\ objects = [n \in Names |-> NoObject]
    /\ \E n \in Names : put = Result(n, "none")

Next == Begin \/ Take \/ SourceEnds \/ Expose \/ Succeed \/ Fail \/ Crash

Spec == Init /\ [][Next]_vars
=================================================================================
