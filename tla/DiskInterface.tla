---------------------------- MODULE DiskInterface ----------------------------
(***************************************************************************)
(* What the libtorrent session expects of a disk_interface: every torrent  *)
(* has a storage of its own; a call takes effect at once and is answered   *)
(* once, in the order of the calls, with the result it had when it was     *)
(* made; and a storage is only given up after the last of its answers.     *)
(***************************************************************************)
EXTENDS Integers, Sequences

CONSTANTS Torrents, Pieces

VARIABLES
  opened,   \* the torrent of each storage ever made
  open,     \* the storages in use
  content,  \* what a read of each piece of each storage gives
  calls     \* the calls not answered yet, with their results

vars == <<opened, open, content, calls>>

Contents == {"none", "good", "bad"}
Calls == {"check", "write", "read", "hash", "clear", "release", "stop", "other"}
Call == [call : Calls, of : Nat, piece : Pieces, result : Contents]

Init == opened = <<>> /\ open = {} /\ content = <<>> /\ calls = <<>>

Open ==
  /\ \E t \in Torrents : opened' = Append(opened, t)
  /\ open' = open \union {Len(opened) + 1}
  /\ content' = Append(content, [p \in Pieces |-> "none"])
  /\ calls' = Append(calls, [call |-> "check", of |-> Len(opened) + 1,
                             piece |-> CHOOSE p \in Pieces : TRUE, result |-> "none"])

\* A read or a hash is answered with the content of this moment.
Asked(kind, s, p) ==
  calls' = Append(calls, [call |-> kind, of |-> s, piece |-> p,
                          result |-> IF kind \in {"read", "hash"} THEN content[s][p] ELSE "none"])

Ask ==
  /\ \E s \in open, p \in Pieces, kind \in {"read", "hash", "stop", "release", "other"} :
       Asked(kind, s, p)
  /\ UNCHANGED <<opened, open, content>>

Write ==
  /\ \E s \in open, p \in Pieces, c \in {"good", "bad"} :
       /\ Asked("write", s, p)
       /\ content' = [content EXCEPT ![s][p] = c]
  /\ UNCHANGED <<opened, open>>

Clear ==
  /\ \E s \in open, p \in Pieces :
       /\ Asked("clear", s, p)
       /\ content' = [content EXCEPT ![s][p] = "none"]
  /\ UNCHANGED <<opened, open>>

Answer ==
  /\ calls # <<>>
  /\ Head(calls).call # "stop"
  /\ calls' = Tail(calls)
  /\ UNCHANGED <<opened, open, content>>

\* The answer to its last call gives the storage up.
Close ==
  /\ calls # <<>>
  /\ Head(calls).call = "stop"
  /\ Head(calls).of \in open
  /\ \A i \in 2 .. Len(calls) : calls[i].of # Head(calls).of
  /\ open' = open \ {Head(calls).of}
  /\ content' = [content EXCEPT ![Head(calls).of] = [p \in Pieces |-> "none"]]
  /\ calls' = Tail(calls)
  /\ UNCHANGED opened

Next == Open \/ Ask \/ Write \/ Clear \/ Answer \/ Close

Spec == Init /\ [][Next]_vars
=============================================================================
