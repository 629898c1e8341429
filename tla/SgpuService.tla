---------------------------- MODULE SgpuService ----------------------------
(***************************************************************************)
(* What an SGPU session promises its client, without frames and without    *)
(* the device: a handle names a private buffer from its creation to its    *)
(* destruction, and only the command lists clients ask for and the host    *)
(* change what it holds.                                                   *)
(*                                                                         *)
(* A request is a record [op, arg, list]: "create" a buffer of arg bytes,  *)
(* "destroy" the handle arg, "submit" a list of commands, or an "other"    *)
(* request that concerns no buffer.                                        *)
(***************************************************************************)
EXTENDS Naturals, Sequences

CONSTANTS Byte, MaxBytes

VARIABLES
    contents,  \* the live handles and what their buffers hold
    issued,    \* every handle at or below this number has been used
    asked,     \* the last request
    answer     \* its outcome, and the handle it returned

vars == <<contents, issued, asked, answer>>

\* A command is a kind and three operands: <<"copy", src, dst, n>> copies the
\* first n bytes of src over those of dst; no other kind can run.
Command == {"copy", "present", "clear", "compute"} \X Nat \X Nat \X Nat
Request == [op : {"create", "destroy", "submit", "other"}, arg : Nat,
            list : Seq(Command)]

Live == DOMAIN contents

Answer(err, handle) == answer' = [err |-> err, handle |-> handle]

Init ==
    /\ contents = [h \in {} |-> <<>>]
    /\ issued = 0
    /\ asked = [op |-> "other", arg |-> 0, list |-> <<>>]
    /\ answer = [err |-> "none", handle |-> 0]

\* A new buffer reads zero, under a handle that no buffer ever had.
Create ==
    /\ asked'.op = "create"
    /\ asked'.arg \in 1..MaxBytes
    /\ issued' = issued + 1
    /\ contents' = [h \in Live \cup {issued'} |->
                       IF h = issued' THEN [i \in 1..asked'.arg |-> 0]
                       ELSE contents[h]]
    /\ Answer("ok", issued')

\* The handle is gone even when the device reports that it could not free
\* the memory.
Destroy ==
    /\ asked'.op = "destroy"
    /\ asked'.arg \in Live
    /\ contents' = [h \in Live \ {asked'.arg} |-> contents[h]]
    /\ UNCHANGED issued
    /\ \E err \in {"ok", "Gpu"} : Answer(err, 0)

Named(cmd) ==
    CASE cmd[1] = "copy" -> {cmd[2], cmd[3]}
      [] cmd[1] = "present" -> {cmd[2]}
      [] OTHER -> {}
Missing(list) == {i \in 1..Len(list) : ~(Named(list[i]) \subseteq Live)}
Runs(cmd) ==
    /\ cmd[1] = "copy"
    /\ \A h \in Named(cmd) : cmd[4] <= Len(contents[h])
Copied(val, cmd) ==
    [val EXCEPT ![cmd[3]] =
        [i \in DOMAIN @ |-> IF i <= cmd[4] THEN val[cmd[2]][i] ELSE @[i]]]
After(list, n) ==
    LET done[k \in 0..n] ==
            IF k = 0 THEN contents ELSE Copied(done[k - 1], list[k])
    IN  done[n]

\* The commands of a list take effect in order and together. A list with a
\* command of another kind has no effect at all, whatever stands before it; a
\* list whose copies do not all fit may leave the effect of a first part.
Transfer ==
    /\ asked'.op = "submit"
    /\ Missing(asked'.list) = {}
    /\ \E k \in 0..Len(asked'.list) :
          /\ \A i \in 1..k : Runs(asked'.list[i])
          /\ k > 0 => \A i \in 1..Len(asked'.list) : asked'.list[i][1] = "copy"
          /\ contents' = After(asked'.list, k)
          /\ Answer(IF k = Len(asked'.list) THEN "ok" ELSE "Gpu", 0)
    /\ UNCHANGED issued

\* A refusal changes nothing, and no live handle is reported as missing.
Refuse ==
    /\ UNCHANGED <<contents, issued>>
    /\ \/ \E err \in {"Eabi", "Erange", "Payload"} : Answer(err, 0)
       \/ asked'.op = "create" /\ Answer("ResourceLimit", 0)
       \/ /\ \/ asked'.op = "destroy" /\ asked'.arg \notin Live
             \/ asked'.op = "submit" /\ Missing(asked'.list) # {}
          /\ Answer("ResourceNotFound", 0)

Other ==
    /\ asked'.op = "other"
    /\ UNCHANGED <<contents, issued>>
    /\ Answer("ok", 0)

\* The host's own access to device memory: one live buffer, or none.
HostWrite ==
    /\ asked' = [op |-> "other", arg |-> 0, list |-> <<>>]
    /\ Answer("none", 0)
    /\ UNCHANGED issued
    /\ \/ UNCHANGED contents
       \/ \E h \in Live : \E buffer \in [DOMAIN contents[h] -> Byte] :
             contents' = [contents EXCEPT ![h] = buffer]

Next ==
    \/ asked' \in Request /\ (Create \/ Destroy \/ Transfer \/ Refuse \/ Other)
    \/ HostWrite

Spec == Init /\ [][Next]_vars
=============================================================================
