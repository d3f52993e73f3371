------------------------------- MODULE JobControl -------------------------------
(* What job control promises: a process started by the shell is in the            *)
(* foreground, suspended, or gone, and the shell takes a new line only when       *)
(* nothing is in the foreground, so it never loses track of one.                  *)
CONSTANT Processes

VARIABLES phase,      \* "prompt", "busy", "left" or "failed"
          status      \* of each process: "free", "foreground" or "suspended"

vars == <<phase, status>>

Foreground == {p \in Processes : status[p] = "foreground"}
Suspended  == {p \in Processes : status[p] = "suspended"}

Init == phase = "prompt" /\ status = [p \in Processes |-> "free"]

(* The shell takes a line; its processes then start one by one.                   *)
TakeLine ==
  /\ phase = "prompt" /\ phase' = "busy" /\ UNCHANGED status

Start(p) ==
  /\ phase = "busy" /\ status[p] = "free"
  /\ status' = [status EXCEPT ![p] = "foreground"] /\ UNCHANGED phase

(* A suspended process returns to the foreground.                                 *)
Resume(p) ==
  /\ phase = "prompt" /\ status[p] = "suspended"
  /\ status' = [status EXCEPT ![p] = "foreground"] /\ phase' = "busy"

(* A foreground process ends or is suspended; after the last the prompt returns.  *)
Leave(p) ==
  /\ phase = "busy" /\ status[p] = "foreground"
  /\ \E s \in {"free", "suspended"} : status' = [status EXCEPT ![p] = s]
  /\ IF Foreground = {p} THEN phase' = "prompt" ELSE UNCHANGED phase

(* The user leaves, only when nothing is suspended; or the shell gives up: at the *)
(* end of its input, with its table full, or when the system refuses a process.   *)
Quit == phase = "prompt" /\ Suspended = {} /\ phase' = "left" /\ UNCHANGED status

GiveUp ==
  /\ phase \in {"prompt", "busy"} /\ phase' = "failed" /\ UNCHANGED status

Next == \/ TakeLine \/ Quit \/ GiveUp
        \/ \E p \in Processes : Start(p) \/ Resume(p) \/ Leave(p)

Spec == Init /\ [][Next]_vars
================================================================================
