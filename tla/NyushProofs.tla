------------------------------- MODULE NyushProofs -------------------------------
(* The safety properties of Nyush, and that it implements JobControl, proved for  *)
(* every set of process ids and command lines and every length of a pipeline and  *)
(* of the table of jobs.                                                          *)
EXTENDS Nyush, TLAPS

Job == [pid : Pids, command : Text, index : Nat]

(* The stages that have been forked and not yet been waited for.                  *)
Pending == IF spc = "fork" THEN 1 .. Len(pids)
           ELSE IF spc = "wait" THEN stage .. stages ELSE {}
Awaited(p) == \E n \in Pending : pids[n] = p

(* The inductive invariant, by part.                                              *)

(* How far execute_command has come.                                              *)
CommandInv ==
  /\ spc = "fork" => Len(pids) < stages
  /\ spc = "wait" => Len(pids) = stages /\ stage \in 1 .. stages
  /\ spc \in {"fork", "wait"} => cmd \in Commands

(* A pending stage is a child of its own, of this command, that is no job yet.    *)
PendingInv ==
  \A n \in Pending :
    /\ proc[pids[n]] # "none" /\ ~Listed(pids[n]) /\ cmdOf[pids[n]] = cmd
    /\ \A m \in Pending : pids[m] = pids[n] => m = n

(* A job is a child of its own, listed under what add_job keeps of its command.   *)
TableInv ==
  \A n \in DOMAIN jobs :
    /\ proc[jobs[n].pid] # "none" /\ jobs[n].command = Kept(cmdOf[jobs[n].pid])
    /\ \A m \in DOMAIN jobs : jobs[m].pid = jobs[n].pid => m = n

(* fg waits for a job, and has copied its command.                                *)
FgInv ==
  spc = "fg" => /\ fg \in [pid : Pids, command : Text]
                /\ Listed(fg.pid) /\ fg.command = strdup(Kept(cmdOf[fg.pid]))

(* Every child is waited for or in the table.                                     *)
ChildrenInv ==
  spc # "exited" => \A p \in Pids : proc[p] # "none" => Listed(p) \/ Awaited(p)

IInv == TypeOK /\ CommandInv /\ PendingInv /\ TableInv /\ FgInv /\ ChildrenInv

--------------------------------------------------------------------------------
(* Lemmas about the table of jobs and about the kernel.                           *)

(* What taking an element out of a sequence leaves.                               *)
LEMMA RemoveAtProperties ==
  ASSUME NEW S, NEW s \in Seq(S), NEW k \in 1 .. Len(s)
  PROVE  /\ RemoveAt(s, k) \in Seq(S) /\ Len(RemoveAt(s, k)) = Len(s) - 1
         /\ \A n \in 1 .. Len(s) - 1 :
              RemoveAt(s, k)[n] = IF n < k THEN s[n] ELSE s[n + 1]
<1> DEFINE a == SubSeq(s, 1, k - 1)
           b == SubSeq(s, k + 1, Len(s))
<1>1. a \in Seq(S) /\ Len(a) = k - 1 /\ \A n \in 1 .. k - 1 : a[n] = s[n]
  OBVIOUS
<1>2. b \in Seq(S) /\ Len(b) = Len(s) - k /\ \A n \in 1 .. Len(s) - k : b[n] = s[k + n]
  OBVIOUS
<1>3. RemoveAt(s, k) = a \o b
  BY DEF RemoveAt
<1> HIDE DEF a, b
<1>4. \A u, v \in Seq(S) : /\ u \o v \in Seq(S) /\ Len(u \o v) = Len(u) + Len(v)
                           /\ \A n \in 1 .. Len(u) + Len(v) :
                                (u \o v)[n] = IF n <= Len(u) THEN u[n] ELSE v[n - Len(u)]
  OBVIOUS
<1>5. a \o b \in Seq(S) /\ Len(a \o b) = Len(s) - 1
  <2>1. a \o b \in Seq(S) /\ Len(a \o b) = Len(a) + Len(b)
    BY <1>1, <1>2, <1>4, Zenon
  <2>2. Len(s) \in Nat
    OBVIOUS
  <2> QED BY <1>1, <1>2, <2>1, <2>2
<1>6. \A n \in 1 .. Len(s) - 1 : (a \o b)[n] = IF n <= k - 1 THEN a[n] ELSE b[n - (k - 1)]
  BY <1>1, <1>2, <1>4
<1>7. \A n \in k .. Len(s) - 1 : b[n - (k - 1)] = s[n + 1]
  <2> SUFFICES ASSUME NEW n \in k .. Len(s) - 1 PROVE b[n - (k - 1)] = s[n + 1]
    OBVIOUS
  <2>1. n - (k - 1) \in 1 .. Len(s) - k /\ k + (n - (k - 1)) = n + 1
    OBVIOUS
  <2> QED BY <1>2, <2>1
<1> QED BY <1>1, <1>3, <1>5, <1>6, <1>7

LEMMA JobTypes ==
  ASSUME TypeOK, NEW n \in DOMAIN jobs
  PROVE  jobs[n] \in Job /\ jobs[n].pid \in Pids /\ jobs[n].command \in Text
<1>1. jobs \in Seq(Job)
  BY DEF TypeOK, Job
<1>2. \A S : \A js \in Seq(S) : \A k \in DOMAIN js : js[k] \in S
  OBVIOUS
<1>3. jobs[n] \in Job
  BY <1>1, <1>2, Zenon
<1> QED BY <1>3 DEF Job

(* The pending stages have been forked.                                           *)
LEMMA PendingForked ==
  ASSUME TypeOK, CommandInv, NEW n \in Pending
  PROVE  n \in 1 .. Len(pids) /\ pids[n] \in Pids
BY DEF TypeOK, CommandInv, Pending

(* A job that is listed once is at one place, and remove_job takes it out there.  *)
LEMMA Removed ==
  ASSUME TypeOK, TableInv, NEW p \in Pids, Listed(p)
  PROVE  /\ IndexOf(p) \in 1 .. Len(jobs) /\ jobs[IndexOf(p)].pid = p
         /\ remove_job(p) \in Seq(Job) /\ Len(remove_job(p)) = Len(jobs) - 1
         /\ \A n \in 1 .. Len(jobs) - 1 :
              remove_job(p)[n] = IF n < IndexOf(p) THEN jobs[n] ELSE jobs[n + 1]
<1>1. jobs \in Seq(Job) /\ DOMAIN jobs = 1 .. Len(jobs)
  BY DEF TypeOK, Job
<1>2. PICK n \in DOMAIN jobs : jobs[n].pid = p
  BY DEF Listed
<1>3. \A m \in 1 .. n - 1 : jobs[m].pid # p
  BY <1>1, <1>2 DEF TableInv
<1>4. IndexOf(p) \in DOMAIN jobs /\ jobs[IndexOf(p)].pid = p
  BY <1>2, <1>3 DEF IndexOf
<1>5. remove_job(p) = RemoveAt(jobs, IndexOf(p))
  BY DEF remove_job
<1> QED BY <1>1, <1>4, <1>5, RemoveAtProperties

(* The jobs that remain are those of the other processes, each once.              *)
LEMMA RemovedTable ==
  ASSUME TypeOK, TableInv, NEW p \in Pids, Listed(p), NEW js, js = remove_job(p)
  PROVE  /\ js \in Seq(Job) /\ Len(js) = Len(jobs) - 1
         /\ \A n \in DOMAIN js : /\ js[n].pid # p /\ \E m \in DOMAIN jobs : js[n] = jobs[m]
                                /\ \A m \in DOMAIN js : js[m].pid = js[n].pid => m = n
         /\ \A q \in Pids : Listed(q) /\ q # p => \E n \in DOMAIN js : js[n].pid = q
<1> DEFINE k == IndexOf(p)
<1>1. /\ k \in 1 .. Len(jobs) /\ jobs[k].pid = p
      /\ js \in Seq(Job) /\ Len(js) = Len(jobs) - 1
      /\ \A n \in 1 .. Len(jobs) - 1 : js[n] = IF n < k THEN jobs[n] ELSE jobs[n + 1]
  BY Removed
<1>2. /\ DOMAIN jobs = 1 .. Len(jobs) /\ DOMAIN js = 1 .. Len(jobs) - 1
      /\ Len(jobs) \in Nat
  BY <1>1 DEF TypeOK
<1> HIDE DEF k
<1>3. \A n, m \in DOMAIN jobs : jobs[n].pid = jobs[m].pid => n = m
  BY DEF TableInv
<1>4. \A n \in DOMAIN js : js[n].pid # p /\ \E m \in DOMAIN jobs : js[n] = jobs[m]
  <2> SUFFICES ASSUME NEW n \in DOMAIN js
               PROVE  js[n].pid # p /\ \E m \in DOMAIN jobs : js[n] = jobs[m]
    OBVIOUS
  <2>1. CASE n < k
    BY <1>1, <1>2, <1>3, <2>1
  <2>2. CASE n >= k
    <3>1. n + 1 \in DOMAIN jobs /\ n + 1 # k /\ js[n] = jobs[n + 1]
      BY <1>1, <1>2, <2>2
    <3> QED BY <1>1, <1>2, <1>3, <3>1
  <2> QED BY <1>1, <1>2, <2>1, <2>2
<1>5. \A n, m \in DOMAIN js : js[m].pid = js[n].pid => m = n
  <2> SUFFICES ASSUME NEW n \in DOMAIN js, NEW m \in DOMAIN js, js[m].pid = js[n].pid
               PROVE  m = n
    OBVIOUS
  <2>1. \A l \in DOMAIN js : \E a \in DOMAIN jobs : js[l] = jobs[a] /\ a = IF l < k THEN l ELSE l + 1
    BY <1>1, <1>2
  <2>2. PICK a \in DOMAIN jobs : js[m] = jobs[a] /\ a = IF m < k THEN m ELSE m + 1
    BY <2>1
  <2>3. PICK b \in DOMAIN jobs : js[n] = jobs[b] /\ b = IF n < k THEN n ELSE n + 1
    BY <2>1
  <2>4. a = b
    BY <1>3, <2>2, <2>3
  <2> QED BY <1>1, <1>2, <2>2, <2>3, <2>4
<1>6. \A q \in Pids : Listed(q) /\ q # p => \E n \in DOMAIN js : js[n].pid = q
  <2> SUFFICES ASSUME NEW q \in Pids, NEW a \in DOMAIN jobs, jobs[a].pid = q, q # p
               PROVE  \E n \in DOMAIN js : js[n].pid = q
    BY DEF Listed
  <2>1. CASE a < k
    <3>1. a \in DOMAIN js /\ js[a] = jobs[a]
      BY <1>1, <1>2, <2>1
    <3> QED BY <3>1
  <2>2. CASE a > k
    <3>1. a - 1 \in DOMAIN js /\ js[a - 1] = jobs[(a - 1) + 1] /\ (a - 1) + 1 = a
      BY <1>1, <1>2, <2>2
    <3> QED BY <3>1
  <2> QED BY <1>1, <1>2, <2>1, <2>2
<1> QED BY <1>1, <1>4, <1>5, <1>6

(* add_job appends.                                                               *)
LEMMA AddedTable ==
  ASSUME NEW js \in Seq(Job), NEW p \in Pids, NEW t \in Text, NEW ks, ks = Added(js, p, t)
  PROVE  /\ ks \in Seq(Job) /\ Len(ks) = Len(js) + 1
         /\ DOMAIN js = 1 .. Len(js) /\ DOMAIN ks = 1 .. Len(js) + 1
         /\ \A n \in DOMAIN js : n \in DOMAIN ks /\ ks[n] = js[n]
         /\ ks[Len(js) + 1].pid = p /\ ks[Len(js) + 1].command = strncpy(t)
<1> DEFINE j == [pid |-> p, command |-> strncpy(t), index |-> Len(js) + 1]
<1>0. strncpy(t) \in Text
  BY DEF Text, strncpy
<1>1. j \in Job /\ j.pid = p /\ j.command = strncpy(t)
  BY <1>0 DEF Job
<1>2. ks = Append(js, j)
  BY DEF Added
<1> HIDE DEF j
<1> QED BY <1>1, <1>2

(* add_job keeps the same of the command line and of the copy fg makes of what it *)
(* has kept: what the copy holds beyond the array is cut again.                   *)
LEMMA KeptAgain ==
  ASSUME NEW c
  PROVE  strncpy(Whole(c)) = Kept(c) /\ strncpy(strdup(Kept(c))) = Kept(c)
BY DEF Whole, Kept, strdup, strncpy

LEMMA TextTypes ==
  /\ \A c \in Commands : Whole(c) \in Text
  /\ \A t \in Text : strdup(t) \in Text
BY DEF Text, Whole, strdup

(* What the terminal, the programs and kill() change: no child comes or goes.     *)
KernelStep ==
  /\ proc' \in [Pids -> {"none", "fork", "half", "run", "stopped", "zombie"}]
  /\ \A p \in Pids : proc'[p] = "none" <=> proc[p] = "none"
  /\ interrupted' \subseteq Pids /\ reported' \subseteq reported /\ cmdOf' = cmdOf
  /\ partners' = partners

LEMMA ContinueKeeps ==
  ASSUME TypeOK, NEW p \in Pids, Continue(p), cmdOf' = cmdOf, partners' = partners
  PROVE  KernelStep
BY DEF TypeOK, Continue, Dies, KernelStep

LEMMA ChildKeeps ==
  ASSUME TypeOK, CtrlC \/ CtrlZ \/ \E p \in Pids : Child(p)
  PROVE  KernelStep /\ shell' = shell
<1>1. CASE CtrlC
  BY <1>1 DEF TypeOK, CtrlC, KernelStep
<1>2. CASE CtrlZ
  BY <1>2 DEF TypeOK, CtrlZ, KernelStep
<1>3. ASSUME NEW p \in Pids, Child(p) PROVE KernelStep /\ shell' = shell
  <2>1. CASE ResetSignals(p)
    BY <2>1 DEF TypeOK, ResetSignals, KernelStep
  <2>2. CASE Ends(p)
    BY <2>2 DEF TypeOK, Ends, Dies, KernelStep
  <2>3. CASE StopsItself(p)
    BY <2>3 DEF TypeOK, StopsItself, KernelStep
  <2>4. CASE Killed(p)
    BY <2>4 DEF TypeOK, Killed, Alive, Dies, KernelStep
  <2>5. CASE Continued(p)
    BY <2>5, ContinueKeeps DEF Continued
  <2> QED BY <1>3, <2>1, <2>2, <2>3, <2>4, <2>5 DEF Child
<1> QED BY <1>1, <1>2, <1>3

--------------------------------------------------------------------------------
(* The invariant is inductive.                                                    *)

LEMMA InitInv == Init => IInv
BY BoundsAssumption DEF Init, IInv, TypeOK, CommandInv, PendingInv, TableInv, FgInv, ChildrenInv,
   Pending, Listed, Awaited, kernel, command, shell

(* Steps that leave the shell alone.                                              *)
LEMMA KernelInv ==
  ASSUME IInv, KernelStep, shell' = shell
  PROVE  IInv'
<1> USE DEF IInv, KernelStep, shell, command
<1>1. TypeOK'
  BY DEF TypeOK
<1>2. CommandInv'
  BY DEF CommandInv
<1>3. PendingInv'
  BY PendingForked DEF PendingInv, Pending, Listed
<1>4. TableInv'
  <2>1. \A n \in DOMAIN jobs : jobs[n].pid \in Pids
    BY JobTypes
  <2> QED BY <2>1 DEF TableInv
<1>5. FgInv'
  BY DEF FgInv, Listed
<1>6. ChildrenInv'
  BY DEF ChildrenInv, Listed, Awaited, Pending
<1> QED BY <1>1, <1>2, <1>3, <1>4, <1>5, <1>6

(* Steps between two lines, and the exits.                                        *)
LEMMA QuietInv ==
  ASSUME IInv, kernel' = kernel, command' = command, jobs' = jobs, fg' = fg,
         cwd' \in {"there", "gone"},
         \/ spc' = spc \/ spc' = "exited"
         \/ spc \in {"prompt", "read"} /\ spc' \in {"prompt", "read"}
  PROVE  IInv'
<1> USE DEF IInv, kernel, command
<1>1. TypeOK'
  BY DEF TypeOK
<1>2. CommandInv'
  BY DEF CommandInv
<1>3. PendingInv'
  BY DEF PendingInv, Pending, Listed
<1>4. TableInv'
  BY DEF TableInv
<1>5. FgInv'
  BY DEF FgInv, Listed
<1>6. ChildrenInv'
  BY DEF ChildrenInv, Listed, Awaited, Pending
<1> QED BY <1>1, <1>2, <1>3, <1>4, <1>5, <1>6

LEMMA StartCommandInv ==
  ASSUME IInv, StartCommand
  PROVE  IInv'
<1> USE DEF IInv, StartCommand, kernel
<1>1. TypeOK'
  BY BoundsAssumption DEF TypeOK
<1>2. CommandInv'
  BY DEF CommandInv
<1>3. PendingInv'
  BY DEF PendingInv, Pending
<1>4. TableInv'
  BY DEF TableInv
<1>5. FgInv'
  BY DEF FgInv
<1>6. ChildrenInv'
  BY DEF ChildrenInv, Listed, Awaited, Pending
<1> QED BY <1>1, <1>2, <1>3, <1>4, <1>5, <1>6

(* The new child has no other job's or stage's process id.                        *)
LEMMA ForkInv ==
  ASSUME IInv, Fork
  PROVE  IInv'
<1>1. PICK p \in Pids : /\ proc[p] = "none" /\ proc' = [proc EXCEPT ![p] = "fork"]
                        /\ cmdOf' = [cmdOf EXCEPT ![p] = cmd] /\ pids' = Append(pids, p)
                        /\ partners' \in [Pids -> SUBSET Pids]
  <2>1. pids \in Seq(Pids) /\ partners \in [Pids -> SUBSET Pids]
    BY DEF IInv, TypeOK
  <2>2. ToSet(pids) \subseteq Pids
    BY <2>1 DEF ToSet
  <2>3. PICK p \in Pids : /\ proc[p] = "none" /\ proc' = [proc EXCEPT ![p] = "fork"]
                          /\ cmdOf' = [cmdOf EXCEPT ![p] = cmd] /\ pids' = Append(pids, p)
                          /\ partners' = [q \in Pids |->
                               IF q = p THEN ToSet(pids)
                               ELSE IF q \in ToSet(pids) THEN partners[q] \union {p}
                               ELSE partners[q]]
    BY DEF Fork
  <2>4. partners' \in [Pids -> SUBSET Pids]
    BY <2>1, <2>2, <2>3
  <2> QED BY <2>3, <2>4
<1>2. /\ spc = "fork" /\ jobs' = jobs /\ cmd' = cmd /\ stages' = stages /\ fg' = fg
      /\ interrupted' = interrupted /\ reported' = reported /\ cwd' = cwd
      /\ IF Len(pids) + 1 = stages THEN spc' = "wait" /\ stage' = 1
                                   ELSE spc' = spc /\ stage' = stage
  BY DEF Fork
<1>3. /\ pids \in Seq(Pids) /\ Len(pids) \in Nat /\ stages \in Nat /\ Len(pids) < stages
      /\ cmd \in Commands
  BY <1>2 DEF IInv, TypeOK, CommandInv
<1>4. /\ pids' \in Seq(Pids) /\ Len(pids') = Len(pids) + 1 /\ pids'[Len(pids) + 1] = p
      /\ \A n \in 1 .. Len(pids) : pids'[n] = pids[n] /\ pids[n] \in Pids
  BY <1>1, <1>3
<1>5. Pending = 1 .. Len(pids) /\ Pending' = 1 .. Len(pids) + 1
  BY <1>2, <1>3, <1>4 DEF Pending
<1>6. \A n \in DOMAIN jobs : jobs[n].pid \in Pids
  BY JobTypes DEF IInv
<1>7. \A q \in Pids : Listed(q) => proc[q] # "none"
  BY DEF IInv, TableInv, Listed
<1>8. TypeOK'
  BY <1>1, <1>2, <1>3, <1>4, BoundsAssumption DEF IInv, TypeOK
<1>9. CommandInv'
  BY <1>2, <1>3, <1>4 DEF CommandInv
<1>10. PendingInv'
  <2> SUFFICES ASSUME NEW n \in 1 .. Len(pids) + 1
               PROVE  /\ proc'[pids'[n]] # "none" /\ ~Listed(pids[n])'
                      /\ cmdOf'[pids'[n]] = cmd
                      /\ \A m \in 1 .. Len(pids) + 1 : pids'[m] = pids'[n] => m = n
    BY <1>2, <1>5 DEF PendingInv
  <2>1. \A m \in 1 .. Len(pids) : /\ pids[m] # p /\ proc[pids[m]] # "none"
                                 /\ ~Listed(pids[m]) /\ cmdOf[pids[m]] = cmd
                                 /\ \A l \in 1 .. Len(pids) : pids[l] = pids[m] => l = m
    BY <1>1, <1>5 DEF IInv, PendingInv
  <2>2. \A q : Listed(q)' <=> Listed(q)
    BY <1>2 DEF Listed
  <2>3. proc'[pids'[n]] # "none" /\ ~Listed(pids[n])' /\ cmdOf'[pids'[n]] = cmd
    <3>1. CASE n = Len(pids) + 1
      BY <1>1, <1>4, <1>7, <2>2, <3>1 DEF IInv, TypeOK
    <3>2. CASE n \in 1 .. Len(pids)
      BY <1>1, <1>4, <2>1, <2>2, <3>2 DEF IInv, TypeOK
    <3> QED BY <1>3, <3>1, <3>2
  <2>4. \A m \in 1 .. Len(pids) + 1 : pids'[m] = pids'[n] => m = n
    BY <1>3, <1>4, <2>1
  <2> QED BY <2>3, <2>4
<1>11. TableInv'
  <2>1. \A n \in DOMAIN jobs : jobs[n].pid # p
    BY <1>1, <1>7 DEF Listed
  <2> QED BY <1>1, <1>2, <1>6, <2>1 DEF IInv, TypeOK, TableInv
<1>12. FgInv'
  BY <1>2 DEF FgInv
<1>13. ChildrenInv'
  <2> SUFFICES ASSUME NEW q \in Pids, proc'[q] # "none"
               PROVE  Listed(q)' \/ Awaited(q)'
    BY DEF ChildrenInv
  <2>1. CASE q = p
    BY <1>3, <1>4, <1>5, <2>1 DEF Awaited
  <2>2. CASE q # p
    <3>1. Listed(q) \/ \E n \in 1 .. Len(pids) : pids[n] = q
      BY <1>1, <1>2, <1>5, <2>2 DEF IInv, TypeOK, ChildrenInv, Awaited
    <3>2. CASE Listed(q)
      BY <1>2, <3>2 DEF Listed
    <3>3. CASE \E n \in 1 .. Len(pids) : pids[n] = q
      BY <1>3, <1>4, <1>5, <3>3 DEF Awaited
    <3> QED BY <3>1, <3>2, <3>3
  <2> QED BY <2>1, <2>2
<1> QED BY <1>8, <1>9, <1>10, <1>11, <1>12, <1>13 DEF IInv

(* The stage waited for is the first of those that are pending; after it the wait *)
(* is for the others.                                                             *)
LEMMA Waits ==
  ASSUME IInv, spc = "wait", NextStage, pids' = pids, stages' = stages, cmd' = cmd
  PROVE  /\ stage \in Pending /\ stage \in Nat /\ pids[stage] \in Pids
         /\ Pending' = Pending \ {stage} /\ Pending \subseteq 1 .. Len(pids)
         /\ \A n \in Pending : pids[n] \in Pids
         /\ CommandInv'
         /\ stage' \in 0 .. MaxStages + 1 /\ spc' \in {"prompt", "wait"}
<1>1. Len(pids) = stages /\ stage \in 1 .. stages /\ stages \in 0 .. MaxStages /\ MaxStages \in Nat
  BY BoundsAssumption DEF IInv, TypeOK, CommandInv
<1>2. Pending = stage .. stages
  BY DEF Pending
<1>3. Pending' = Pending \ {stage}
  BY <1>1, <1>2 DEF Pending, NextStage
<1>4. CommandInv'
  BY <1>1 DEF IInv, CommandInv, NextStage
<1>5. \A n \in Pending : n \in 1 .. Len(pids) /\ pids[n] \in Pids
  BY PendingForked DEF IInv
<1>6. stage \in Pending
  BY <1>1, <1>2
<1> QED BY <1>1, <1>3, <1>4, <1>5, <1>6 DEF NextStage

LEMMA StageEndedInv ==
  ASSUME IInv, StageEnded
  PROVE  IInv'
<1> DEFINE p == pids[stage]
<1>1. /\ spc = "wait" /\ NextStage /\ pids' = pids /\ stages' = stages /\ jobs' = jobs
      /\ cmd' = cmd /\ cwd' = cwd /\ fg' = fg
  BY DEF StageEnded
<1>2. /\ proc' = [proc EXCEPT ![p] = "none"] /\ cmdOf' = [cmdOf EXCEPT ![p] = NULL]
      /\ interrupted' = interrupted /\ reported' = reported
      /\ partners' \in [Pids -> SUBSET Pids]
  BY DEF StageEnded, WaitedEnd, IInv, TypeOK
<1>3. /\ stage \in Pending /\ p \in Pids /\ Pending' = Pending \ {stage}
      /\ Pending \subseteq 1 .. Len(pids) /\ CommandInv'
      /\ stage' \in 0 .. MaxStages + 1 /\ spc' \in {"prompt", "wait"}
      /\ \A n \in Pending : pids[n] \in Pids
  BY <1>1, Waits
<1>4. ~Listed(p) /\ \A n \in Pending \ {stage} : pids[n] # p
  BY <1>3 DEF IInv, PendingInv
<1>5. \A q : Listed(q)' <=> Listed(q)
  BY <1>1 DEF Listed
<1> HIDE DEF p
<1>6. TypeOK'
  BY <1>1, <1>2, <1>3 DEF IInv, TypeOK
<1>7. PendingInv'
  BY <1>1, <1>2, <1>3, <1>4, <1>5 DEF IInv, TypeOK, PendingInv
<1>8. TableInv'
  <2>1. \A n \in DOMAIN jobs : jobs[n].pid \in Pids /\ jobs[n].pid # p
    BY <1>4, JobTypes DEF IInv, Listed
  <2> QED BY <1>1, <1>2, <2>1 DEF IInv, TypeOK, TableInv
<1>9. FgInv'
  BY <1>3 DEF FgInv
<1>10. ChildrenInv'
  <2> SUFFICES ASSUME NEW q \in Pids, proc'[q] # "none"
               PROVE  Listed(q)' \/ Awaited(q)'
    BY DEF ChildrenInv
  <2>1. q # p /\ proc[q] # "none"
    BY <1>2, <1>3 DEF IInv, TypeOK
  <2>2. Listed(q) \/ Awaited(q)
    BY <1>1, <2>1 DEF IInv, ChildrenInv
  <2> QED BY <1>1, <1>3, <1>5, <2>1, <2>2 DEF Awaited, p
<1> QED BY <1>3, <1>6, <1>7, <1>8, <1>9, <1>10 DEF IInv

LEMMA StageStoppedInv ==
  ASSUME IInv, StageStopped
  PROVE  IInv'
<1> DEFINE p == pids[stage]
<1>1. /\ spc = "wait" /\ NextStage /\ pids' = pids /\ stages' = stages /\ ~TableFull
      /\ cmd' = cmd /\ cwd' = cwd /\ fg' = fg /\ jobs' = Added(jobs, p, Whole(cmd))
  BY DEF StageStopped
<1>2. /\ proc' = proc /\ cmdOf' = cmdOf /\ interrupted' = interrupted
      /\ partners' = partners
      /\ reported' = reported \union {p} /\ proc[p] = "stopped"
  BY DEF StageStopped, WaitedStop
<1>3. /\ stage \in Pending /\ p \in Pids /\ Pending' = Pending \ {stage}
      /\ Pending \subseteq 1 .. Len(pids) /\ CommandInv'
      /\ stage' \in 0 .. MaxStages + 1 /\ spc' \in {"prompt", "wait"}
      /\ \A n \in Pending : pids[n] \in Pids
  BY <1>1, Waits
<1>4. ~Listed(p) /\ cmdOf[p] = cmd /\ \A n \in Pending \ {stage} : pids[n] # p
  BY <1>3 DEF IInv, PendingInv
<1>5. cmd \in Commands /\ jobs \in Seq(Job) /\ Len(jobs) < MAX_JOBS
  BY <1>1, BoundsAssumption DEF IInv, TypeOK, CommandInv, Job, TableFull
<1>0. Whole(cmd) \in Text /\ strncpy(Whole(cmd)) = Kept(cmd)
  BY <1>5, TextTypes, KeptAgain
<1> HIDE DEF p
<1>6. /\ jobs' \in Seq(Job) /\ Len(jobs') = Len(jobs) + 1
      /\ DOMAIN jobs = 1 .. Len(jobs) /\ DOMAIN jobs' = 1 .. Len(jobs) + 1
      /\ \A n \in DOMAIN jobs : n \in DOMAIN jobs' /\ jobs'[n] = jobs[n]
      /\ jobs'[Len(jobs) + 1].pid = p /\ jobs'[Len(jobs) + 1].command = Kept(cmd)
  BY <1>0, <1>1, <1>3, <1>5, AddedTable
<1>7. Len(jobs) \in Nat
  BY <1>5
<1>8. \A q : Listed(q)' <=> Listed(q) \/ q = p
  BY <1>6, <1>7 DEF Listed
<1>9. TypeOK'
  BY <1>1, <1>2, <1>3, <1>5, <1>6, BoundsAssumption DEF IInv, TypeOK, Job
<1>10. PendingInv'
  BY <1>1, <1>2, <1>3, <1>4, <1>8 DEF IInv, PendingInv
<1>11. TableInv'
  <2> SUFFICES ASSUME NEW n \in DOMAIN jobs'
               PROVE  /\ proc[jobs'[n].pid] # "none"
                      /\ jobs'[n].command = Kept(cmdOf[jobs'[n].pid])
                      /\ \A m \in DOMAIN jobs' : jobs'[m].pid = jobs'[n].pid => m = n
    BY <1>2 DEF TableInv
  <2>1. \A m \in DOMAIN jobs : jobs[m].pid # p
    BY <1>4 DEF Listed
  <2>2. \A m \in DOMAIN jobs' : m \in DOMAIN jobs \/ m = Len(jobs) + 1
    BY <1>6, <1>7
  <2> QED BY <1>2, <1>4, <1>6, <2>1, <2>2 DEF IInv, TableInv
<1>12. FgInv'
  BY <1>3 DEF FgInv
<1>13. ChildrenInv'
  <2> SUFFICES ASSUME NEW q \in Pids, proc[q] # "none"
               PROVE  Listed(q)' \/ Awaited(q)'
    BY <1>2 DEF ChildrenInv
  <2>1. Listed(q) \/ Awaited(q)
    BY <1>1 DEF IInv, ChildrenInv
  <2> QED BY <1>1, <1>3, <1>8, <2>1 DEF Awaited, p
<1> QED BY <1>3, <1>9, <1>10, <1>11, <1>12, <1>13 DEF IInv

LEMMA TooManyJobsInv ==
  ASSUME IInv, TooManyJobs
  PROVE  IInv'
<1>1. /\ spc = "wait" /\ spc' = "exited" /\ command' = command /\ jobs' = jobs /\ cwd' = cwd
      /\ fg' = fg /\ proc' = proc /\ cmdOf' = cmdOf /\ interrupted' = interrupted
      /\ partners' = partners /\ reported' = reported \union {pids[stage]}
  BY DEF TooManyJobs, WaitedStop, Exit
<1>2. pids[stage] \in Pids
  BY <1>1, PendingForked DEF IInv, TypeOK, CommandInv, Pending
<1> USE DEF IInv, command
<1>3. TypeOK'
  BY <1>1, <1>2 DEF TypeOK
<1>4. CommandInv' /\ PendingInv' /\ FgInv' /\ ChildrenInv'
  BY <1>1 DEF CommandInv, PendingInv, Pending, FgInv, ChildrenInv
<1>5. TableInv'
  BY <1>1 DEF TableInv
<1> QED BY <1>3, <1>4, <1>5

(* fg copies the job before it lets it go on.                                     *)
LEMMA FgStartInv ==
  ASSUME IInv, Fg
  PROVE  IInv'
<1>1. PICK n \in DOMAIN jobs : /\ fg' = [pid |-> jobs[n].pid, command |-> strdup(jobs[n].command)]
                               /\ Continue(jobs[n].pid)
  BY DEF Fg
<1>2. /\ spc = "read" /\ spc' = "fg" /\ cmdOf' = cmdOf /\ cwd' = cwd /\ jobs' = jobs
      /\ command' = command /\ partners' = partners
  BY DEF Fg
<1>3. /\ jobs[n].pid \in Pids /\ jobs[n].command \in Text
      /\ strdup(jobs[n].command) \in Text
  BY JobTypes, TextTypes DEF IInv
<1>4. KernelStep
  BY <1>1, <1>2, <1>3, ContinueKeeps DEF IInv
<1> USE DEF IInv, command, KernelStep
<1>5. TypeOK'
  BY <1>1, <1>2, <1>3, <1>4 DEF TypeOK
<1>6. CommandInv' /\ PendingInv'
  BY <1>2 DEF CommandInv, PendingInv, Pending
<1>7. TableInv'
  <2>1. \A m \in DOMAIN jobs : jobs[m].pid \in Pids
    BY JobTypes
  <2> QED BY <1>2, <1>4, <2>1 DEF TableInv
<1>8. FgInv'
  BY <1>1, <1>2, <1>3 DEF FgInv, TableInv, Listed
<1>9. ChildrenInv'
  BY <1>2, <1>4 DEF ChildrenInv, Listed, Awaited, Pending
<1> QED BY <1>5, <1>6, <1>7, <1>8, <1>9

LEMMA FgEndedInv ==
  ASSUME IInv, FgEnded
  PROVE  IInv'
<1> DEFINE p == fg.pid
<1>1. /\ spc = "fg" /\ spc' = "prompt" /\ jobs' = remove_job(p) /\ command' = command
      /\ cwd' = cwd /\ fg' = NULL
      /\ proc' = [proc EXCEPT ![p] = "none"] /\ cmdOf' = [cmdOf EXCEPT ![p] = NULL]
      /\ interrupted' = interrupted /\ reported' = reported
      /\ partners' \in [Pids -> SUBSET Pids]
  BY DEF FgEnded, WaitedEnd, IInv, TypeOK
<1>2. p \in Pids /\ Listed(p)
  BY <1>1 DEF IInv, FgInv
<1> HIDE DEF p
<1>3. /\ jobs' \in Seq(Job) /\ Len(jobs') = Len(jobs) - 1
      /\ \A n \in DOMAIN jobs' : /\ jobs'[n].pid # p
                                 /\ \E m \in DOMAIN jobs : jobs'[n] = jobs[m]
                                 /\ \A m \in DOMAIN jobs' : jobs'[m].pid = jobs'[n].pid => m = n
      /\ \A q \in Pids : Listed(q) /\ q # p => \E n \in DOMAIN jobs' : jobs'[n].pid = q
  <2> DEFINE js == remove_job(p)
  <2>1. /\ js \in Seq(Job) /\ Len(js) = Len(jobs) - 1
        /\ \A n \in DOMAIN js : /\ js[n].pid # p
                                /\ \E m \in DOMAIN jobs : js[n] = jobs[m]
                                /\ \A m \in DOMAIN js : js[m].pid = js[n].pid => m = n
        /\ \A q \in Pids : Listed(q) /\ q # p => \E n \in DOMAIN js : js[n].pid = q
    BY <1>2, RemovedTable DEF IInv
  <2>2. jobs' = js
    BY <1>1
  <2> HIDE DEF js
  <2> QED BY <2>1, <2>2
<1>4. TypeOK'
  BY <1>1, <1>2, <1>3, BoundsAssumption DEF IInv, TypeOK, Job, command
<1>5. CommandInv' /\ PendingInv' /\ FgInv'
  BY <1>1 DEF CommandInv, PendingInv, Pending, FgInv
<1>6. TableInv'
  <2> SUFFICES ASSUME NEW n \in DOMAIN jobs'
               PROVE  /\ proc'[jobs'[n].pid] # "none"
                      /\ jobs'[n].command = Kept(cmdOf'[jobs'[n].pid])
                      /\ \A m \in DOMAIN jobs' : jobs'[m].pid = jobs'[n].pid => m = n
    BY DEF TableInv
  <2>1. PICK m \in DOMAIN jobs : jobs'[n] = jobs[m]
    BY <1>3
  <2>2. jobs[m].pid \in Pids /\ jobs[m].pid # p
    BY <1>3, <2>1, JobTypes DEF IInv
  <2>3. proc[jobs[m].pid] # "none" /\ jobs[m].command = Kept(cmdOf[jobs[m].pid])
    BY DEF IInv, TableInv
  <2> QED BY <1>1, <1>3, <2>1, <2>2, <2>3 DEF IInv, TypeOK
<1>7. ChildrenInv'
  <2> SUFFICES ASSUME NEW q \in Pids, proc'[q] # "none"
               PROVE  Listed(q)'
    BY DEF ChildrenInv
  <2>1. q # p /\ proc[q] # "none"
    BY <1>1, <1>2 DEF IInv, TypeOK
  <2>2. Listed(q)
    BY <1>1, <2>1 DEF IInv, ChildrenInv, Awaited, Pending
  <2> QED BY <1>3, <2>1, <2>2 DEF Listed
<1> QED BY <1>4, <1>5, <1>6, <1>7 DEF IInv

LEMMA FgStoppedInv ==
  ASSUME IInv, FgStopped
  PROVE  IInv'
<1> DEFINE p == fg.pid
           js == remove_job(p)
<1>1. /\ spc = "fg" /\ spc' = "prompt" /\ jobs' = Added(js, p, fg.command)
      /\ command' = command /\ cwd' = cwd /\ fg' = NULL
      /\ proc' = proc /\ cmdOf' = cmdOf /\ interrupted' = interrupted
      /\ reported' = reported \union {p} /\ partners' = partners
  BY DEF FgStopped, WaitedStop, FgCommand
<1>2. /\ p \in Pids /\ Listed(p) /\ fg.command \in Text
      /\ strncpy(fg.command) = Kept(cmdOf[p])
  BY <1>1, KeptAgain DEF IInv, FgInv
<1> HIDE DEF p, js
<1>3. /\ js \in Seq(Job) /\ Len(js) = Len(jobs) - 1
      /\ \A n \in DOMAIN js : /\ js[n].pid # p /\ \E m \in DOMAIN jobs : js[n] = jobs[m]
                             /\ \A m \in DOMAIN js : js[m].pid = js[n].pid => m = n
      /\ \A q \in Pids : Listed(q) /\ q # p => \E n \in DOMAIN js : js[n].pid = q
  BY <1>2, RemovedTable DEF IInv, js
<1>4. /\ jobs' \in Seq(Job) /\ Len(jobs') = Len(js) + 1
      /\ DOMAIN js = 1 .. Len(js) /\ DOMAIN jobs' = 1 .. Len(js) + 1
      /\ \A n \in DOMAIN js : n \in DOMAIN jobs' /\ jobs'[n] = js[n]
      /\ jobs'[Len(js) + 1].pid = p /\ jobs'[Len(js) + 1].command = Kept(cmdOf[p])
  BY <1>1, <1>2, <1>3, AddedTable
<1>5. Len(js) \in Nat /\ Len(jobs) \in Nat
  BY <1>3 DEF IInv, TypeOK
<1>6. proc[p] # "none"
  BY <1>2 DEF IInv, TableInv, Listed
<1>7. TypeOK'
  BY <1>1, <1>2, <1>3, <1>4, <1>5, BoundsAssumption DEF IInv, TypeOK, Job, command
<1>8. CommandInv' /\ PendingInv' /\ FgInv'
  BY <1>1 DEF CommandInv, PendingInv, Pending, FgInv
<1>9. TableInv'
  <2> SUFFICES ASSUME NEW n \in DOMAIN jobs'
               PROVE  /\ proc[jobs'[n].pid] # "none"
                      /\ jobs'[n].command = Kept(cmdOf[jobs'[n].pid])
                      /\ \A m \in DOMAIN jobs' : jobs'[m].pid = jobs'[n].pid => m = n
    BY <1>1 DEF TableInv
  <2>1. \A m \in DOMAIN jobs' : m \in DOMAIN js \/ m = Len(js) + 1
    BY <1>4, <1>5
  <2>2. CASE n = Len(js) + 1
    BY <1>2, <1>3, <1>4, <1>6, <2>1, <2>2
  <2>3. CASE n \in DOMAIN js
    <3>1. PICK m \in DOMAIN jobs : js[n] = jobs[m]
      BY <1>3, <2>3
    <3>2. proc[jobs[m].pid] # "none" /\ jobs[m].command = Kept(cmdOf[jobs[m].pid])
      BY DEF IInv, TableInv
    <3> QED BY <1>3, <1>4, <2>1, <2>3, <3>1, <3>2
  <2> QED BY <2>1, <2>2, <2>3
<1>10. ChildrenInv'
  <2> SUFFICES ASSUME NEW q \in Pids, proc[q] # "none"
               PROVE  \E n \in DOMAIN jobs' : jobs'[n].pid = q
    BY <1>1 DEF ChildrenInv, Listed
  <2>1. Listed(q)
    BY <1>1 DEF IInv, ChildrenInv, Awaited, Pending
  <2>2. CASE q = p
    BY <1>4, <1>5, <2>2
  <2>3. CASE q # p
    BY <1>3, <1>4, <2>1, <2>3
  <2> QED BY <2>2, <2>3
<1> QED BY <1>7, <1>8, <1>9, <1>10 DEF IInv

LEMMA NextInv == IInv /\ [Next]_vars => IInv'
<1> SUFFICES ASSUME IInv, [Next]_vars PROVE IInv'
  OBVIOUS
<1>1. CASE vars' = vars
  BY <1>1, QuietInv DEF vars, shell, IInv, TypeOK
<1>2. CASE CtrlC \/ CtrlZ \/ \E p \in Pids : Child(p)
  BY <1>2, ChildKeeps, KernelInv DEF IInv
<1>3. CASE PrintPrompt \/ EndOfInput \/ BuildinExit \/ ForkFails \/ DirectoryRemoved
  BY <1>3, QuietInv DEF PrintPrompt, EndOfInput, BuildinExit, ForkFails, DirectoryRemoved, Exit,
     IInv, TypeOK
<1>4. CASE BlankLine \/ BuildinCd \/ BuildinJobs \/ ExitRefused \/ NoSuchJob \/ Malformed
  BY <1>4, QuietInv DEF BlankLine, BuildinCd, BuildinJobs, ExitRefused, NoSuchJob, Malformed,
     NoEffect, IInv, TypeOK
<1>5. CASE StartCommand
  BY <1>5, StartCommandInv
<1>6. CASE Fork
  BY <1>6, ForkInv
<1>7. CASE StageEnded
  BY <1>7, StageEndedInv
<1>8. CASE StageStopped
  BY <1>8, StageStoppedInv
<1>9. CASE TooManyJobs
  BY <1>9, TooManyJobsInv
<1>10. CASE Fg
  BY <1>10, FgStartInv
<1>11. CASE FgEnded
  BY <1>11, FgEndedInv
<1>12. CASE FgStopped
  BY <1>12, FgStoppedInv
<1> QED
  BY <1>1, <1>2, <1>3, <1>4, <1>5, <1>6, <1>7, <1>8, <1>9, <1>10, <1>11, <1>12
     DEF Next, Shell, Terminated

(* Every reachable state satisfies the inductive invariant.                       *)
THEOREM Invariance == Spec => []IInv
<1>1. Init => IInv
  BY InitInv
<1>2. IInv /\ [Next]_vars => IInv'
  BY NextInv
<1> QED BY <1>1, <1>2, PTL DEF Spec

--------------------------------------------------------------------------------
(* The types.                                                                     *)
THEOREM TypeCorrect == Spec => []TypeOK
BY Invariance, PTL DEF IInv

(* waitpid() and kill() only get children that have not been reaped, and the      *)
(* table holds no process twice.                                                  *)
THEOREM JobsAreUnreapedHolds == Spec => []JobsAreUnreaped
<1>1. IInv => JobsAreUnreaped
  BY DEF IInv, TableInv, PendingInv, Pending, FgInv, JobsAreUnreaped
<1> QED BY <1>1, Invariance, PTL

(* At the prompt every child of the shell is in the table of jobs.                *)
THEOREM NoLostChildHolds == Spec => []NoLostChild
<1>1. IInv => NoLostChild
  BY DEF IInv, ChildrenInv, Awaited, Pending, NoLostChild
<1> QED BY <1>1, Invariance, PTL

(* A job keeps the command line its process was forked for.                       *)
THEOREM JobKeepsCommandHolds == Spec => []JobKeepsCommand
<1>1. IInv => JobKeepsCommand
  BY DEF IInv, TableInv, JobKeepsCommand
<1> QED BY <1>1, Invariance, PTL

--------------------------------------------------------------------------------
(* The order of the table.                                                        *)

(* Where each job is, there is no other order of two of them.                     *)
LEMMA OrderUnique ==
  ASSUME TypeOK, TableInv, NEW p, NEW q, Before(jobs, p, q), Before(jobs, q, p)
  PROVE  FALSE
<1>1. PICK n, m \in DOMAIN jobs : n < m /\ jobs[n].pid = p /\ jobs[m].pid = q
  BY DEF Before
<1>2. PICK k, l \in DOMAIN jobs : k < l /\ jobs[k].pid = q /\ jobs[l].pid = p
  BY DEF Before
<1>3. n = l /\ m = k
  BY <1>1, <1>2 DEF TableInv
<1>4. DOMAIN jobs \subseteq Int
  BY DEF TypeOK
<1> QED BY <1>1, <1>2, <1>3, <1>4

(* remove_job keeps the order of the others.                                      *)
LEMMA RemovedOrder ==
  ASSUME TypeOK, TableInv, NEW r \in Pids, Listed(r), NEW p, NEW q,
         Before(remove_job(r), p, q)
  PROVE  Before(jobs, p, q)
<1> DEFINE js == remove_job(r)
           k  == IndexOf(r)
           At(n) == IF n < k THEN n ELSE n + 1
<1>1. /\ k \in 1 .. Len(jobs) /\ js \in Seq(Job) /\ Len(js) = Len(jobs) - 1
      /\ \A n \in 1 .. Len(jobs) - 1 : js[n] = IF n < k THEN jobs[n] ELSE jobs[n + 1]
  BY Removed
<1>2. PICK n, m \in DOMAIN js : n < m /\ js[n].pid = p /\ js[m].pid = q
  BY DEF Before
<1> HIDE DEF js, k
<1>3. /\ DOMAIN js = 1 .. Len(jobs) - 1 /\ DOMAIN jobs = 1 .. Len(jobs)
      /\ Len(jobs) \in Nat
  BY <1>1 DEF TypeOK
<1>4. /\ At(n) \in DOMAIN jobs /\ At(m) \in DOMAIN jobs /\ At(n) < At(m)
      /\ js[n] = jobs[At(n)] /\ js[m] = jobs[At(m)]
  BY <1>1, <1>2, <1>3
<1> QED BY <1>2, <1>4 DEF Before

(* An added job comes last.                                                       *)
LEMMA AddedOrder ==
  ASSUME NEW js \in Seq(Job), NEW r \in Pids, NEW t \in Text, NEW p, NEW q, p # r,
         Before(Added(js, r, t), q, p)
  PROVE  Before(js, q, p)
<1> DEFINE ks == Added(js, r, t)
<1>1. /\ DOMAIN js = 1 .. Len(js) /\ DOMAIN ks = 1 .. Len(js) + 1 /\ Len(js) \in Nat
      /\ \A n \in DOMAIN js : ks[n] = js[n]
      /\ ks[Len(js) + 1].pid = r
  BY AddedTable
<1>2. PICK n, m \in DOMAIN ks : n < m /\ ks[n].pid = q /\ ks[m].pid = p
  BY DEF Before
<1> HIDE DEF ks
<1>3. n \in DOMAIN js /\ m \in DOMAIN js
  BY <1>1, <1>2
<1> QED BY <1>1, <1>2, <1>3 DEF Before

(* The table is ordered by the last stop.                                         *)
THEOREM JobsInStopOrderHolds == Spec => JobsInStopOrder
<1> DEFINE A == /\ \A p \in reported' \ reported : spc' # "exited" => Last(jobs').pid = p
                /\ \A p, q \in Pids :
                     Before(jobs, p, q) /\ Before(jobs', q, p) => p \in reported' \ reported
<1>1. ASSUME IInv, [Next]_vars PROVE A
  <2>1. ASSUME jobs' = jobs, \/ reported' \subseteq reported \/ spc' = "exited" PROVE A
    BY <1>1, <2>1, OrderUnique DEF IInv
  <2>2. CASE vars' = vars
    BY <2>1, <2>2 DEF vars, shell, kernel
  <2>3. CASE CtrlC \/ CtrlZ \/ \E p \in Pids : Child(p)
    BY <1>1, <2>1, <2>3, ChildKeeps DEF IInv, KernelStep, shell
  <2>4. CASE \/ PrintPrompt \/ EndOfInput \/ BuildinExit \/ ForkFails \/ DirectoryRemoved
             \/ StartCommand
    BY <2>1, <2>4 DEF PrintPrompt, EndOfInput, BuildinExit, ForkFails, DirectoryRemoved,
       StartCommand, kernel
  <2>5. CASE BlankLine \/ BuildinCd \/ BuildinJobs \/ ExitRefused \/ NoSuchJob \/ Malformed
    BY <2>1, <2>5 DEF BlankLine, BuildinCd, BuildinJobs, ExitRefused, NoSuchJob, Malformed,
       NoEffect, kernel
  <2>6. CASE Fork \/ StageEnded \/ TooManyJobs
    BY <2>1, <2>6 DEF Fork, StageEnded, WaitedEnd, TooManyJobs, Exit
  <2>7. CASE Fg
    <3>1. KernelStep
      BY <1>1, <2>7, ContinueKeeps, JobTypes DEF Fg, IInv
    <3> QED BY <2>1, <2>7, <3>1 DEF Fg, KernelStep
  <2>8. CASE StageStopped
    <3> DEFINE r == pids[stage]
    <3>1. /\ jobs' = Added(jobs, r, Whole(cmd)) /\ reported' = reported \union {r} /\ r \notin reported
          /\ spc = "wait"
      BY <2>8 DEF StageStopped, WaitedStop
    <3>2. stage \in Pending /\ r \in Pids /\ cmd \in Commands /\ jobs \in Seq(Job)
      BY <1>1, <3>1, PendingForked DEF IInv, TypeOK, CommandInv, Pending, Job
    <3>3. ~Listed(r) /\ Whole(cmd) \in Text
      BY <1>1, <3>2, TextTypes DEF IInv, PendingInv
    <3> HIDE DEF r
    <3>4. Last(jobs').pid = r
      BY <3>1, <3>2, <3>3, AddedTable DEF Last
    <3>5. ASSUME NEW p \in Pids, NEW q \in Pids, Before(jobs, p, q), Before(jobs', q, p)
          PROVE  FALSE
      <4>1. p # r
        BY <3>3, <3>5 DEF Before, Listed
      <4>2. Before(jobs, q, p)
        BY <3>1, <3>2, <3>3, <3>5, <4>1, AddedOrder
      <4> QED BY <1>1, <3>5, <4>2, OrderUnique DEF IInv
    <3> QED BY <3>1, <3>4, <3>5
  <2>9. CASE FgEnded
    <3>1. jobs' = remove_job(fg.pid) /\ reported' = reported /\ spc = "fg"
      BY <2>9 DEF FgEnded, WaitedEnd
    <3>2. fg.pid \in Pids /\ Listed(fg.pid)
      BY <1>1, <3>1 DEF IInv, FgInv
    <3>3. ASSUME NEW p \in Pids, NEW q \in Pids, Before(jobs, p, q), Before(jobs', q, p)
          PROVE  FALSE
      <4>1. Before(jobs, q, p)
        BY <1>1, <3>1, <3>2, <3>3, RemovedOrder DEF IInv
      <4> QED BY <1>1, <3>3, <4>1, OrderUnique DEF IInv
    <3> QED BY <3>1, <3>3
  <2>10. CASE FgStopped
    <3> DEFINE r == fg.pid
    <3>1. /\ jobs' = Added(remove_job(r), r, fg.command) /\ spc = "fg"
          /\ reported' = reported \union {r} /\ r \notin reported
      BY <2>10 DEF FgStopped, FgCommand, WaitedStop
    <3>2. r \in Pids /\ Listed(r) /\ fg.command \in Text
      BY <1>1, <3>1 DEF IInv, FgInv
    <3> HIDE DEF r
    <3>3. remove_job(r) \in Seq(Job)
      BY <1>1, <3>2, Removed DEF IInv
    <3>4. Last(jobs').pid = r
      BY <3>1, <3>2, <3>3, AddedTable DEF Last
    <3>5. ASSUME NEW p \in Pids, NEW q \in Pids, Before(jobs, p, q), Before(jobs', q, p), p # r
          PROVE  FALSE
      <4>1. Before(remove_job(r), q, p)
        BY <3>1, <3>2, <3>3, <3>5, AddedOrder
      <4>2. Before(jobs, q, p)
        BY <1>1, <3>2, <4>1, RemovedOrder DEF IInv
      <4> QED BY <1>1, <3>5, <4>2, OrderUnique DEF IInv
    <3> QED BY <3>1, <3>4, <3>5
  <2> QED
    BY <1>1, <2>2, <2>3, <2>4, <2>5, <2>6, <2>7, <2>8, <2>9, <2>10 DEF Next, Shell, Terminated
<1>2. IInv /\ [Next]_vars => [A]_vars
  BY <1>1
<1> QED BY <1>2, Invariance, PTL DEF Spec, JobsInStopOrder

--------------------------------------------------------------------------------
(* The refinement of JobControl.  Phase and Status are what its variables stand   *)
(* for in the shell.                                                              *)

Phase == IF spc \in {"prompt", "read"} THEN "prompt"
         ELSE IF spc # "exited" THEN "busy"
         ELSE IF why = "exit" THEN "left" ELSE "failed"

StatusOf(p) == IF proc[p] = "none" THEN "free"
               ELSE IF Listed(p) /\ (spc = "fg" => p # fg.pid) THEN "suspended" ELSE "foreground"
Status == [p \in Pids |-> StatusOf(p)]

LEMMA ControlInit == Init => Control!Init
BY DEF Init, Control!Init, kernel, command, shell

(* Steps of JobControl that have no process for a parameter.                      *)
LEMMA ControlSteps ==
  ASSUME Status' = Status,
         \/ Phase' = Phase
         \/ Phase = "prompt" /\ Phase' = "busy"
         \/ Phase \in {"prompt", "busy"} /\ Phase' = "failed"
         \/ /\ Phase = "prompt" /\ \A p \in Pids : Status[p] # "suspended"
            /\ Phase' = "left"
  PROVE  [Control!Next]_(Control!vars)
<1>1. CASE Phase' = Phase
  BY <1>1 DEF Control!vars, Phase, Status, StatusOf
<1>2. CASE Phase = "prompt" /\ Phase' = "busy"
  <2>1. Control!TakeLine
    BY <1>2 DEF Control!TakeLine, Phase, Status, StatusOf
  <2> QED BY <2>1 DEF Control!Next
<1>3. CASE Phase \in {"prompt", "busy"} /\ Phase' = "failed"
  <2>1. Control!GiveUp
    BY <1>3 DEF Control!GiveUp, Phase, Status, StatusOf
  <2> QED BY <2>1 DEF Control!Next
<1>4. CASE Phase = "prompt" /\ (\A p \in Pids : Status[p] # "suspended") /\ Phase' = "left"
  <2>1. Control!Quit
    BY <1>4 DEF Control!Quit, Control!Suspended, Phase, Status, StatusOf
  <2> QED BY <2>1 DEF Control!Next
<1> QED BY <1>1, <1>2, <1>3, <1>4

LEMMA ControlStart ==
  ASSUME NEW p \in Pids, Phase = "busy", Phase' = "busy", Status[p] = "free",
         Status' = [Status EXCEPT ![p] = "foreground"]
  PROVE  [Control!Next]_(Control!vars)
<1>1. Control!Start(p)
  BY DEF Control!Start, Phase, Status, StatusOf
<1> QED BY <1>1 DEF Control!Next

LEMMA ControlResume ==
  ASSUME NEW p \in Pids, Phase = "prompt", Phase' = "busy", Status[p] = "suspended",
         Status' = [Status EXCEPT ![p] = "foreground"]
  PROVE  [Control!Next]_(Control!vars)
<1>1. Control!Resume(p)
  BY DEF Control!Resume, Phase, Status, StatusOf
<1> QED BY <1>1 DEF Control!Next

LEMMA ControlLeave ==
  ASSUME NEW p \in Pids, NEW s \in {"free", "suspended"}, Phase = "busy",
         Status[p] = "foreground", Status' = [Status EXCEPT ![p] = s],
         IF \A q \in Pids : Status[q] = "foreground" => q = p
         THEN Phase' = "prompt" ELSE Phase' = "busy"
  PROVE  [Control!Next]_(Control!vars)
<1>1. Control!Foreground = {q \in Pids : Status[q] = "foreground"}
  BY DEF Control!Foreground, Status, StatusOf
<1>2. Control!Foreground = {p} <=> \A q \in Pids : Status[q] = "foreground" => q = p
  BY <1>1
<1>3. Control!Leave(p)
  BY <1>2 DEF Control!Leave, Phase, Status, StatusOf
<1> QED BY <1>3 DEF Control!Next

(* What is in the foreground.                                                     *)
LEMMA ForegroundIs ==
  ASSUME IInv, NEW p \in Pids
  PROVE  /\ Status[p] = "foreground" /\ spc # "exited" =>
              Awaited(p) \/ (spc = "fg" /\ p = fg.pid)
         /\ Awaited(p) => Status[p] = "foreground"
<1>1. Status[p] = StatusOf(p)
  BY DEF Status
<1>2. Status[p] = "foreground" /\ spc # "exited" => Awaited(p) \/ (spc = "fg" /\ p = fg.pid)
  BY <1>1 DEF IInv, ChildrenInv, StatusOf
<1>3. Awaited(p) => proc[p] # "none" /\ ~Listed(p)
  BY DEF IInv, PendingInv, Awaited
<1> QED BY <1>1, <1>2, <1>3 DEF StatusOf

(* Steps that keep the children and the table keep what is in the foreground.     *)
LEMMA StatusKept ==
  ASSUME \A p \in Pids : proc'[p] = "none" <=> proc[p] = "none", jobs' = jobs,
         spc' # "fg", spc # "fg" \/ spc' = spc
  PROVE  Status' = Status
BY DEF Status, StatusOf, Listed

(* Every step of the shell is one of JobControl, or none.                         *)
LEMMA ControlNext ==
  ASSUME IInv, IInv', [Next]_vars
  PROVE  [Control!Next]_(Control!vars)
<1>1. CASE vars' = vars
  <2>1. Status' = Status /\ Phase' = Phase
    BY <1>1 DEF vars, shell, kernel, Status, StatusOf, Listed, Phase
  <2> QED BY <2>1, ControlSteps
<1>2. CASE CtrlC \/ CtrlZ \/ \E p \in Pids : Child(p)
  <2>1. KernelStep /\ shell' = shell
    BY <1>2, ChildKeeps DEF IInv
  <2>2. Status' = Status /\ Phase' = Phase
    BY <2>1 DEF KernelStep, shell, Status, StatusOf, Listed, Phase
  <2> QED BY <2>2, ControlSteps
<1>3. CASE \/ PrintPrompt \/ EndOfInput \/ ForkFails \/ TooManyJobs
           \/ BlankLine \/ BuildinCd \/ BuildinJobs \/ ExitRefused \/ NoSuchJob \/ Malformed
           \/ StartCommand
  <2>1. Status' = Status
    BY <1>3, StatusKept DEF PrintPrompt, EndOfInput, ForkFails, TooManyJobs, BlankLine, BuildinCd,
       BuildinJobs, ExitRefused, NoSuchJob, Malformed, NoEffect, StartCommand, WaitedStop, Exit,
       kernel
  <2>2. \/ Phase' = Phase
        \/ Phase = "prompt" /\ Phase' = "busy"
        \/ Phase \in {"prompt", "busy"} /\ Phase' = "failed"
    BY <1>3 DEF PrintPrompt, EndOfInput, ForkFails, TooManyJobs, BlankLine, BuildinCd,
       BuildinJobs, ExitRefused, NoSuchJob, Malformed, NoEffect, StartCommand, Exit, Phase
  <2> QED BY <2>1, <2>2, ControlSteps
<1>4. CASE DirectoryRemoved
  <2>1. Status' = Status /\ Phase' = Phase
    BY <1>4 DEF DirectoryRemoved, kernel, Status, StatusOf, Listed, Phase
  <2> QED BY <2>1, ControlSteps
<1>5. CASE BuildinExit
  <2>1. Status' = Status /\ Phase = "prompt" /\ Phase' = "left"
    BY <1>5, StatusKept DEF BuildinExit, Exit, kernel, Phase
  <2>2. \A p \in Pids : Status[p] # "suspended"
    BY <1>5 DEF BuildinExit, ExitAllowed, Status, StatusOf, Listed
  <2> QED BY <2>1, <2>2, ControlSteps
<1>6. CASE Fork
  <2>1. PICK p \in Pids : proc[p] = "none" /\ proc' = [proc EXCEPT ![p] = "fork"]
    BY <1>6 DEF Fork
  <2>2. jobs' = jobs /\ spc = "fork" /\ spc' \in {"fork", "wait"}
    BY <1>6 DEF Fork
  <2>3. ~Listed(p)
    BY <2>1 DEF IInv, TableInv, Listed
  <2>4. Status[p] = "free" /\ Status' = [Status EXCEPT ![p] = "foreground"]
    BY ZenonT(60), <2>1, <2>2, <2>3 DEF IInv, TypeOK, Status, StatusOf, Listed
  <2>5. Phase = "busy" /\ Phase' = "busy"
    BY <2>2 DEF Phase
  <2> QED BY <2>4, <2>5, ControlStart
<1>7. CASE StageEnded \/ StageStopped
  <2> DEFINE p == pids[stage]
  <2>1. spc = "wait" /\ NextStage /\ pids' = pids /\ stages' = stages /\ cmd' = cmd
    BY <1>7 DEF StageEnded, StageStopped
  <2>2. /\ stage \in Pending /\ p \in Pids /\ Pending = stage .. stages
        /\ stage \in Nat /\ stages \in Nat /\ spc' \in {"prompt", "wait"}
    BY <2>1, Waits DEF Pending, IInv, TypeOK
  <2>3. ~Listed(p) /\ \A m \in Pending : pids[m] = p => m = stage
    BY <2>2 DEF IInv, PendingInv
  <2>4. Status[p] = "foreground"
    BY <2>2, ForegroundIs DEF Awaited
  <2>5. (\A q \in Pids : Status[q] = "foreground" => q = p) <=> stage = stages
    <3>1. ASSUME stage = stages, NEW q \in Pids, Status[q] = "foreground" PROVE q = p
      BY <2>1, <2>2, <3>1, ForegroundIs DEF Awaited
    <3>2. ASSUME stage # stages PROVE \E q \in Pids : Status[q] = "foreground" /\ q # p
      <4>1. stages \in Pending /\ pids[stages] \in Pids
        BY <2>1, <2>2, Waits
      <4> QED BY <2>3, <3>2, <4>1, ForegroundIs DEF Awaited
    <3> QED BY <3>1, <3>2
  <2>6. /\ Phase = "busy"
        /\ IF \A q \in Pids : Status[q] = "foreground" => q = p
           THEN Phase' = "prompt" ELSE Phase' = "busy"
    BY <2>1, <2>5 DEF NextStage, Phase
  <2> HIDE DEF p
  <2>7. CASE StageEnded
    <3>1. jobs' = jobs /\ proc' = [proc EXCEPT ![p] = "none"]
      BY <2>7 DEF StageEnded, WaitedEnd, p
    <3>2. Status' = [Status EXCEPT ![p] = "free"]
      BY <2>1, <2>2, <3>1 DEF IInv, TypeOK, Status, StatusOf, Listed
    <3> QED BY <2>2, <2>4, <2>6, <3>2, ControlLeave
  <2>8. CASE StageStopped
    <3>1. jobs' = Added(jobs, p, Whole(cmd)) /\ proc' = proc /\ proc[p] = "stopped"
      BY <2>8 DEF StageStopped, WaitedStop, p
    <3>2. jobs \in Seq(Job) /\ Whole(cmd) \in Text
      BY <2>1, TextTypes DEF IInv, TypeOK, CommandInv, Job
    <3>3. \A q : Listed(q)' <=> Listed(q) \/ q = p
      <4>1. /\ DOMAIN jobs = 1 .. Len(jobs) /\ DOMAIN jobs' = 1 .. Len(jobs) + 1
            /\ \A n \in DOMAIN jobs : n \in DOMAIN jobs' /\ jobs'[n] = jobs[n]
            /\ jobs'[Len(jobs) + 1].pid = p /\ Len(jobs) \in Nat
        BY <2>2, <3>1, <3>2, AddedTable
      <4> QED BY <4>1 DEF Listed
    <3>4. Status' = [Status EXCEPT ![p] = "suspended"]
      BY <2>1, <2>2, <3>1, <3>3 DEF Status, StatusOf
    <3> QED BY <2>2, <2>4, <2>6, <3>4, ControlLeave
  <2> QED BY <1>7, <2>7, <2>8
<1>8. CASE Fg
  <2>1. PICK n \in DOMAIN jobs : fg'.pid = jobs[n].pid /\ Continue(jobs[n].pid)
    BY <1>8 DEF Fg
  <2> DEFINE p == jobs[n].pid
  <2>2. jobs' = jobs /\ spc = "read" /\ spc' = "fg" /\ cmdOf' = cmdOf
    BY <1>8 DEF Fg
  <2>3. p \in Pids /\ Listed(p) /\ proc[p] # "none"
    BY JobTypes DEF IInv, TableInv, Listed
  <2>4. \A q \in Pids : proc'[q] = "none" <=> proc[q] = "none"
    BY <1>8, <2>1, <2>2, <2>3, ContinueKeeps DEF Fg, IInv, KernelStep
  <2> HIDE DEF p
  <2>5. \A q \in Pids : proc[q] # "none" => Listed(q)
    BY <2>2 DEF IInv, ChildrenInv, Awaited, Pending
  <2>6. fg'.pid = p
    BY <2>1 DEF p
  <2>7. Status[p] = "suspended" /\ Status' = [Status EXCEPT ![p] = "foreground"]
    BY <2>2, <2>3, <2>4, <2>5, <2>6 DEF Status, StatusOf, Listed
  <2>8. Phase = "prompt" /\ Phase' = "busy"
    BY <2>2 DEF Phase
  <2> QED BY <2>3, <2>7, <2>8, ControlResume
<1>9. CASE FgEnded \/ FgStopped
  <2> DEFINE p == fg.pid
  <2>1. spc = "fg" /\ spc' = "prompt"
    BY <1>9 DEF FgEnded, FgStopped
  <2>2. p \in Pids /\ Listed(p) /\ proc[p] # "none" /\ fg.command \in Text
    BY <2>1 DEF IInv, FgInv, TableInv, Listed
  <2>3. \A q \in Pids : Status[q] = IF proc[q] = "none" THEN "free"
                                  ELSE IF q # p THEN "suspended" ELSE "foreground"
    BY <2>1 DEF IInv, ChildrenInv, Awaited, Pending, Status, StatusOf
  <2>4. \A q \in Pids : Status'[q] = IF proc'[q] = "none" THEN "free" ELSE "suspended"
    BY <2>1 DEF IInv, ChildrenInv, Awaited, Pending, Status, StatusOf
  <2>5. Phase = "busy" /\ Phase' = "prompt"
    BY <2>1 DEF Phase
  <2> HIDE DEF p
  <2>6. DOMAIN Status = Pids /\ Status' = [q \in Pids |-> Status'[q]]
    BY DEF Status
  <2>7. CASE FgEnded
    <3>1. proc' = [proc EXCEPT ![p] = "none"]
      BY <2>7 DEF FgEnded, WaitedEnd, p
    <3>2. Status' = [Status EXCEPT ![p] = "free"]
      BY <2>2, <2>3, <2>4, <2>6, <3>1 DEF IInv, TypeOK
    <3> QED BY <2>2, <2>3, <2>5, <3>2, ControlLeave
  <2>8. CASE FgStopped
    <3>1. proc' = proc
      BY <2>8 DEF FgStopped, WaitedStop
    <3>2. Status' = [Status EXCEPT ![p] = "suspended"]
      BY <2>2, <2>3, <2>4, <2>6, <3>1
    <3> QED BY <2>2, <2>3, <2>5, <3>2, ControlLeave
  <2> QED BY <1>9, <2>7, <2>8
<1> QED
  BY <1>1, <1>2, <1>3, <1>4, <1>5, <1>6, <1>7, <1>8, <1>9 DEF Next, Shell, Terminated

(* The shell implements JobControl.                                               *)
THEOREM JobControlImplemented == Spec => ImplementsJobControl
<1>1. Init => Control!Init
  BY ControlInit
<1>2. IInv /\ IInv' /\ [Next]_vars => [Control!Next]_(Control!vars)
  BY ControlNext
<1> QED BY <1>1, <1>2, Invariance, PTL DEF Spec, ImplementsJobControl, Control!Spec
================================================================================
