--------------------------- MODULE LifecycleProofs ---------------------------
(***************************************************************************)
(* What the boots of the T1 kernel promise each other, for any number of   *)
(* apps and boots and whatever order failures, crashes, Ctrl-Z and         *)
(* restarts come in: the inductive invariant LifeInv, and from it          *)
(* BootsAreApart, SegmentsAwaitApps and NothingIsLeft.                     *)
(***************************************************************************)
EXTENDS Lifecycle, TLAPS

\* The labels of main at which the kernel has mapped every segment and reads
\* the FIFO, and those of its last steps, for which no child is left.
Mapped == {"fork", "halt", "launch", "loop", "wait"}
Closing == {"unlink", "closeShms"}

\* What a process has open was made by its own kernel; who waits for a reader
\* has the FIFO open, and who has nothing open yet belongs to the last boot.
OwnObjects ==
  \A b \in Boots, c \in Children :
    /\ holds[b][c] \in {0, b}
    /\ child[b][c] = "blocked" => holds[b][c] # 0
    /\ child[b][c] = "running" /\ holds[b][c] = 0 => b = boots
    /\ b > boots => child[b][c] = "none"

HasSegment(i) ==
  \/ kpc \in Mapped \cup {"unlink"}
  \/ kpc = "shm_open" /\ i < kidx
  \/ kpc = "closeShms" /\ i >= kidx

\* The kernel has open what the boot under way has made, as far as it got.
KernelObjects ==
  /\ fd_irq = IF kpc \in Ended \cup Closing \cup {"makeFIFO", "openFIFO"} THEN 0 ELSE boots
  /\ kpc \notin Ended \cup {"makeFIFO", "closeShms"} => fifoName = boots
  /\ kpc = "closeShms" => fifoName = 0
  /\ \A i \in Apps :
       /\ shm[i] = IF HasSegment(i) THEN boots ELSE 0
       /\ kpc \in Mapped \cup Closing \cup {"shm_open"} => shmName[i] = shm[i]

\* Which children the boot under way has not forked yet.
Unborn(c) ==
  \/ kpc \in {"makeFIFO", "openFIFO", "forkIC"}
  \/ c \in Apps /\ kpc \in {"clean", "shm_open"}
  \/ c \in Apps /\ kpc = "fork" /\ c >= kidx
  \/ c \in Apps /\ kpc = "halt" /\ c > kidx

\* A child of the last boot that is not gone finds the names of that boot.
NamesAwait ==
  boots > 0 =>
    /\ \A c \in Children : Unborn(c) => child[boots][c] = "none"
    /\ Live(boots, IC) => fifoName = boots /\ kpc \notin Closing
    /\ \A i \in Apps : Live(boots, i) => shmName[i] = boots /\ kpc \notin Closing \cup {"wait"}

LifeInv == TypeOK /\ OwnObjects /\ KernelObjects /\ NamesAwait /\ ReturnIsClean
----------------------------------------------------------------------------
(* The children. *)

Statuses == {"none", "running", "stopped", "blocked", "dead"}

\* No child of boot b is in `after' what it was not in `before': who does not
\* exist does not begin to, who is gone does not come back, and nobody begins
\* to wait or to execute.
Fades(before, after) ==
  /\ after \in [Children -> Statuses]
  /\ \A c \in Children :
       \/ after[c] = before[c]
       \/ before[c] # "none" /\ after[c] = "dead"
       \/ before[c] = "running" /\ after[c] = "stopped"

LEMMA ConstantFacts ==
  /\ N \in Nat /\ N > 0
  /\ MaxBoots \in Nat /\ MaxBoots > 0
  /\ 0 \in Apps /\ 0 \in 0..MaxBoots
  /\ \A b \in Boots : b \in Nat /\ b > 0
BY NAssumption, MaxBootsAssumption DEF Apps, Boots

LEMMA ChildFacts ==
  /\ IC \in Children /\ IC \notin Apps
  /\ \A c \in Children : c \in Apps \/ c = IC
  /\ \A i \in Apps : i \in Children /\ i \in Int
BY NAssumption DEF Children, Apps, IC

LEMMA LastBoot ==
  ASSUME TypeOK
  PROVE  /\ boots \in Int
         /\ boots > 0 => boots \in Boots
         /\ kpc # "off" => boots \in Boots
<1>1. boots \in 0..MaxBoots /\ (kpc # "off" => boots > 0)
  BY DEF TypeOK
<1> QED BY <1>1, MaxBootsAssumption DEF Boots

\* A hangup only ends processes.
LEMMA HangupFades ==
  ASSUME NEW before, NEW status, Fades(before, status)
  PROVE  Fades(before, Hangup(status))
BY DEF Fades, Hangup, Statuses

\* A step that moves children and leaves the kernel and the names alone keeps
\* the invariant, if nobody begins to exist and each child keeps to the
\* objects of its own kernel.
LEMMA ChildrenMove ==
  ASSUME LifeInv, EnvFrame,
         job' \in [Boots -> {"none", "shell", "script", "stopped", "no job"}],
         child' \in [Boots -> [Children -> Statuses]],
         holds' \in [Boots -> [Children -> 0..MaxBoots]],
         \A b \in Boots, c \in Children :
           /\ child[b][c] = "none" => child'[b][c] = "none"
           /\ Live(b, c)' => Live(b, c),
         OwnObjects'
  PROVE  LifeInv'
<1>1. boots' = boots /\ kpc' = kpc /\ kidx' = kidx /\ UNCHANGED names /\ UNCHANGED opened
  BY DEF EnvFrame
<1>2. TypeOK'
  BY <1>1 DEF LifeInv, TypeOK, names, opened, Statuses
<1>3. KernelObjects'
  BY <1>1 DEF LifeInv, KernelObjects, HasSegment, names, opened
<1>4. boots > 0 => boots \in Boots
  BY LastBoot DEF LifeInv
<1>5. NamesAwait'
  BY <1>1, <1>4, ChildFacts DEF LifeInv, NamesAwait, Unborn, names
<1>6. ReturnIsClean'
  <2> SUFFICES ASSUME kpc = "returned"
               PROVE  fifoName = 0 /\ (\A i \in Apps : shmName[i] = 0)
                      /\ \A c \in Children : ~Live(boots, c)'
    BY <1>1 DEF ReturnIsClean, names, Live
  <2>1. boots \in Boots
    BY <1>4 DEF LifeInv, TypeOK
  <2> QED BY <1>1, <2>1 DEF LifeInv, ReturnIsClean, Live
<1> QED BY <1>2, <1>3, <1>5, <1>6 DEF LifeInv

LEMMA FadingKeepsObjects ==
  ASSUME LifeInv, NEW b \in Boots, NEW after, Fades(child[b], after),
         child' = [child EXCEPT ![b] = after], holds' = holds, boots' = boots
  PROVE  /\ child' \in [Boots -> [Children -> Statuses]]
         /\ OwnObjects'
         /\ \A d \in Boots, c \in Children :
              /\ child[d][c] = "none" => child'[d][c] = "none"
              /\ Live(d, c)' => Live(d, c)
<1>1. child \in [Boots -> [Children -> Statuses]] /\ OwnObjects
  BY DEF LifeInv, TypeOK, Statuses
<1>2. /\ child' \in [Boots -> [Children -> Statuses]]
      /\ \A d \in Boots : child'[d] = IF d = b THEN after ELSE child[d]
  BY <1>1 DEF Fades
<1>3. ASSUME NEW d \in Boots, NEW c \in Children
      PROVE  \/ child'[d][c] = child[d][c]
             \/ child[d][c] # "none" /\ child'[d][c] = "dead"
             \/ child[d][c] = "running" /\ child'[d][c] = "stopped"
  BY <1>2 DEF Fades
<1>4. OwnObjects'
  BY <1>1, <1>3 DEF OwnObjects
<1> QED BY <1>2, <1>3, <1>4 DEF Live

\* A kernel that ends other than by returning leaves the invariant intact,
\* whatever it leaves behind.
LEMMA KernelEnds ==
  ASSUME LifeInv, kpc \notin Ended,
         NEW status, Fades(child[boots], status), Ends("dead", status),
         job' \in [Boots -> {"none", "shell", "script", "stopped", "no job"}],
         fifoName' = fifoName \/ (kpc = "makeFIFO" /\ fifoName' = 0)
  PROVE  LifeInv'
<1> DEFINE after == IF job[boots] = "shell" THEN Hangup(status) ELSE status
<1>1. TypeOK /\ boots \in Boots
  BY LastBoot DEF LifeInv, Ended
<1>2. Fades(child[boots], after)
  BY HangupFades
<1>3. /\ kpc' = "dead" /\ kidx' = 0 /\ fd_irq' = 0 /\ shm' = [i \in Apps |-> 0]
      /\ boots' = boots /\ shmName' = shmName /\ holds' = holds
      /\ child' = [child EXCEPT ![boots] = after]
  BY DEF Ends
<1> HIDE DEF after
<1>4. /\ child' \in [Boots -> [Children -> Statuses]] /\ OwnObjects'
      /\ \A c \in Children : Live(boots, c)' => Live(boots, c)
  BY <1>1, <1>2, <1>3, FadingKeepsObjects
<1>5. 0 \in Apps /\ 0 \in 0..MaxBoots /\ boots > 0
  BY <1>1, ConstantFacts
<1>6. TypeOK'
  BY <1>1, <1>3, <1>4, <1>5 DEF TypeOK, Ended, Boots, Statuses
<1>7. KernelObjects'
  BY <1>3 DEF KernelObjects, HasSegment, Ended, Mapped, Closing
<1>8. NamesAwait'
  <2>1. kpc = "makeFIFO" => \A c \in Children : ~Live(boots, c)
    BY <1>5 DEF LifeInv, NamesAwait, Unborn, Live
  <2>2. ASSUME NEW c \in Children PROVE ~Unborn(c)'
    BY <1>3 DEF Unborn
  <2>4. ASSUME Live(boots, IC)' PROVE fifoName' = boots
    BY <1>4, <2>1, <1>5, <2>4, ChildFacts DEF LifeInv, NamesAwait
  <2>5. ASSUME NEW i \in Apps, Live(boots, i)' PROVE shmName'[i] = boots
    BY <1>3, <1>4, <1>5, <2>5, ChildFacts DEF LifeInv, NamesAwait
  <2> QED BY <1>3, <2>2, <2>4, <2>5 DEF NamesAwait, Unborn, Live, Closing
<1>9. ReturnIsClean'
  BY <1>3 DEF ReturnIsClean
<1> QED BY <1>4, <1>6, <1>7, <1>8, <1>9 DEF LifeInv

LEMMA EndsOfJobsKeep ==
  ASSUME LifeInv, NEW b \in Boots, ScriptEnds(b) \/ Foreground(b)
  PROVE  LifeInv'
<1>1. child \in [Boots -> [Children -> Statuses]]
  BY DEF LifeInv, TypeOK, Statuses
<1>2. Fades(child[b], Hangup(child[b]))
  BY <1>1, HangupFades DEF Fades
<1>3. /\ EnvFrame /\ holds' = holds
      /\ job' = [job EXCEPT ![b] = "shell"]
      /\ child' = [child EXCEPT ![b] = Hangup(child[b])]
  BY DEF ScriptEnds, Foreground
<1>4. boots' = boots
  BY <1>3 DEF EnvFrame
<1>5. /\ child' \in [Boots -> [Children -> Statuses]] /\ OwnObjects'
      /\ \A d \in Boots, c \in Children :
           /\ child[d][c] = "none" => child'[d][c] = "none"
           /\ Live(d, c)' => Live(d, c)
  BY <1>2, <1>3, <1>4, FadingKeepsObjects
<1>6. /\ job' \in [Boots -> {"none", "shell", "script", "stopped", "no job"}]
      /\ holds' \in [Boots -> [Children -> 0..MaxBoots]]
  BY <1>3 DEF LifeInv, TypeOK
<1> QED BY <1>3, <1>5, <1>6, ChildrenMove

\* One child ends, opens something, or gets the reader it waits for.
LEMMA OneChildMoves ==
  ASSUME LifeInv, NEW b \in Boots, NEW c \in Children,
         ChildStep(b, c) \/ ExecFails(b, c)
  PROVE  LifeInv'
<1>1. /\ child \in [Boots -> [Children -> Statuses]]
      /\ job \in [Boots -> {"none", "shell", "script", "stopped", "no job"}]
      /\ holds \in [Boots -> [Children -> 0..MaxBoots]]
      /\ fifoName \in 0..MaxBoots /\ shmName \in [Apps -> 0..MaxBoots]
      /\ OwnObjects
  BY DEF LifeInv, TypeOK, Statuses
<1>2. child[b][c] \in {"running", "blocked"} /\ EnvFrame /\ job' = job
  BY DEF ChildStep, ExecFails, open_shared_memory, AppEnds, OpenFails, OpenForWriting,
         GetsReader, ICEnds, WriteFails, SignalledToEnd, Dies
<1>3. boots' = boots /\ UNCHANGED names
  BY <1>2 DEF EnvFrame
<1>4. CASE \E s \in {"dead", "running", "blocked"} :
             /\ child' = [child EXCEPT ![b][c] = s] /\ holds' = holds
             /\ s # "dead" => holds[b][c] # 0
  <2>1. PICK s \in {"dead", "running", "blocked"} :
          /\ child' = [child EXCEPT ![b][c] = s] /\ holds' = holds
          /\ s # "dead" => holds[b][c] # 0
    BY <1>4
  <2>2. /\ child' \in [Boots -> [Children -> Statuses]]
        /\ \A d \in Boots, e \in Children :
             child'[d][e] = IF d = b /\ e = c THEN s ELSE child[d][e]
    BY <1>1, <2>1 DEF Statuses
  <2>3. OwnObjects'
    <3> SUFFICES ASSUME NEW d \in Boots, NEW e \in Children
                 PROVE  /\ holds'[d][e] \in {0, d}
                        /\ child'[d][e] = "blocked" => holds'[d][e] # 0
                        /\ child'[d][e] = "running" /\ holds'[d][e] = 0 => d = boots'
                        /\ d > boots' => child'[d][e] = "none"
      BY DEF OwnObjects
    <3>1. /\ holds[d][e] \in {0, d}
          /\ child[d][e] = "blocked" => holds[d][e] # 0
          /\ child[d][e] = "running" /\ holds[d][e] = 0 => d = boots
          /\ d > boots => child[d][e] = "none"
      BY <1>1 DEF OwnObjects
    <3>2. CASE d = b /\ e = c
      BY <1>2, <1>3, <2>1, <2>2, <3>1, <3>2
    <3>3. CASE ~(d = b /\ e = c)
      <4>1. child'[d][e] = child[d][e] /\ holds'[d][e] = holds[d][e]
        BY <2>1, <2>2, <3>3
      <4> QED BY <1>3, <3>1, <4>1
    <3> QED BY <3>2, <3>3
  <2>4. \A d \in Boots, e \in Children :
          /\ child[d][e] = "none" => child'[d][e] = "none"
          /\ Live(d, e)' => Live(d, e)
    BY <1>2, <2>2 DEF Live
  <2> QED BY <1>1, <1>2, <2>1, <2>2, <2>3, <2>4, ChildrenMove
<1>5. CASE \E s \in {"running", "blocked"} :
             /\ child' = [child EXCEPT ![b][c] = s]
             /\ holds' = [holds EXCEPT ![b][c] = b]
  <2>1. PICK s \in {"running", "blocked"} :
             /\ child' = [child EXCEPT ![b][c] = s]
             /\ holds' = [holds EXCEPT ![b][c] = b]
    BY <1>5
  <2>2. /\ child' \in [Boots -> [Children -> Statuses]]
        /\ \A d \in Boots, e \in Children :
             child'[d][e] = IF d = b /\ e = c THEN s ELSE child[d][e]
    BY <1>1, <2>1 DEF Statuses
  <2>3. b \in 0..MaxBoots /\ b # 0
    BY ConstantFacts DEF Boots
  <2>4. /\ holds' \in [Boots -> [Children -> 0..MaxBoots]]
        /\ \A d \in Boots, e \in Children :
             holds'[d][e] = IF d = b /\ e = c THEN b ELSE holds[d][e]
    BY <1>1, <2>1, <2>3
  <2>5. OwnObjects'
    <3> SUFFICES ASSUME NEW d \in Boots, NEW e \in Children
                 PROVE  /\ holds'[d][e] \in {0, d}
                        /\ child'[d][e] = "blocked" => holds'[d][e] # 0
                        /\ child'[d][e] = "running" /\ holds'[d][e] = 0 => d = boots'
                        /\ d > boots' => child'[d][e] = "none"
      BY DEF OwnObjects
    <3>1. /\ holds[d][e] \in {0, d}
          /\ child[d][e] = "blocked" => holds[d][e] # 0
          /\ child[d][e] = "running" /\ holds[d][e] = 0 => d = boots
          /\ d > boots => child[d][e] = "none"
      BY <1>1 DEF OwnObjects
    <3>2. CASE d = b /\ e = c
      <4>1. child'[d][e] = s /\ holds'[d][e] = b
        BY <2>2, <2>4, <3>2
      <4> QED BY <1>2, <1>3, <2>1, <2>3, <3>1, <3>2, <4>1
    <3>3. CASE ~(d = b /\ e = c)
      <4>1. child'[d][e] = child[d][e] /\ holds'[d][e] = holds[d][e]
        BY <2>2, <2>4, <3>3
      <4> QED BY <1>3, <3>1, <4>1
    <3> QED BY <3>2, <3>3
  <2>6. \A d \in Boots, e \in Children :
          /\ child[d][e] = "none" => child'[d][e] = "none"
          /\ Live(d, e)' => Live(d, e)
    BY <1>2, <2>2 DEF Live
  <2> QED BY <1>1, <1>2, <2>2, <2>4, <2>5, <2>6, ChildrenMove
<1>6. ASSUME child[b][c] = "running", holds[b][c] = 0
      PROVE  /\ c = IC => fifoName = b
             /\ c \in Apps => shmName[c] = b
  <2>1. b = boots /\ boots > 0
    BY <1>1, <1>6, ConstantFacts DEF OwnObjects
  <2> QED BY <1>6, <2>1 DEF LifeInv, NamesAwait, Live
<1>7. CASE c \in Apps /\ open_shared_memory(b, c)
  <2>1. holds' = [holds EXCEPT ![b][c] = b]
    BY <1>6, <1>7 DEF open_shared_memory
  <2>2. child' = [child EXCEPT ![b][c] = "running"]
    BY <1>1, <1>7 DEF open_shared_memory
  <2> QED BY <1>5, <2>1, <2>2
<1>8. CASE c = IC /\ OpenForWriting(b)
  <2>1. holds' = [holds EXCEPT ![b][c] = b]
    BY <1>6, <1>8 DEF OpenForWriting
  <2>2. \E s \in {"running", "blocked"} : child' = [child EXCEPT ![b][c] = s]
    BY <1>8 DEF OpenForWriting
  <2> QED BY <1>5, <2>1, <2>2
<1>9. CASE c = IC /\ GetsReader(b)
  <2>1. holds[b][c] # 0 /\ child' = [child EXCEPT ![b][c] = "running"] /\ holds' = holds
    BY <1>1, <1>9 DEF GetsReader, OwnObjects
  <2> QED BY <1>4, <2>1
<1>10. CASE Dies(b, c)
  BY <1>4, <1>10 DEF Dies
<1> QED
  BY <1>7, <1>8, <1>9, <1>10 DEF ChildStep, ExecFails, AppEnds, ICEnds
----------------------------------------------------------------------------
(* The kernel. *)

\* Children of the boot under way may be forked, stopped and continued: they
\* keep what they have open.
LEMMA LastBootMoves ==
  ASSUME LifeInv, boots \in Boots, NEW after \in [Children -> Statuses],
         \A c \in Children :
           after[c] = child[boots][c] \/ after[c] \in {"running", "stopped"},
         child' = [child EXCEPT ![boots] = after], holds' = holds, boots' = boots
  PROVE  /\ child' \in [Boots -> [Children -> Statuses]]
         /\ OwnObjects'
         /\ child'[boots] = after
<1>1. child \in [Boots -> [Children -> Statuses]] /\ OwnObjects
  BY DEF LifeInv, TypeOK, Statuses
<1>2. /\ child' \in [Boots -> [Children -> Statuses]]
      /\ \A b \in Boots : child'[b] = IF b = boots THEN after ELSE child[b]
  BY <1>1
<1>3. ASSUME NEW b \in Boots, NEW c \in Children
      PROVE  /\ holds'[b][c] \in {0, b}
             /\ child'[b][c] = "blocked" => holds'[b][c] # 0
             /\ child'[b][c] = "running" /\ holds'[b][c] = 0 => b = boots'
             /\ b > boots' => child'[b][c] = "none"
  <2>1. /\ holds[b][c] \in {0, b}
        /\ child[b][c] = "blocked" => holds[b][c] # 0
        /\ child[b][c] = "running" /\ holds[b][c] = 0 => b = boots
        /\ b > boots => child[b][c] = "none"
    BY <1>1 DEF OwnObjects
  <2>2. CASE b = boots
    <3>1. child'[b][c] = child[b][c] \/ child'[b][c] \in {"running", "stopped"}
      BY <1>2, <2>2
    <3>2. ~(b > boots)
      BY <2>2, ConstantFacts
    <3> QED BY <2>1, <2>2, <3>1, <3>2
  <2>3. CASE b # boots
    BY <1>2, <2>1, <2>3
  <2> QED BY <2>2, <2>3
<1> QED BY <1>2, <1>3 DEF OwnObjects

LEMMA ScheduleKeeps ==
  ASSUME LifeInv, Schedule
  PROVE  LifeInv'
<1>1. boots \in Boots /\ child \in [Boots -> [Children -> Statuses]]
  BY LastBoot DEF LifeInv, Schedule, TypeOK, Statuses
<1>2. PICK chosen \in SUBSET Children :
        child' = [child EXCEPT ![boots] = [c \in Children |->
          IF ~Live(boots, c) THEN child[boots][c]
          ELSE IF c \in chosen THEN "running" ELSE "stopped"]]
  BY DEF Schedule
<1> DEFINE after == [c \in Children |->
             IF ~Live(boots, c) THEN child[boots][c]
             ELSE IF c \in chosen THEN "running" ELSE "stopped"]
<1>3. EnvFrame /\ job' = job /\ holds' = holds /\ boots' = boots
  BY DEF Schedule, EnvFrame
<1>4. /\ after \in [Children -> Statuses]
      /\ \A c \in Children :
           /\ after[c] = child[boots][c] \/ (Live(boots, c) /\ after[c] \in {"running", "stopped"})
  BY <1>1 DEF Statuses
<1>5. child' = [child EXCEPT ![boots] = after]
  BY <1>2
<1> HIDE DEF after
<1>6. child' \in [Boots -> [Children -> Statuses]] /\ OwnObjects' /\ child'[boots] = after
  BY <1>1, <1>3, <1>4, <1>5, LastBootMoves
<1>7. ASSUME NEW b \in Boots, NEW c \in Children
      PROVE  /\ child[b][c] = "none" => child'[b][c] = "none"
             /\ Live(b, c)' => Live(b, c)
  <2>1. CASE b = boots
    BY <1>4, <1>6, <2>1 DEF Live
  <2>2. CASE b # boots
    BY <1>1, <1>5, <2>2 DEF Live
  <2> QED BY <2>1, <2>2
<1>8. /\ job' \in [Boots -> {"none", "shell", "script", "stopped", "no job"}]
      /\ holds' \in [Boots -> [Children -> 0..MaxBoots]]
  BY <1>3 DEF LifeInv, TypeOK
<1> QED BY <1>3, <1>6, <1>7, <1>8, ChildrenMove

LEMMA BootKeeps ==
  ASSUME LifeInv, Boot
  PROVE  LifeInv'
<1>1. TypeOK /\ OwnObjects /\ KernelObjects
  BY DEF LifeInv
<1>2. /\ kpc \in Ended /\ boots < MaxBoots
      /\ \A b \in Boots, c \in Children : child[b][c] = "running" => holds[b][c] # 0
      /\ boots' = boots + 1 /\ kpc' = "makeFIFO" /\ kidx' = kidx
      /\ UNCHANGED names /\ UNCHANGED opened /\ child' = child /\ holds' = holds
      /\ \E how \in {"shell", "script", "no job"} : job' = [job EXCEPT ![boots + 1] = how]
  BY DEF Boot
<1>3. boots \in 0..MaxBoots
  BY <1>1 DEF TypeOK
<1>4. /\ boots + 1 \in Boots /\ boots + 1 \in 0..MaxBoots /\ boots + 1 > 0
      /\ \A b \in Boots : b > boots + 1 => b > boots
      /\ boots + 1 > boots
  <2>1. MaxBoots \in Nat
    BY ConstantFacts
  <2>2. boots < MaxBoots
    BY <1>2
  <2> QED BY <1>3, <2>1, <2>2 DEF Boots
<1>5. job' \in [Boots -> {"none", "shell", "script", "stopped", "no job"}]
  BY <1>1, <1>2 DEF TypeOK
<1>6. TypeOK'
  BY <1>1, <1>2, <1>4, <1>5 DEF TypeOK, names, opened
<1>7. OwnObjects'
  BY <1>1, <1>2, <1>4 DEF OwnObjects
<1>8. KernelObjects'
  BY <1>1, <1>2 DEF KernelObjects, HasSegment, opened, Ended, Mapped, Closing
<1>9. \A c \in Children : child'[boots'][c] = "none"
  BY <1>1, <1>2, <1>4 DEF OwnObjects
<1>10. NamesAwait'
  BY <1>9, ChildFacts DEF NamesAwait, Live, Closing
<1>11. ReturnIsClean'
  BY <1>2 DEF ReturnIsClean
<1> QED BY <1>6, <1>7, <1>8, <1>10, <1>11 DEF LifeInv

\* A turn of a loop over the apps either goes on to the next app, or the loop
\* has been through all of them.
LEMMA TurnFacts ==
  ASSUME kidx \in Apps
  PROVE  /\ 0 \in Apps
         /\ kidx < N - 1 => kidx + 1 \in Apps
         /\ ~(kidx < N - 1) => \A i \in Apps : i < kidx \/ i = kidx
<1>1. N \in Nat /\ N > 0 /\ kidx \in 0..(N - 1)
  BY ConstantFacts DEF Apps
<1> QED BY <1>1 DEF Apps

\* What LifeInv says while a kernel is under way.
LEMMA UnderWay ==
  ASSUME LifeInv, kpc \notin Ended
  PROVE  /\ boots \in Boots /\ boots > 0 /\ boots \in 0..MaxBoots
         /\ 0 \in Apps /\ 0 \in 0..MaxBoots /\ kidx \in Apps
         /\ child \in [Boots -> [Children -> Statuses]]
         /\ child[boots] \in [Children -> Statuses]
         /\ fd_irq = IF kpc \in Closing \cup {"makeFIFO", "openFIFO"} THEN 0 ELSE boots
         /\ kpc \notin {"makeFIFO", "closeShms"} => fifoName = boots
         /\ \A c \in Children : Unborn(c) => child[boots][c] = "none"
         /\ Live(boots, IC) => kpc \notin Closing
         /\ \A i \in Apps : Live(boots, i) => shmName[i] = boots /\ kpc \notin Closing \cup {"wait"}
<1>1. TypeOK /\ boots \in Boots
  BY LastBoot DEF LifeInv, Ended
<1>2. boots > 0 /\ boots \in 0..MaxBoots
  BY <1>1, ConstantFacts DEF TypeOK
<1>3. 0 \in Apps /\ 0 \in 0..MaxBoots
  BY ConstantFacts
<1> QED BY <1>1, <1>2, <1>3 DEF LifeInv, TypeOK, KernelObjects, HasSegment, NamesAwait, Statuses

LEMMA makeFIFOKeeps ==
  ASSUME LifeInv, makeFIFO
  PROVE  LifeInv'
<1>1. /\ kpc = "makeFIFO" /\ fifoName' = boots /\ kpc' = "openFIFO" /\ kidx' = 0
      /\ boots' = boots /\ job' = job /\ shmName' = shmName
      /\ fd_irq' = fd_irq /\ shm' = shm /\ child' = child /\ holds' = holds
  BY DEF makeFIFO, Go, opened
<1>2. kpc \notin Ended
  BY <1>1 DEF Ended
<1>3. TypeOK'
  BY <1>1, <1>2, UnderWay DEF LifeInv, TypeOK
<1>4. OwnObjects'
  BY <1>1 DEF LifeInv, OwnObjects
<1>5. KernelObjects'
  BY <1>1 DEF LifeInv, KernelObjects, HasSegment, Ended, Mapped, Closing
<1>6. NamesAwait'
  <2>1. \A c \in Children : child[boots][c] = "none"
    BY <1>1, <1>2, UnderWay DEF Unborn
  <2> QED BY <1>1, <2>1, ChildFacts DEF NamesAwait, Live, Closing
<1>7. ReturnIsClean'
  BY <1>1 DEF ReturnIsClean
<1> QED BY <1>3, <1>4, <1>5, <1>6, <1>7 DEF LifeInv

LEMMA openFIFOKeeps ==
  ASSUME LifeInv, openFIFO
  PROVE  LifeInv'
<1>1. /\ kpc = "openFIFO" /\ fd_irq' = fifoName /\ kpc' = "forkIC" /\ kidx' = 0
      /\ boots' = boots /\ job' = job /\ shmName' = shmName /\ fifoName' = fifoName
      /\ shm' = shm /\ child' = child /\ holds' = holds
  BY DEF openFIFO, Go, names
<1>2. kpc \notin Ended
  BY <1>1 DEF Ended
<1>3. TypeOK'
  BY <1>1, <1>2, UnderWay DEF LifeInv, TypeOK
<1>4. OwnObjects'
  BY <1>1 DEF LifeInv, OwnObjects
<1>5. KernelObjects'
  BY <1>1, <1>2, UnderWay DEF LifeInv, KernelObjects, HasSegment, Ended, Mapped, Closing
<1>6. NamesAwait'
  <2>1. \A c \in Children : child[boots][c] = "none"
    BY <1>1, <1>2, UnderWay DEF Unborn
  <2> QED BY <1>1, <2>1, ChildFacts DEF NamesAwait, Live, Closing
<1>7. ReturnIsClean'
  BY <1>1 DEF ReturnIsClean
<1> QED BY <1>3, <1>4, <1>5, <1>6, <1>7 DEF LifeInv

\* The kernel forks, stops or continues child c, and nothing else happens to
\* the children.
LEMMA SetChildFacts ==
  ASSUME LifeInv, kpc \notin Ended, NEW c \in Children, NEW s,
         s = child[boots][c] \/ s \in {"running", "stopped"},
         SetChild(c, s), holds' = holds, boots' = boots
  PROVE  /\ child' \in [Boots -> [Children -> Statuses]]
         /\ OwnObjects'
         /\ \A d \in Children : child'[boots][d] = IF d = c THEN s ELSE child[boots][d]
<1> DEFINE after == [child[boots] EXCEPT ![c] = s]
<1>1. boots \in Boots /\ child[boots] \in [Children -> Statuses]
      /\ child \in [Boots -> [Children -> Statuses]]
  BY UnderWay
<1>2. s \in Statuses
  BY <1>1 DEF Statuses
<1>3. after \in [Children -> Statuses]
      /\ \A d \in Children : after[d] = IF d = c THEN s ELSE child[boots][d]
  BY <1>1, <1>2
<1>4. child' = [child EXCEPT ![boots] = after]
  BY <1>1 DEF SetChild
<1> HIDE DEF after
<1>5. child' \in [Boots -> [Children -> Statuses]] /\ OwnObjects' /\ child'[boots] = after
  BY <1>1, <1>3, <1>4, LastBootMoves
<1> QED BY <1>3, <1>5

LEMMA ForkICKeeps ==
  ASSUME LifeInv, ForkIC
  PROVE  LifeInv'
<1>1. /\ kpc = "forkIC" /\ kpc' = "clean" /\ kidx' = 0 /\ SetChild(IC, "running")
      /\ boots' = boots /\ job' = job /\ shmName' = shmName /\ fifoName' = fifoName
      /\ fd_irq' = fd_irq /\ shm' = shm /\ holds' = holds
  BY DEF ForkIC, Go, names, opened
<1>2. kpc \notin Ended
  BY <1>1 DEF Ended
<1>3. /\ child' \in [Boots -> [Children -> Statuses]] /\ OwnObjects'
      /\ \A d \in Children : child'[boots][d] = IF d = IC THEN "running" ELSE child[boots][d]
  BY <1>1, <1>2, SetChildFacts, ChildFacts
<1>4. TypeOK'
  BY <1>1, <1>2, <1>3, UnderWay DEF LifeInv, TypeOK, Statuses
<1>5. KernelObjects'
  BY <1>1 DEF LifeInv, KernelObjects, HasSegment, Ended, Mapped, Closing
<1>6. NamesAwait'
  <2>1. \A i \in Apps : child'[boots'][i] = "none"
    BY <1>1, <1>2, <1>3, UnderWay, ChildFacts DEF Unborn
  <2>2. fifoName' = boots'
    BY <1>1, <1>2, UnderWay
  <2>3. ~Unborn(IC)'
    BY <1>1, ChildFacts DEF Unborn
  <2> QED BY <1>1, <2>1, <2>2, <2>3, ChildFacts DEF NamesAwait, Live, Closing
<1>7. ReturnIsClean'
  BY <1>1 DEF ReturnIsClean
<1> QED BY <1>3, <1>4, <1>5, <1>6, <1>7 DEF LifeInv

LEMMA StopAndCleanKeeps ==
  ASSUME LifeInv, StopAndClean
  PROVE  LifeInv'
<1>1. /\ kpc = "clean" /\ kpc' = "shm_open" /\ kidx' = 0
      /\ SetChild(IC, Stopped(child[boots][IC]))
      /\ shmName' = [i \in Apps |-> 0]
      /\ boots' = boots /\ job' = job /\ fifoName' = fifoName
      /\ fd_irq' = fd_irq /\ shm' = shm /\ holds' = holds
  BY DEF StopAndClean, Go, opened
<1>2. kpc \notin Ended
  BY <1>1 DEF Ended
<1>3. Stopped(child[boots][IC]) = child[boots][IC] \/ Stopped(child[boots][IC]) = "stopped"
  BY DEF Stopped
<1>4. /\ child' \in [Boots -> [Children -> Statuses]] /\ OwnObjects'
      /\ \A d \in Children : d # IC => child'[boots][d] = child[boots][d]
  BY <1>1, <1>2, <1>3, SetChildFacts, ChildFacts
<1>5. TypeOK'
  BY <1>1, <1>2, <1>4, UnderWay DEF LifeInv, TypeOK, Statuses
<1>6. KernelObjects'
  <2>1. ASSUME NEW i \in Apps PROVE shm[i] = 0 /\ ~(i < 0)
    BY <1>1, ChildFacts DEF LifeInv, KernelObjects, HasSegment, Mapped, Apps
  <2> QED BY <1>1, <2>1 DEF LifeInv, KernelObjects, HasSegment, Ended, Mapped, Closing
<1>7. NamesAwait'
  <2>1. \A i \in Apps : child'[boots'][i] = "none"
    BY <1>1, <1>2, <1>4, UnderWay, ChildFacts DEF Unborn
  <2>2. fifoName' = boots'
    BY <1>1, <1>2, UnderWay
  <2>3. ~Unborn(IC)'
    BY <1>1, ChildFacts DEF Unborn
  <2> QED BY <1>1, <2>1, <2>2, <2>3, ChildFacts DEF NamesAwait, Live, Closing
<1>8. ReturnIsClean'
  BY <1>1 DEF ReturnIsClean
<1> QED BY <1>4, <1>5, <1>6, <1>7, <1>8 DEF LifeInv

LEMMA OpenSegmentKeeps ==
  ASSUME LifeInv, OpenSegment
  PROVE  LifeInv'
<1>1. /\ kpc = "shm_open" /\ Turn("shm_open", "fork")
      /\ shmName' = [shmName EXCEPT ![kidx] = IF @ = 0 THEN boots ELSE @]
      /\ shm' = [shm EXCEPT ![kidx] = shmName'[kidx]]
      /\ boots' = boots /\ job' = job /\ fifoName' = fifoName
      /\ fd_irq' = fd_irq /\ child' = child /\ holds' = holds
  BY DEF OpenSegment
<1>2. kpc \notin Ended
  BY <1>1 DEF Ended
<1>3. /\ boots \in 0..MaxBoots /\ kidx \in Apps /\ boots \in Boots
      /\ shmName \in [Apps -> 0..MaxBoots] /\ shm \in [Apps -> 0..MaxBoots]
  BY <1>2, UnderWay DEF LifeInv, TypeOK
<1>4. ASSUME NEW i \in Apps
      PROVE  shmName[i] = shm[i] /\ shm[i] = IF i < kidx THEN boots ELSE 0
  BY <1>1 DEF LifeInv, KernelObjects, HasSegment, Mapped, Closing
<1>5. shmName[kidx] = 0
  <2>1. ~(kidx < kidx)
    BY <1>3, ChildFacts
  <2> QED BY <1>3, <1>4, <2>1
<1>6. /\ shmName' \in [Apps -> 0..MaxBoots] /\ shm' \in [Apps -> 0..MaxBoots]
      /\ \A i \in Apps : /\ shmName'[i] = IF i = kidx THEN boots ELSE shmName[i]
                       /\ shm'[i] = IF i = kidx THEN boots ELSE shm[i]
  BY <1>1, <1>3, <1>5
<1>7. /\ kidx' \in Apps
      /\ \/ kpc' = "shm_open" /\ \A i \in Apps : i < kidx' <=> i < kidx \/ i = kidx
         \/ kpc' = "fork" /\ kidx' = 0 /\ \A i \in Apps : i < kidx \/ i = kidx
  <2>1. CASE kidx < N - 1 /\ kpc' = "shm_open" /\ kidx' = kidx + 1
    <3>1. kidx' \in Apps
      BY <1>3, <2>1, TurnFacts
    <3>2. ASSUME NEW i \in Apps
          PROVE  /\ i < kidx' <=> i < kidx \/ i = kidx
                 /\ i >= kidx' <=> i >= kidx /\ i # kidx
      <4>1. i \in Int /\ kidx \in Int
        BY <1>3, ChildFacts
      <4> QED BY <2>1, <4>1
    <3> QED BY <2>1, <3>1, <3>2
  <2>2. CASE ~(kidx < N - 1) /\ kpc' = "fork" /\ kidx' = 0
    BY <1>3, <2>2, TurnFacts
  <2> QED BY <1>1, <2>1, <2>2 DEF Turn, Go
<1>8. TypeOK'
  BY <1>1, <1>3, <1>6, <1>7 DEF LifeInv, TypeOK
<1>9. OwnObjects'
  BY <1>1 DEF LifeInv, OwnObjects
<1>10. KernelObjects'
  <2>1. ASSUME NEW i \in Apps
        PROVE  /\ shm'[i] = IF kpc' = "fork" \/ i < kidx' THEN boots ELSE 0
               /\ shmName'[i] = shm'[i]
    BY <1>4, <1>6, <1>7
  <2>2. fifoName' = boots' /\ fd_irq' = boots'
    BY <1>1, <1>2, UnderWay DEF Closing
  <2>3. kpc' \in {"shm_open", "fork"}
    BY <1>7
  <2> QED BY <1>1, <2>1, <2>2, <2>3 DEF KernelObjects, HasSegment, Ended, Mapped, Closing
<1>11. NamesAwait'
  <2>1. \A i \in Apps : child'[boots'][i] = "none"
    BY <1>1, <1>2, UnderWay, ChildFacts DEF Unborn
  <2>2. fifoName' = boots'
    BY <1>1, <1>2, UnderWay
  <2>3. ~Unborn(IC)'
    BY <1>7, ChildFacts DEF Unborn
  <2> QED BY <1>7, <2>1, <2>2, <2>3, ChildFacts DEF NamesAwait, Live, Closing
<1>12. ReturnIsClean'
  BY <1>7 DEF ReturnIsClean
<1> QED BY <1>8, <1>9, <1>10, <1>11, <1>12 DEF LifeInv

\* From the first fork on, every name is the kernel's own.
LEMMA NamesWhenMapped ==
  ASSUME LifeInv, kpc \in Mapped
  PROVE  fifoName = boots /\ fd_irq = boots
         /\ \A i \in Apps : shmName[i] = boots /\ shm[i] = boots
BY DEF LifeInv, KernelObjects, HasSegment, Mapped, Ended, Closing

\* A step inside that part of main, which only concerns the children.
LEMMA MappedStep ==
  ASSUME LifeInv, kpc \in Mapped, kpc' \in Mapped, kidx' \in Apps,
         boots' = boots, job' = job, UNCHANGED names, UNCHANGED opened, holds' = holds,
         child' \in [Boots -> [Children -> Statuses]], OwnObjects',
         \A i \in Apps :
           /\ Unborn(i)' => child'[boots][i] = "none"
           /\ kpc' = "wait" => ~Live(boots, i)'
  PROVE  LifeInv'
<1>1. /\ kpc \notin Ended /\ kpc' \notin Ended
      /\ kpc' \notin Closing \cup {"makeFIFO", "openFIFO", "forkIC", "shm_open", "clean"}
  BY DEF Ended, Mapped, Closing
<1>2. boots \in 0..MaxBoots /\ boots > 0
  BY <1>1, UnderWay
<1>3. /\ fifoName = boots /\ fd_irq = boots
      /\ \A i \in Apps : shmName[i] = boots /\ shm[i] = boots
  BY NamesWhenMapped
<1>4. TypeOK'
  BY <1>1, <1>2 DEF LifeInv, TypeOK, Statuses, names, opened, Mapped
<1>5. KernelObjects'
  BY <1>1, <1>3 DEF KernelObjects, HasSegment, names, opened, Mapped
<1>6. NamesAwait'
  <2>1. ~Unborn(IC)'
    BY <1>1, ChildFacts DEF Unborn, Mapped
  <2>2. ASSUME NEW i \in Apps, Live(boots, i)' PROVE shmName'[i] = boots /\ kpc' \notin Closing \cup {"wait"}
    BY <1>1, <1>3, <2>2 DEF names
  <2>3. fifoName' = boots
    BY <1>3 DEF names
  <2> QED BY <1>1, <2>1, <2>2, <2>3, ChildFacts DEF NamesAwait, Live, Closing
<1>7. ReturnIsClean'
  BY <1>1 DEF ReturnIsClean, Ended
<1> QED BY <1>4, <1>5, <1>6, <1>7 DEF LifeInv

LEMMA ForkAppKeeps ==
  ASSUME LifeInv, ForkApp
  PROVE  LifeInv'
<1>1. /\ kpc = "fork" /\ kpc' = "halt" /\ kidx' = kidx /\ SetChild(kidx, "running")
      /\ boots' = boots /\ job' = job /\ UNCHANGED names /\ UNCHANGED opened /\ holds' = holds
  BY DEF ForkApp
<1>2. kpc \notin Ended /\ kpc \in Mapped /\ kpc' \in Mapped
  BY <1>1 DEF Ended, Mapped, Closing
<1>3. kidx \in Apps /\ kidx \in Children
  BY <1>2, UnderWay, ChildFacts
<1>4. /\ child' \in [Boots -> [Children -> Statuses]] /\ OwnObjects'
      /\ \A d \in Children : child'[boots][d] = IF d = kidx THEN "running" ELSE child[boots][d]
  BY <1>1, <1>2, <1>3, SetChildFacts
<1>5. ASSUME NEW i \in Apps, Unborn(i)' PROVE child'[boots][i] = "none"
  <2>1. i > kidx
    BY <1>1, <1>5 DEF Unborn
  <2>2. i \in Children /\ i # kidx /\ i >= kidx
    BY <1>3, <2>1, ChildFacts
  <2>3. Unborn(i)
    BY <1>1, <2>2 DEF Unborn
  <2> QED BY <1>2, <1>4, <2>2, <2>3, UnderWay
<1> QED BY <1>1, <1>2, <1>3, <1>4, <1>5, MappedStep

LEMMA HaltAppKeeps ==
  ASSUME LifeInv, HaltApp
  PROVE  LifeInv'
<1>1. /\ kpc = "halt" /\ Turn("fork", "launch")
      /\ SetChild(kidx, Stopped(child[boots][kidx]))
      /\ boots' = boots /\ job' = job /\ UNCHANGED names /\ UNCHANGED opened /\ holds' = holds
  BY DEF HaltApp
<1>2. kpc \notin Ended /\ kpc \in Mapped
  BY <1>1 DEF Ended, Mapped, Closing
<1>3. kidx \in Apps /\ kidx \in Children
  BY <1>2, UnderWay, ChildFacts
<1>4. /\ kidx' \in Apps
      /\ \/ kpc' = "fork" /\ \A i \in Apps : i >= kidx' <=> i >= kidx /\ i # kidx
         \/ kpc' = "launch"
  <2>1. CASE kidx < N - 1 /\ kpc' = "fork" /\ kidx' = kidx + 1
    <3>1. kidx' \in Apps
      BY <1>3, <2>1, TurnFacts
    <3>2. ASSUME NEW i \in Apps
          PROVE  /\ i < kidx' <=> i < kidx \/ i = kidx
                 /\ i >= kidx' <=> i >= kidx /\ i # kidx
      <4>1. i \in Int /\ kidx \in Int
        BY <1>3, ChildFacts
      <4> QED BY <2>1, <4>1
    <3> QED BY <2>1, <3>1, <3>2
  <2>2. CASE ~(kidx < N - 1) /\ kpc' = "launch" /\ kidx' = 0
    BY <1>3, <2>2, TurnFacts
  <2> QED BY <1>1, <2>1, <2>2 DEF Turn, Go
<1>5. Stopped(child[boots][kidx]) = child[boots][kidx] \/ Stopped(child[boots][kidx]) = "stopped"
  BY DEF Stopped
<1>6. /\ child' \in [Boots -> [Children -> Statuses]] /\ OwnObjects'
      /\ \A d \in Children : d # kidx => child'[boots][d] = child[boots][d]
  BY <1>1, <1>2, <1>3, <1>5, SetChildFacts
<1>7. ASSUME NEW i \in Apps, Unborn(i)' PROVE child'[boots][i] = "none"
  <2>1. i >= kidx /\ i # kidx
    BY <1>4, <1>7 DEF Unborn
  <2>2. i \in Children /\ i > kidx
    BY <1>3, <2>1, ChildFacts
  <2>3. Unborn(i)
    BY <1>1, <2>2 DEF Unborn
  <2> QED BY <1>2, <1>6, <2>1, <2>2, <2>3, UnderWay
<1>8. kpc' \in Mapped /\ kpc' # "wait"
  BY <1>4 DEF Mapped
<1> QED BY <1>1, <1>2, <1>4, <1>6, <1>7, <1>8, MappedStep

LEMMA LaunchICKeeps ==
  ASSUME LifeInv, LaunchIC
  PROVE  LifeInv'
<1> DEFINE s == IF child[boots][IC] = "stopped" THEN "running" ELSE child[boots][IC]
<1>1. /\ kpc = "launch" /\ kpc' = "loop" /\ kidx' = 0 /\ SetChild(IC, s)
      /\ boots' = boots /\ job' = job /\ UNCHANGED names /\ UNCHANGED opened /\ holds' = holds
  BY DEF LaunchIC, Go
<1>2. kpc \notin Ended /\ kpc \in Mapped /\ kpc' \in Mapped
  BY <1>1 DEF Ended, Mapped, Closing
<1>3. s = child[boots][IC] \/ s = "running"
  OBVIOUS
<1> HIDE DEF s
<1>4. child' \in [Boots -> [Children -> Statuses]] /\ OwnObjects'
  BY <1>1, <1>2, <1>3, SetChildFacts, ChildFacts
<1>5. 0 \in Apps
  BY ConstantFacts
<1> QED BY <1>1, <1>2, <1>4, <1>5, MappedStep DEF Unborn

LEMMA LeaveLoopKeeps ==
  ASSUME LifeInv, LeaveLoop
  PROVE  LifeInv'
<1>1. /\ kpc = "loop" /\ kpc' = "wait" /\ kidx' = kidx /\ child' = child
      /\ \A i \in Apps : ~Live(boots, i)
      /\ boots' = boots /\ job' = job /\ UNCHANGED names /\ UNCHANGED opened /\ holds' = holds
  BY DEF LeaveLoop
<1>2. kpc \notin Ended /\ kpc \in Mapped /\ kpc' \in Mapped
  BY <1>1 DEF Ended, Mapped, Closing
<1>3. kidx' \in Apps /\ child' \in [Boots -> [Children -> Statuses]]
  BY <1>1, <1>2, UnderWay
<1>4. OwnObjects'
  BY <1>1 DEF LifeInv, OwnObjects
<1>5. \A i \in Apps : ~Unborn(i)' /\ ~Live(boots, i)'
  BY <1>1 DEF Unborn, Live
<1> QED BY <1>1, <1>2, <1>3, <1>4, <1>5, MappedStep

LEMMA WaitForChildrenKeeps ==
  ASSUME LifeInv, WaitForChildren
  PROVE  LifeInv'
<1>1. /\ kpc = "wait" /\ ~Live(boots, IC) /\ kpc' = "unlink" /\ kidx' = 0 /\ fd_irq' = 0
      /\ fifoName' = fifoName /\ shmName' = shmName /\ shm' = shm
      /\ boots' = boots /\ job' = job /\ child' = child /\ holds' = holds
  BY DEF WaitForChildren, HasEnded, Go, names
<1>2. kpc \notin Ended
  BY <1>1 DEF Ended
<1>3. \A c \in Children : ~Live(boots, c)
  BY <1>1, <1>2, UnderWay, ChildFacts
<1>4. TypeOK'
  BY <1>1, <1>2, UnderWay DEF LifeInv, TypeOK
<1>5. OwnObjects'
  BY <1>1 DEF LifeInv, OwnObjects
<1>6. KernelObjects'
  BY <1>1 DEF LifeInv, KernelObjects, HasSegment, Ended, Mapped, Closing
<1>7. NamesAwait'
  BY <1>1, <1>3, ChildFacts DEF NamesAwait, Live, Unborn
<1>8. ReturnIsClean'
  BY <1>1 DEF ReturnIsClean
<1> QED BY <1>4, <1>5, <1>6, <1>7, <1>8 DEF LifeInv

\* While the kernel closes what it has, none of its children is left.
LEMMA NoChildWhileClosing ==
  ASSUME LifeInv, kpc \in Closing
  PROVE  kpc \notin Ended /\ \A c \in Children : ~Live(boots, c)
<1>1. kpc \notin Ended
  BY DEF Ended, Closing
<1> QED BY <1>1, UnderWay, ChildFacts

LEMMA UnlinkFIFOKeeps ==
  ASSUME LifeInv, UnlinkFIFO
  PROVE  LifeInv'
<1>1. /\ kpc = "unlink" /\ kpc' = "closeShms" /\ kidx' = 0 /\ fifoName' = 0
      /\ fd_irq' = fd_irq /\ shmName' = shmName /\ shm' = shm
      /\ boots' = boots /\ job' = job /\ child' = child /\ holds' = holds
  BY DEF UnlinkFIFO, Go, opened
<1>2. kpc \notin Ended /\ \A c \in Children : ~Live(boots, c)
  BY <1>1, NoChildWhileClosing DEF Closing
<1>4. TypeOK'
  BY <1>1, <1>2, UnderWay DEF LifeInv, TypeOK
<1>5. OwnObjects'
  BY <1>1 DEF LifeInv, OwnObjects
<1>6. KernelObjects'
  <2>1. \A i \in Apps : shm[i] = boots /\ shmName[i] = boots
    BY <1>1 DEF LifeInv, KernelObjects, HasSegment, Closing, Mapped
  <2>2. ASSUME NEW i \in Apps PROVE i >= 0
    BY <2>2 DEF Apps
  <2>3. fd_irq' = 0
    BY <1>1, <1>2, UnderWay DEF Closing
  <2> QED BY <1>1, <2>1, <2>2, <2>3 DEF KernelObjects, HasSegment, Ended, Mapped, Closing
<1>7. NamesAwait'
  BY <1>1, <1>2, ChildFacts DEF NamesAwait, Live, Unborn
<1>8. ReturnIsClean'
  BY <1>1 DEF ReturnIsClean
<1> QED BY <1>4, <1>5, <1>6, <1>7, <1>8 DEF LifeInv

LEMMA closeShmsKeeps ==
  ASSUME LifeInv, closeShms
  PROVE  LifeInv'
<1>1. /\ kpc = "closeShms" /\ Turn("closeShms", "returned")
      /\ shm' = [shm EXCEPT ![kidx] = 0] /\ shmName' = [shmName EXCEPT ![kidx] = 0]
      /\ fifoName' = fifoName /\ fd_irq' = fd_irq
      /\ boots' = boots /\ job' = job /\ child' = child /\ holds' = holds
  BY DEF closeShms
<1>2. kpc \notin Ended /\ \A c \in Children : ~Live(boots, c)
  BY <1>1, NoChildWhileClosing DEF Closing
<1>3. /\ kidx \in Apps /\ boots \in Boots
      /\ shmName \in [Apps -> 0..MaxBoots] /\ shm \in [Apps -> 0..MaxBoots]
      /\ 0 \in 0..MaxBoots
  BY <1>2, UnderWay DEF LifeInv, TypeOK
<1>4. ASSUME NEW i \in Apps
      PROVE  shmName[i] = shm[i] /\ shm[i] = IF i >= kidx THEN boots ELSE 0
  BY <1>1 DEF LifeInv, KernelObjects, HasSegment, Mapped, Closing
<1>5. /\ shmName' \in [Apps -> 0..MaxBoots] /\ shm' \in [Apps -> 0..MaxBoots]
      /\ \A i \in Apps : /\ shmName'[i] = IF i = kidx THEN 0 ELSE shmName[i]
                       /\ shm'[i] = IF i = kidx THEN 0 ELSE shm[i]
  BY <1>1, <1>3
<1>6. /\ kidx' \in Apps
      /\ \/ kpc' = "closeShms" /\ \A i \in Apps : i >= kidx' <=> i >= kidx /\ i # kidx
         \/ kpc' = "returned" /\ \A i \in Apps : i < kidx \/ i = kidx
  <2>1. CASE kidx < N - 1 /\ kpc' = "closeShms" /\ kidx' = kidx + 1
    <3>1. kidx' \in Apps
      BY <1>3, <2>1, TurnFacts
    <3>2. ASSUME NEW i \in Apps
          PROVE  i >= kidx' <=> i >= kidx /\ i # kidx
      <4>1. i \in Int /\ kidx \in Int
        BY <1>3, ChildFacts
      <4> QED BY <2>1, <4>1
    <3> QED BY <2>1, <3>1, <3>2
  <2>2. CASE ~(kidx < N - 1) /\ kpc' = "returned" /\ kidx' = 0
    BY <1>3, <2>2, TurnFacts
  <2> QED BY <1>1, <2>1, <2>2 DEF Turn, Go
<1>7. TypeOK'
  BY <1>1, <1>3, <1>5, <1>6 DEF LifeInv, TypeOK, Ended
<1>8. OwnObjects'
  BY <1>1 DEF LifeInv, OwnObjects
<1>9. fifoName' = 0 /\ fd_irq' = 0
  BY <1>1, <1>2, UnderWay DEF LifeInv, KernelObjects, HasSegment, Closing, Mapped
<1>10. CASE kpc' = "closeShms"
  <2>1. ASSUME NEW i \in Apps
        PROVE  shmName'[i] = shm'[i] /\ shm'[i] = IF i >= kidx' THEN boots ELSE 0
    BY <1>4, <1>5, <1>6, <1>10
  <2>2. KernelObjects'
    BY <1>1, <1>9, <1>10, <2>1 DEF KernelObjects, HasSegment, Ended, Mapped, Closing
  <2>3. NamesAwait'
    BY <1>1, <1>2, <1>10, ChildFacts DEF NamesAwait, Live, Unborn
  <2>4. ReturnIsClean'
    BY <1>10 DEF ReturnIsClean
  <2> QED BY <1>7, <1>8, <2>2, <2>3, <2>4 DEF LifeInv
<1>11. CASE kpc' = "returned"
  <2>1. ASSUME NEW i \in Apps PROVE shmName'[i] = 0 /\ shm'[i] = 0
    <3>1. i < kidx \/ i = kidx
      BY <1>6, <1>11
    <3>2. CASE i = kidx
      BY <1>5, <3>2
    <3>3. CASE i # kidx
      <4>1. ~(i >= kidx) /\ i \in Int /\ kidx \in Int
        BY <1>3, <3>1, <3>3, ChildFacts
      <4> QED BY <1>4, <1>5, <3>3, <4>1
    <3> QED BY <3>2, <3>3
  <2>2. KernelObjects'
    BY <1>9, <1>11, <2>1 DEF KernelObjects, HasSegment, Ended, Mapped, Closing
  <2>3. NamesAwait'
    BY <1>1, <1>2, <1>11, ChildFacts DEF NamesAwait, Live, Unborn
  <2>4. ReturnIsClean'
    BY <1>1, <1>2, <1>9, <2>1 DEF ReturnIsClean, Live
  <2> QED BY <1>7, <1>8, <2>2, <2>3, <2>4 DEF LifeInv
<1> QED BY <1>6, <1>10, <1>11

LEMMA KernelStepKeeps ==
  ASSUME LifeInv, KernelStep
  PROVE  LifeInv'
BY makeFIFOKeeps, openFIFOKeeps, ForkICKeeps, StopAndCleanKeeps, OpenSegmentKeeps,
   ForkAppKeeps, HaltAppKeeps, LaunchICKeeps, LeaveLoopKeeps,
   WaitForChildrenKeeps, UnlinkFIFOKeeps, closeShmsKeeps
DEF KernelStep

\* The ways a kernel ends before its time.
LEMMA UntimelyEndKeeps ==
  ASSUME LifeInv, ExitOnFailure \/ sigtstpHandler \/ Crash
  PROVE  LifeInv'
<1>1. kpc \notin Ended
  BY DEF ExitOnFailure, sigtstpHandler, Crash, Ended
<1>2. /\ boots \in Boots /\ child[boots] \in [Children -> Statuses]
      /\ job \in [Boots -> {"none", "shell", "script", "stopped", "no job"}]
  BY <1>1, UnderWay DEF LifeInv, TypeOK
<1>3. Fades(child[boots], child[boots])
  BY <1>2 DEF Fades
<1>4. CASE ExitOnFailure
  <2>1. /\ Ends("dead", child[boots]) /\ job' = job
        /\ fifoName' = fifoName \/ (kpc = "makeFIFO" /\ fifoName' = 0)
    BY <1>4 DEF ExitOnFailure
  <2> QED BY <1>1, <1>2, <1>3, <2>1, KernelEnds
<1>5. CASE Crash
  <2>1. Ends("dead", child[boots]) /\ job' = job /\ fifoName' = fifoName
    BY <1>5 DEF Crash
  <2> QED BY <1>1, <1>2, <1>3, <2>1, KernelEnds
<1>6. CASE sigtstpHandler
  <2>1. PICK spared \in SUBSET {c \in Children : child[boots][c] = "running"} :
          Ends("dead", [c \in Children |->
            CASE ~Live(boots, c) -> child[boots][c]
              [] child[boots][c] = "stopped" \/ c \in spared -> "stopped"
              [] OTHER -> "dead"])
    BY <1>6 DEF sigtstpHandler
  <2> DEFINE status == [c \in Children |->
                          CASE ~Live(boots, c) -> child[boots][c]
                            [] child[boots][c] = "stopped" \/ c \in spared -> "stopped"
                            [] OTHER -> "dead"]
  <2>2. Fades(child[boots], status)
    <3>1. ASSUME NEW c \in Children
          PROVE  /\ status[c] \in Statuses
                 /\ \/ status[c] = child[boots][c]
                    \/ child[boots][c] # "none" /\ status[c] = "dead"
                    \/ child[boots][c] = "running" /\ status[c] = "stopped"
      <4>1. child[boots][c] \in Statuses /\ (c \in spared => child[boots][c] = "running")
        BY <1>2, <2>1
      <4>2. CASE ~Live(boots, c)
        BY <4>1, <4>2 DEF Live
      <4>3. CASE Live(boots, c) /\ (child[boots][c] = "stopped" \/ c \in spared)
        <5>1. status[c] = "stopped"
          BY <4>1, <4>3 DEF Live
        <5> QED BY <4>1, <4>3, <5>1 DEF Live, Statuses
      <4>4. CASE Live(boots, c) /\ ~(child[boots][c] = "stopped" \/ c \in spared)
        <5>1. status[c] = "dead"
          BY <4>4
        <5> QED BY <4>4, <5>1 DEF Live, Statuses
      <4> QED BY <4>2, <4>3, <4>4
    <3> QED BY <3>1 DEF Fades
  <2>3. Ends("dead", status)
    BY <2>1
  <2> HIDE DEF status
  <2>4. fifoName' = fifoName
    BY <1>6 DEF sigtstpHandler
  <2>5. job' \in [Boots -> {"none", "shell", "script", "stopped", "no job"}]
    BY <1>2, <1>6 DEF sigtstpHandler
  <2> QED BY <1>1, <2>2, <2>3, <2>4, <2>5, KernelEnds
<1> QED BY <1>4, <1>5, <1>6
----------------------------------------------------------------------------
LEMMA LifeInitially == Init => LifeInv
<1> SUFFICES ASSUME Init PROVE LifeInv
  OBVIOUS
<1>1. /\ boots = 0 /\ kpc = "off" /\ kidx = 0 /\ fifoName = 0 /\ fd_irq = 0
      /\ job = [b \in Boots |-> "none"]
      /\ shmName = [i \in Apps |-> 0] /\ shm = [i \in Apps |-> 0]
      /\ child = [b \in Boots |-> [c \in Children |-> "none"]]
      /\ holds = [b \in Boots |-> [c \in Children |-> 0]]
  BY DEF Init
<1>2. 0 \in Apps /\ 0 \in 0..MaxBoots
  BY ConstantFacts
<1>3. TypeOK
  BY <1>1, <1>2 DEF TypeOK, Ended
<1>4. OwnObjects
  BY <1>1 DEF OwnObjects
<1>5. KernelObjects
  BY <1>1 DEF KernelObjects, HasSegment, Ended, Mapped, Closing
<1> QED BY <1>1, <1>3, <1>4, <1>5 DEF LifeInv, NamesAwait, ReturnIsClean

LEMMA LifeInductive ==
  ASSUME LifeInv, [Next]_vars
  PROVE  LifeInv'
<1>1. CASE UNCHANGED vars
  <2> USE <1>1 DEF vars, names, opened
  <2>1. TypeOK' /\ OwnObjects'
    BY DEF LifeInv, TypeOK, OwnObjects
  <2>2. KernelObjects' /\ ReturnIsClean'
    BY DEF LifeInv, KernelObjects, HasSegment, ReturnIsClean, Live
  <2>3. NamesAwait'
    BY DEF LifeInv, NamesAwait, Unborn, Live
  <2> QED BY <2>1, <2>2, <2>3 DEF LifeInv
<1> QED
  BY <1>1, BootKeeps, KernelStepKeeps, UntimelyEndKeeps, ScheduleKeeps, EndsOfJobsKeep,
     OneChildMoves
  DEF Next

LEMMA LifeInvariant == Spec => []LifeInv
BY LifeInitially, LifeInductive, PTL DEF Spec

\* The variables of the boots keep their types.
THEOREM LifeTypeCorrect == Spec => []TypeOK
<1>1. LifeInv => TypeOK
  BY DEF LifeInv
<1> QED BY <1>1, LifeInvariant, PTL

\* For any number of boots and apps, and whatever was left behind, no process
\* of one boot shares the FIFO or a segment with a process of another: each
\* has open only what its own kernel has made.  The unlink in makeFIFO and
\* cleanOldShms are what KernelObjects and NamesAwait need.
THEOREM BootsStayApart == Spec => []BootsAreApart
<1>1. LifeInv => BootsAreApart
  <2> SUFFICES ASSUME LifeInv, NEW b \in Boots, NEW c \in Children,
                      Live(b, c), holds[b][c] # 0
               PROVE  /\ \A d \in Boots \ {b} : Live(d, c) => holds[d][c] # holds[b][c]
                      /\ ~Alive(b) => holds[b][c] # IF c = IC THEN fd_irq ELSE shm[c]
    BY DEF BootsAreApart
  <2>1. holds[b][c] = b /\ b # 0 /\ \A d \in Boots : holds[d][c] \in {0, d}
    BY ConstantFacts DEF LifeInv, OwnObjects
  <2>2. ASSUME ~Alive(b) PROVE b # IF c = IC THEN fd_irq ELSE shm[c]
    <3>1. CASE kpc \in Ended
      BY <2>1, <3>1, ChildFacts DEF LifeInv, KernelObjects, HasSegment, Mapped, Ended, Closing
    <3>2. CASE b # boots
      BY <2>1, <3>2, ChildFacts DEF LifeInv, KernelObjects, HasSegment
    <3> QED BY <2>2, <3>1, <3>2 DEF Alive
  <2> QED BY <2>1, <2>2
<1> QED BY <1>1, LifeInvariant, PTL

\* An app that has not mapped its segment yet finds the one of its own kernel,
\* however early it executes and whatever segments were there before.
THEOREM SegmentsAreThere == Spec => []SegmentsAwaitApps
<1>1. LifeInv => SegmentsAwaitApps
  <2> SUFFICES ASSUME LifeInv, NEW i \in Apps, boots > 0, Alive(boots), Live(boots, i)
               PROVE  shmName[i] # 0 /\ shmName[i] = shm[i]
    BY DEF SegmentsAwaitApps
  <2>1. shmName[i] = boots /\ boots # 0 /\ ~Unborn(i) /\ kpc \notin Ended
    BY UnderWay, ChildFacts DEF Alive, Live
  <2>2. kpc \notin Closing
    BY <2>1, UnderWay
  <2>3. kpc \in Mapped
    BY <2>1, <2>2 DEF LifeInv, TypeOK, Unborn, Mapped, Closing
  <2> QED BY <2>1, <2>3, NamesWhenMapped
<1> QED BY <1>1, LifeInvariant, PTL

----------------------------------------------------------------------------
(* Who is stopped when a kernel ends. *)

LEMMA NobodyIsStopped ==
  ASSUME NEW status
  PROVE  \A c \in Children : Hangup(status)[c] # "stopped"
BY DEF Hangup

\* As long as the kernel goes on, only its own children are stopped.
LEMMA OrphansStay ==
  ASSUME NoOrphanIsStopped, kpc \notin Ended, kpc' \notin Ended,
         boots' = boots, job' = job,
         \A b \in Boots : b # boots => child'[b] = child[b]
  PROVE  NoOrphanIsStopped'
BY DEF NoOrphanIsStopped, Alive

LEMMA OrphansOfTheDead ==
  ASSUME LifeInv, NoOrphanIsStopped, kpc \notin Ended, NEW status, Ends("dead", status),
         \A b \in Boots : job'[b] = "shell" => job[b] = "shell"
  PROVE  NoOrphanIsStopped'
<1> DEFINE after == IF job[boots] = "shell" THEN Hangup(status) ELSE status
<1>1. boots' = boots /\ child' = [child EXCEPT ![boots] = after]
  BY DEF Ends
<1>2. job[boots] = "shell" => \A c \in Children : after[c] # "stopped"
  BY NobodyIsStopped
<1> HIDE DEF after
<1>3. child \in [Boots -> [Children -> Statuses]] /\ boots \in Boots
  BY UnderWay
<1>4. \A b \in Boots : child'[b] = IF b = boots THEN after ELSE child[b]
  BY <1>1, <1>3
<1>5. ASSUME NEW b \in Boots, job'[b] = "shell", NEW c \in Children
      PROVE  child'[b][c] # "stopped"
  <2>1. CASE b = boots
    BY <1>2, <1>4, <1>5, <2>1
  <2>2. CASE b # boots
    BY <1>4, <1>5, <2>2 DEF NoOrphanIsStopped, Alive
  <2> QED BY <2>1, <2>2
<1> QED BY <1>5 DEF NoOrphanIsStopped

LEMMA OrphansInductive ==
  ASSUME LifeInv, NoOrphanIsStopped, [Next]_vars
  PROVE  NoOrphanIsStopped'
<1>1. /\ child \in [Boots -> [Children -> Statuses]]
      /\ job \in [Boots -> {"none", "shell", "script", "stopped", "no job"}]
  BY DEF LifeInv, TypeOK, Statuses
<1>2. CASE UNCHANGED vars
  BY <1>2 DEF vars, NoOrphanIsStopped, Alive
<1>3. CASE Boot
  <2>1. /\ kpc \in Ended /\ boots' = boots + 1 /\ kpc' = "makeFIFO" /\ child' = child
        /\ \E how \in {"shell", "script", "no job"} : job' = [job EXCEPT ![boots + 1] = how]
    BY <1>3 DEF Boot
  <2>2. ASSUME NEW b \in Boots, job'[b] = "shell", ~Alive(b)'
        PROVE  job[b] = "shell" /\ ~Alive(b)
    BY <1>1, <2>1, <2>2 DEF Alive, Ended
  <2> QED BY <2>1, <2>2 DEF NoOrphanIsStopped
<1>4. CASE closeShms
  <2>1. boots' = boots /\ job' = job /\ child' = child /\ kpc \in Closing
    BY <1>4 DEF closeShms, Closing
  <2>2. kpc \notin Ended /\ \A c \in Children : ~Live(boots, c)
    BY <2>1, NoChildWhileClosing
  <2>3. ASSUME NEW b \in Boots, job[b] = "shell", NEW c \in Children
        PROVE  ~Alive(b)' => child[b][c] # "stopped"
    BY <2>2, <2>3 DEF NoOrphanIsStopped, Alive, Live
  <2> QED BY <2>1, <2>3 DEF NoOrphanIsStopped
<1>5. CASE (KernelStep /\ ~closeShms) \/ Schedule
  <2>1. kpc \notin Ended /\ kpc' \notin Ended /\ boots' = boots /\ job' = job
    BY <1>5 DEF KernelStep, makeFIFO, openFIFO, ForkIC, StopAndClean, OpenSegment, ForkApp,
                HaltApp, LaunchIC, LeaveLoop, WaitForChildren, UnlinkFIFO, Schedule, Turn, Go,
                Ended
  <2>2. child' = child \/ \E after : child' = [child EXCEPT ![boots] = after]
    BY <1>1, <1>5 DEF KernelStep, makeFIFO, openFIFO, ForkIC, StopAndClean, OpenSegment, ForkApp,
                HaltApp, LaunchIC, LeaveLoop, WaitForChildren, UnlinkFIFO, Schedule, SetChild
  <2>3. \A b \in Boots : b # boots => child'[b] = child[b]
    BY <1>1, <2>2
  <2> QED BY <2>1, <2>3, OrphansStay
<1>6. CASE ExitOnFailure \/ Crash
  <2>1. kpc \notin Ended /\ Ends("dead", child[boots]) /\ job' = job
    BY <1>6 DEF ExitOnFailure, Crash, Ended
  <2> QED BY <2>1, OrphansOfTheDead
<1>7. CASE sigtstpHandler
  <2>1. kpc \notin Ended /\ \E status : Ends("dead", status)
    BY <1>7 DEF sigtstpHandler
  <2>2. \E next \in IF job[boots] = "script" THEN {"script", "stopped"} ELSE {job[boots]} :
          job' = [job EXCEPT ![boots] = next]
    BY <1>7 DEF sigtstpHandler
  <2>3. \A b \in Boots : job'[b] = "shell" => job[b] = "shell"
    BY <1>1, <2>2
  <2> QED BY <2>1, <2>3, OrphansOfTheDead
<1>8. ASSUME NEW b \in Boots, ScriptEnds(b) \/ Foreground(b)
      PROVE  NoOrphanIsStopped'
  <2>1. /\ EnvFrame /\ job' = [job EXCEPT ![b] = "shell"]
        /\ child' = [child EXCEPT ![b] = Hangup(child[b])]
    BY <1>8 DEF ScriptEnds, Foreground
  <2>2. boots' = boots /\ kpc' = kpc
    BY <2>1 DEF EnvFrame
  <2>3. ASSUME NEW d \in Boots, job'[d] = "shell", ~Alive(d)', NEW c \in Children
        PROVE  child'[d][c] # "stopped"
    <3>1. CASE d = b
      BY <1>1, <2>1, <3>1, NobodyIsStopped
    <3>2. CASE d # b
      BY <1>1, <2>1, <2>2, <2>3, <3>2 DEF NoOrphanIsStopped, Alive
    <3> QED BY <3>1, <3>2
  <2> QED BY <2>3 DEF NoOrphanIsStopped
<1>9. ASSUME NEW b \in Boots, NEW c \in Children, ChildStep(b, c) \/ ExecFails(b, c)
      PROVE  NoOrphanIsStopped'
  <2>1. EnvFrame /\ job' = job
    BY <1>9 DEF ChildStep, ExecFails, open_shared_memory, AppEnds, OpenForWriting, GetsReader,
                ICEnds, Dies
  <2>2. \/ child' = child
        \/ \E s \in {"dead", "running", "blocked"} : child' = [child EXCEPT ![b][c] = s]
    BY <1>1, <1>9 DEF ChildStep, ExecFails, open_shared_memory, AppEnds, OpenForWriting,
                      GetsReader, ICEnds, Dies
  <2>3. ASSUME NEW d \in Boots, NEW e \in Children, child[d][e] # "stopped"
        PROVE  child'[d][e] # "stopped"
    BY <1>1, <2>2, <2>3
  <2>4. boots' = boots /\ kpc' = kpc
    BY <2>1 DEF EnvFrame
  <2> QED BY <2>1, <2>3, <2>4 DEF NoOrphanIsStopped, Alive
<1> QED BY <1>2, <1>3, <1>4, <1>5, <1>6, <1>7, <1>8, <1>9 DEF Next

\* A kernel that returns from main leaves neither names nor children of its
\* own, and however a kernel ends, under job control none of its children
\* stays stopped.
THEOREM ReturnLeavesNothing == Spec => []NothingIsLeft
<1>1. LifeInv => ReturnIsClean
  BY DEF LifeInv
<1>2. Init => NoOrphanIsStopped
  BY DEF Init, NoOrphanIsStopped
<1>3. LifeInv /\ NoOrphanIsStopped /\ [Next]_vars => NoOrphanIsStopped'
  BY OrphansInductive
<1>4. Spec => []NoOrphanIsStopped
  BY <1>2, <1>3, LifeInvariant, PTL DEF Spec
<1>5. ReturnIsClean /\ NoOrphanIsStopped => NothingIsLeft
  BY DEF NothingIsLeft
<1> QED BY <1>1, <1>4, <1>5, LifeInvariant, PTL
==============================================================================
