----------------------------- MODULE Supervision -----------------------------
(***************************************************************************)
(* The scripts that keep a program running, over one table of processes:   *)
(* watchdog.sh, service, and the part of update.sh that replaces the       *)
(* program (lines 69 to 140; its calendar is in DailyUpdate).  The paths   *)
(* in the scripts are examples; here they name one program, one watchdog.  *)
(*                                                                         *)
(* The program starts as one process and forks process_num children, all   *)
(* within StartTicks.  Time passes in ticks of two seconds; what a         *)
(* watchdog does between two sleeps takes none.                            *)
(***************************************************************************)
EXTENDS Integers, FiniteSets

CONSTANTS
  Slots,          \* bound: the places for processes of the program, numbers
  Dogs,           \* bound: the places for watchdogs, numbers
  ProcessNum,     \* process_num in the configuration
  StartTicks,     \* the time a start takes at most
  Scenes          \* bounds: how many deaths, calls of service and updates there
                  \* are, with the packages that are found for these

VARIABLES
  app,            \* the program's processes: children still to fork, version
  boot,           \* ticks since its last start, up to StartTicks
  dog,            \* the watchdogs: where they are, what they hold
  svc,            \* a call of service
  late,           \* history: what the program forked since svc listed it
  race,           \* history: when service or update.sh last looked and saw no
                  \* watchdog, the other had seen none and not yet started one
  upd,            \* update.sh
  disk,           \* the version that is unpacked
  recorded,       \* current_version, TEST_VERSION
  left            \* the scene: what may still happen

system == <<app, boot, dog, svc, late, race>>
vars == <<system, upd, disk, recorded, left>>

\* PNum: one more than process_num, at most 11.
PNum == IF ProcessNum + 1 > 11 THEN 11 ELSE ProcessNum + 1

Versions == 1 .. 2
Gone == [toFork |-> -1, version |-> 0]
Process == [toFork : 0 .. PNum - 1, version : Versions]
Off == [pc |-> "off", pids |-> {}, number |-> 0, timer |-> 0]
Sleep20 == 10
Sleep10 == 5
Sleep2 == 1

Running == {s \in Slots : app[s] # Gone}
Count == Cardinality(Running)
Awake == {d \in Dogs : dog[d].pc # "off"}
Lowest(S) == CHOOSE s \in S : \A t \in S : s <= t

TypeOK ==
  /\ app \in [Slots -> Process \cup {Gone}] /\ boot \in 0 .. StartTicks
  /\ dog \in [Dogs -> [pc : {"off", "list", "kill", "start", "sleep", "act", "restart"},
                       pids : SUBSET Slots, number : 0 .. Cardinality(Slots), timer : 0 .. Sleep20]]
  /\ svc \in [pc : {"idle", "start", "started", "listDogs", "killDogs", "listApps", "killApps", "stopped"},
              pids : SUBSET (Slots \cup Dogs), restart : BOOLEAN]
  /\ late \subseteq Slots
  /\ upd \in [pc : {"off", "idle", "list", "kill", "install", "count", "watch", "start", "record", "done"},
              pids : SUBSET Dogs, version : Versions]
  /\ disk \in Versions /\ recorded \in Versions

\* Before the machine boots.
Init ==
  /\ app = [s \in Slots |-> Gone] /\ boot = 0
  /\ dog = [d \in Dogs |-> Off]
  /\ svc = [pc |-> "idle", pids |-> {}, restart |-> FALSE] /\ late = {} /\ race = FALSE
  /\ upd = [pc |-> "off", pids |-> {}, version |-> 1]
  /\ disk = 1 /\ recorded = 1
  /\ left = [deaths |-> 0, calls |-> 0, updates |-> 0, packages |-> {}]

-----------------------------------------------------------------------------
\* What anybody may do to the table.

\* A place for a new process: its number is on nobody's list.
Listed == (UNION {dog[d].pids : d \in Dogs}) \cup (IF svc.pc = "killApps" THEN svc.pids ELSE {})
Places == (Slots \ Running) \ Listed
FreeSlot == Lowest(Places)
FreeDog == Lowest((Dogs \ Awake) \ (upd.pids \cup IF svc.pc = "killDogs" THEN svc.pids ELSE {}))

\* `$PROC_NAME &', with what is on the disk; and a watchdog's start.
WithApp(v) == [app EXCEPT ![FreeSlot] = [toFork |-> PNum - 1, version |-> v]]
StartApp(v) == app' = WithApp(v) /\ boot' = 0
WithDog == [dog EXCEPT ![FreeDog] = [Off EXCEPT !.pc = "list"]]

\* kill -9 of one of the processes of a list.
KillOf(pids) == app' = [app EXCEPT ![Lowest(pids)] = Gone]

\* Boot: rc.local starts the watchdog; somebody may have started the program.
Boot ==
  /\ upd.pc = "off"
  /\ left' \in Scenes
  /\ dog' = WithDog
  /\ app' \in {app, WithApp(1)}
  /\ upd' = [upd EXCEPT !.pc = "idle"]
  /\ UNCHANGED <<boot, svc, late, race, disk, recorded>>

\* The program: a process forks a child, and any of them may die.
Fork(s) ==
  /\ app[s].toFork > 0 /\ Places # {}
  /\ LET t == FreeSlot IN
       /\ app' = [app EXCEPT ![s].toFork = @ - 1, ![t] = [app[s] EXCEPT !.toFork = 0]]
       /\ late' = IF svc.pc \in {"killApps", "stopped"} THEN late \cup {t} ELSE late
  /\ UNCHANGED <<boot, dog, svc, race, upd, disk, recorded, left>>

Death(s) ==
  /\ app[s] # Gone /\ left.deaths > 0
  /\ left' = [left EXCEPT !.deaths = @ - 1]
  /\ app' = [app EXCEPT ![s] = Gone]
  /\ UNCHANGED <<boot, dog, svc, late, race, upd, disk, recorded>>

\* Two seconds pass; a start that has had its time is over.
Tick ==
  /\ \A d \in Awake : dog[d].pc = "sleep" /\ dog[d].timer > 0
  /\ boot < StartTicks \/ \A s \in Running : app[s].toFork = 0
  /\ boot' = IF boot < StartTicks THEN boot + 1 ELSE boot
  /\ dog' = [d \in Dogs |-> IF d \in Awake THEN [dog[d] EXCEPT !.timer = @ - 1] ELSE dog[d]]
  /\ UNCHANGED <<app, svc, late, race, upd, disk, recorded, left>>

-----------------------------------------------------------------------------
(* watchdog.sh                                                              *)

DogRest == UNCHANGED <<svc, late, race, upd, disk, recorded, left>>

\* At its start: the processes are listed, killed one by one, and one is started.
DogList(d) ==
  /\ dog[d].pc = "list"
  /\ dog' = [dog EXCEPT ![d].pc = "kill", ![d].pids = Running]
  /\ UNCHANGED <<app, boot>> /\ DogRest

DogKill(d) ==
  /\ dog[d].pc = "kill" /\ dog[d].pids # {}
  /\ KillOf(dog[d].pids)
  /\ dog' = [dog EXCEPT ![d].pids = @ \ {Lowest(@)}]
  /\ UNCHANGED boot /\ DogRest

DogStart(d) ==
  /\ dog[d].pc = "kill" /\ dog[d].pids = {}
  /\ StartApp(disk)
  /\ dog' = [dog EXCEPT ![d].pc = "sleep", ![d].timer = Sleep20]
  /\ DogRest

\* The loop: count, then act on the number.
DogCount(d) ==
  /\ dog[d].pc = "sleep" /\ dog[d].timer = 0
  /\ dog' = [dog EXCEPT ![d].pc = "act", ![d].number = Count]
  /\ UNCHANGED <<app, boot>> /\ DogRest

\* Mutant of Pause: no time for the program to start.
PauseShort(number) == Sleep2

\* How long it is given to start: longer if five or more were counted, which
\* cannot be when none was.
Pause(number) == IF number >= 5 THEN Sleep20 ELSE Sleep10

SleepFor(d, ticks) == [dog EXCEPT ![d].pc = "sleep", ![d].number = 0, ![d].timer = ticks]

DogNone(d) ==
  /\ dog[d].pc = "act" /\ dog[d].number = 0
  /\ StartApp(disk)
  /\ dog' = SleepFor(d, Pause(0))
  /\ DogRest

DogKillAll(d) ==
  /\ dog[d].pc = "act" /\ dog[d].number \notin {0, PNum}
  /\ app' = [s \in Slots |-> Gone]
  /\ dog' = [dog EXCEPT ![d].pc = "restart"]
  /\ UNCHANGED boot /\ DogRest

DogRestart(d) ==
  /\ dog[d].pc = "restart"
  /\ StartApp(disk)
  /\ dog' = SleepFor(d, Pause(dog[d].number))
  /\ DogRest

DogContent(d) ==
  /\ dog[d].pc = "act" /\ dog[d].number = PNum
  /\ dog' = SleepFor(d, Sleep2)
  /\ UNCHANGED <<app, boot>> /\ DogRest

Watch(d) == \/ DogList(d) \/ DogKill(d) \/ DogStart(d) \/ DogCount(d)
            \/ DogNone(d) \/ DogKillAll(d) \/ DogRestart(d) \/ DogContent(d)

-----------------------------------------------------------------------------
(* service                                                                  *)

SvcRest == UNCHANGED <<boot, upd, disk, recorded>>
SvcGoes(pc) == svc' = [svc EXCEPT !.pc = pc]

SvcCall(call) ==
  /\ svc.pc \in {"idle", "stopped"} /\ left.calls > 0
  /\ left' = [left EXCEPT !.calls = @ - 1]
  /\ svc' = [pc |-> IF call = "start" THEN "start" ELSE "listDogs", pids |-> {}, restart |-> call = "restart"]
  /\ late' = {}
  /\ UNCHANGED <<app, dog, race>> /\ SvcRest

\* start: if no watchdog is counted, one is started.
SvcCount ==
  /\ svc.pc = "start"
  /\ IF Awake = {} THEN SvcGoes("started") /\ race' = (upd.pc = "start")
                   ELSE SvcGoes("idle") /\ UNCHANGED race
  /\ UNCHANGED <<app, dog, late, left>> /\ SvcRest

SvcStart ==
  /\ svc.pc = "started"
  /\ dog' = WithDog
  /\ SvcGoes("idle")
  /\ UNCHANGED <<app, late, race, left>> /\ SvcRest

\* Mutant of SvcListDogs: the program is stopped, its watchdog is not.
SvcSparesDogs ==
  /\ svc.pc = "listDogs"
  /\ svc' = [svc EXCEPT !.pc = "listApps"]
  /\ UNCHANGED <<app, dog, late, race, left>> /\ SvcRest

\* stop: the watchdogs first, then the program, each listed and killed one by one.
SvcListDogs ==
  /\ svc.pc = "listDogs"
  /\ svc' = [svc EXCEPT !.pc = "killDogs", !.pids = Awake]
  /\ UNCHANGED <<app, dog, late, race, left>> /\ SvcRest

SvcKillDog ==
  /\ svc.pc = "killDogs"
  /\ IF svc.pids = {} THEN SvcGoes("listApps") /\ UNCHANGED dog
     ELSE /\ dog' = [dog EXCEPT ![Lowest(svc.pids)] = Off]
          /\ svc' = [svc EXCEPT !.pids = @ \ {Lowest(@)}]
  /\ UNCHANGED <<app, late, race, left>> /\ SvcRest

SvcListApps ==
  /\ svc.pc = "listApps"
  /\ svc' = [svc EXCEPT !.pc = "killApps", !.pids = Running]
  /\ UNCHANGED <<app, dog, late, race, left>> /\ SvcRest

SvcKillApp ==
  /\ svc.pc = "killApps" /\ svc.pids # {}
  /\ KillOf(svc.pids)
  /\ svc' = [svc EXCEPT !.pids = @ \ {Lowest(@)}]
  /\ UNCHANGED <<dog, late, race, left>> /\ SvcRest

SvcStopped ==
  /\ svc.pc = "killApps" /\ svc.pids = {}
  /\ SvcGoes(IF svc.restart THEN "start" ELSE "stopped")
  /\ UNCHANGED <<app, dog, late, race, left>> /\ SvcRest

Service == \/ \E call \in {"start", "stop", "restart"} : SvcCall(call)
           \/ SvcCount \/ SvcStart \/ SvcListDogs \/ SvcKillDog
           \/ SvcListApps \/ SvcKillApp \/ SvcStopped

-----------------------------------------------------------------------------
(* update.sh, once a version has been read that is not the recorded one     *)

UpdGoes(pc) == upd' = [upd EXCEPT !.pc = pc]

UpdBegin(v) ==
  /\ upd.pc \in {"idle", "done"} /\ left.updates > 0 /\ v # recorded
  /\ left' = [left EXCEPT !.updates = @ - 1]
  /\ upd' = [pc |-> "list", pids |-> {}, version |-> v]
  /\ UNCHANGED <<system, disk, recorded>>

\* The watchdogs are killed.  TEST_AUDIT is not set anywhere, so the loop that
\* should kill the program lists nothing.
UpdList ==
  /\ upd.pc = "list"
  /\ upd' = [upd EXCEPT !.pc = "kill", !.pids = Awake]
  /\ UNCHANGED <<system, disk, recorded, left>>

UpdKill ==
  /\ upd.pc = "kill"
  /\ IF upd.pids = {} THEN UpdGoes("install") /\ UNCHANGED dog
     ELSE /\ dog' = [dog EXCEPT ![Lowest(upd.pids)] = Off]
          /\ upd' = [upd EXCEPT !.pids = @ \ {Lowest(@)}]
  /\ UNCHANGED <<app, boot, svc, late, race, disk, recorded, left>>

\* The package is downloaded to where the script runs; it is unpacked and the
\* program started only if TEST_PATH/, a name and not a variable, has it.
UpdInstall ==
  /\ upd.pc = "install"
  /\ IF upd.version \in left.packages
     THEN disk' = upd.version /\ StartApp(upd.version)
     ELSE UNCHANGED <<disk, app, boot>>
  /\ UpdGoes("count")
  /\ UNCHANGED <<dog, svc, late, race, recorded, left>>

\* Mutant of Unpacked: the rollback does not unpack what it rolls back to.
UnpackedNot == disk

\* What a rollback leaves on the disk.
Unpacked == IF recorded \in left.packages THEN recorded ELSE disk

\* Rolled back if no process of the program is there, of whichever version.
UpdCount ==
  /\ upd.pc = "count"
  /\ IF Count = 0 THEN disk' = Unpacked /\ upd' = [upd EXCEPT !.pc = "watch", !.version = recorded]
                  ELSE UpdGoes("watch") /\ UNCHANGED disk
  /\ UNCHANGED <<system, recorded, left>>

\* Mutant of UpdWatch: a watchdog is started whether there is one or not.
UpdWatchless ==
  /\ upd.pc = "watch"
  /\ UpdGoes("start")
  /\ UNCHANGED <<system, disk, recorded, left>>

\* If no watchdog is counted, one is started.
UpdWatch ==
  /\ upd.pc = "watch"
  /\ IF Awake = {} THEN UpdGoes("start") /\ race' = (svc.pc = "started")
                   ELSE UpdGoes("record") /\ UNCHANGED race
  /\ UNCHANGED <<app, boot, dog, svc, late, disk, recorded, left>>

UpdStart ==
  /\ upd.pc = "start"
  /\ dog' = WithDog
  /\ UpdGoes("record")
  /\ UNCHANGED <<app, boot, svc, late, race, disk, recorded, left>>

\* The packages that should be deleted are looked for under TEST_PATH/TEST_PATH/.
UpdRecord ==
  /\ upd.pc = "record"
  /\ recorded' = upd.version
  /\ UpdGoes("done")
  /\ UNCHANGED <<system, disk, left>>

Update == \/ \E v \in Versions : UpdBegin(v)
          \/ UpdList \/ UpdKill \/ UpdInstall \/ UpdCount \/ UpdWatch \/ UpdStart \/ UpdRecord

-----------------------------------------------------------------------------
\* Time, the program's starts and the watchdogs go on; the others may hang.
Run == Tick \/ (\E s \in Slots : Fork(s)) \/ (\E d \in Dogs : Watch(d))

Next == Boot \/ Run \/ (\E s \in Slots : Death(s)) \/ Service \/ Update

Spec == Init /\ [][Next]_vars /\ WF_vars(Run)

-----------------------------------------------------------------------------
(***************************************************************************)
(* watchdog.sh:61: whatever died, was killed, stopped or replaced, and     *)
(* wherever the scripts interrupted one another: if one watchdog is left   *)
(* in the end, the program settles at the configured number of processes   *)
(* and is never killed again.  (Their number only: an orphan of an earlier *)
(* start may make it up.)  This needs a program that is up in less than    *)
(* ten seconds, however many its processes are; and two watchdogs in step  *)
(* may undo each other for ever.                                           *)
(***************************************************************************)
Settles == <>[](Cardinality(Awake) = 1 => Count = PNum)

(***************************************************************************)
(* service:90, update.sh:122: a watchdog is started only where there is    *)
(* none, but by two scripts that look and then start.  There are never     *)
(* more than two, and two only if a call of service and an update both     *)
(* looked before either had started one.                                   *)
(***************************************************************************)
OneDog == Cardinality(Awake) <= IF race THEN 2 ELSE 1

(***************************************************************************)
(* service:57: after a stop, before the first update, no watchdog is       *)
(* there and nothing is started again; of the program only what it forked  *)
(* between being listed and being killed may be left.                      *)
(***************************************************************************)
StopHolds ==
  (svc.pc \in {"killApps", "stopped"} /\ upd.pc = "idle") =>
    Awake = {} /\ Running \subseteq svc.pids \cup late

(***************************************************************************)
(* update.sh:108, 127: when an update is over, the recorded version is the *)
(* unpacked one, rolled back or not, unless its package was not found.     *)
(* (Then a version is recorded that does not run, if the old program was   *)
(* alive: the script does not stop it, and takes it for the new one.)      *)
(***************************************************************************)
RecordedInstalled == (upd.pc = "done" /\ recorded # disk) => recorded \notin left.packages

=============================================================================
