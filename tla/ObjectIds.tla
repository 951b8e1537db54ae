------------------------------ MODULE ObjectIds ------------------------------
(***************************************************************************)
(* bson/objectid.py: the _ids that the threads of several processes of a   *)
(* machine generate at the same time.  The processes are forks of one      *)
(* another: a child begins with the counter of its parent.                 *)
(*                                                                         *)
(* An ObjectId has the second, the pid modulo PidMod (0xFFFF) and the      *)
(* counter modulo IncMod (0xFFFFFF); the machine is the same for all.      *)
(* count and the field nth only record how many came before.               *)
(***************************************************************************)
EXTENDS DriverTypes, Integers

CONSTANTS Pids,          \* the processes; each has all Threads
          PidMod, IncMod,
          MaxTime,       \* bound on the seconds of a run
          MaxOids        \* bound on the ids of a process

ASSUME OidAssumption ==
  /\ Pids \subseteq Nat
  /\ {PidMod, IncMod} \subseteq Nat \ {0}
  /\ {MaxTime, MaxOids} \subseteq Nat

VARIABLES clock,         \* time.time()
          process,       \* _inc of every process that has started, and count
          making,        \* what every thread has read so far
          oids           \* the ids that were generated

oidVars == <<clock, process, making, oids>>

NoTime == MaxTime + 1

OidTypeOK ==
  /\ clock \in 0..MaxTime
  /\ process \in [Pids -> [started : BOOLEAN, inc : 0..IncMod,
                           count : 0..MaxOids]]
  /\ making \in [Pids \X Threads -> 0..NoTime]
  /\ oids \subseteq [time : 0..MaxTime, pid : 0..(PidMod - 1), inc : 0..IncMod,
                     by : Pids, nth : 0..MaxOids]

OidInit ==
  /\ clock = 0
  /\ \E first \in Pids, inc \in 0..IncMod :            \* randint
       process = [p \in Pids |-> [started |-> p = first, inc |-> inc, count |-> 0]]
  /\ making = [t \in Pids \X Threads |-> NoTime]
  /\ oids = {}

ReadTime(p, t) ==
  /\ process[p].started
  /\ making[<<p, t>>] = NoTime
  /\ making' = [making EXCEPT ![<<p, t>>] = clock]
  /\ UNCHANGED <<clock, process, oids>>

\* Mutant: the counter grows beyond three bytes.
TakeInc_NoModulo(p, t) ==
  /\ making[<<p, t>>] # NoTime
  /\ process[p].count < MaxOids
  /\ oids' = oids \union
       {[time |-> making[<<p, t>>], pid |-> p % PidMod, inc |-> process[p].inc,
         by |-> p, nth |-> process[p].count]}
  /\ process' = [process EXCEPT ![p].inc = @ + 1, ![p].count = @ + 1]
  /\ making' = [making EXCEPT ![<<p, t>>] = NoTime]
  /\ UNCHANGED clock

\* The counter is read and incremented under _inc_lock.
TakeInc(p, t) ==
  /\ making[<<p, t>>] # NoTime
  /\ process[p].count < MaxOids
  /\ oids' = oids \union
       {[time |-> making[<<p, t>>], pid |-> p % PidMod, inc |-> process[p].inc,
         by |-> p, nth |-> process[p].count]}
  /\ process' = [process EXCEPT ![p].inc = (@ + 1) % IncMod,
                                ![p].count = @ + 1]
  /\ making' = [making EXCEPT ![<<p, t>>] = NoTime]
  /\ UNCHANGED clock

\* os.fork, by a thread that is not generating an id.
ForkProcess(p, q) ==
  /\ process[p].started /\ ~process[q].started
  /\ \E t \in Threads : making[<<p, t>>] = NoTime
  /\ process' = [process EXCEPT ![q] = [@ EXCEPT !.started = TRUE,
                                                 !.inc = process[p].inc]]
  /\ UNCHANGED <<clock, making, oids>>

\* The clock may be set, too.
Tick(s) ==
  /\ clock' = s
  /\ s # clock
  /\ UNCHANGED <<process, making, oids>>

OidNext ==
  \/ \E p \in Pids, t \in Threads : ReadTime(p, t) \/ TakeInc(p, t)
  \/ \E p, q \in Pids : ForkProcess(p, q)
  \/ \E s \in 0..MaxTime : Tick(s)

OidSpec == OidInit /\ [][OidNext]_oidVars

----------------------------------------------------------------------------
SameOid(a, b) == a.time = b.time /\ a.pid = b.pid /\ a.inc = b.inc

\* Two ids are the same only if their process has generated a full turn of the
\* counter between them, in the same second, or if the pids of two processes
\* are the same modulo PidMod; a fork, threads that generate ids at the same
\* time, and a clock that is set back do not repeat an id.
OidsUnique ==
  \A a, b \in oids :
    SameOid(a, b) /\ a # b =>
      IF a.by = b.by THEN a.nth % IncMod = b.nth % IncMod
                     ELSE a.by % PidMod = b.by % PidMod
=============================================================================
