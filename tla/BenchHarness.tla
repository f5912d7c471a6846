----------------------------- MODULE BenchHarness -----------------------------
(***************************************************************************)
(* The scripts that measure the server: src/wrk_scripts/runall.sh and its  *)
(* variants runall_echo.sh and runall_tflite.sh, which differ in the list  *)
(* of workloads alone.                                                     *)
(*                                                                         *)
(* For every workload and protection a server is launched in the           *)
(* background, wrk loads it, and a Lua script of wrk leaves the figures in *)
(* a result file.  The script never asks whether the server listens, nor   *)
(* how a command has ended: its ERR trap is not inherited by functions.    *)
(***************************************************************************)
EXTENDS Naturals

CONSTANTS
    N,          \* number of tests: workloads times protections
    Warmed      \* the tests whose workload has a warm-up

ASSUME HarnessAssumption ==
    /\ N \in Nat
    /\ Warmed \subseteq 1..N

Tests == 1..N

\* Nobody: no server.  A server has the number of the test it is launched for.
Nobody == 0

Pcs == {"launch", "settle", "smoke", "warm", "warming", "rest", "measure",
        "measuring", "kill", "wait", "trap", "ended"}

VARIABLES
    at,         \* the test the script is at
    pc,         \* where in run_test it is
    server,     \* the server processes
    client,     \* the server a running wrk is connected to
    file,       \* the result files: which run wrote them, on which server
    served      \* ghost: whether the measured wrk of a test found a server

vars == <<at, pc, server, client, file, served>>

Alive == {"booting", "listening", "terminating"}

TypeOK ==
    /\ at \in 1..N + 1
    /\ pc \in Pcs
    /\ server \in [Tests -> {"none", "gone"} \cup Alive]
    /\ client \in Tests \cup {Nobody}
    /\ file \in [Tests -> [run : {"earlier", "warmup", "measured", "cut"},
                           by : Tests \cup {Nobody}]]
    /\ served \in [Tests -> BOOLEAN]

Init ==
    /\ at = 1
    /\ pc = "launch"
    /\ server = [t \in Tests |-> "none"]
    /\ client = Nobody
    /\ file = [t \in Tests |-> [run |-> "earlier", by |-> Nobody]]
    /\ served = [t \in Tests |-> FALSE]

-----------------------------------------------------------------------------
(* The server processes *)

\* A server binds its port, or ends: the port is taken, or the boot fails.
Bind(t) ==
    /\ server[t] = "booting"
    /\ \/ /\ \A s \in Tests : server[s] # "listening"
          /\ server' = [server EXCEPT ![t] = "listening"]
       \/ server' = [server EXCEPT ![t] = "gone"]
    /\ UNCHANGED <<at, pc, client, file, served>>

\* A server that has got SIGTERM ends some time later.
Terminate(t) ==
    /\ server[t] = "terminating"
    /\ server' = [server EXCEPT ![t] = "gone"]
    /\ UNCHANGED <<at, pc, client, file, served>>

\* A server that ends by itself while it is in use.
Crash(t) ==
    /\ server[t] = "listening"
    /\ server' = [server EXCEPT ![t] = "gone"]
    /\ UNCHANGED <<at, pc, client, file, served>>

Signalled(s) == IF s \in {"booting", "listening"} THEN "terminating" ELSE s

-----------------------------------------------------------------------------
(* run_test *)

\* launch_server: the server runs in the background ...
Launch ==
    /\ pc = "launch"
    /\ at \in Tests
    /\ server' = [server EXCEPT ![at] = "booting"]
    /\ pc' = "settle"
    /\ UNCHANGED <<at, client, file, served>>

\* ... and has three seconds, in which it may or may not get to listen.
Settle ==
    /\ pc = "settle"
    /\ pc' = "smoke"
    /\ UNCHANGED <<at, server, client, file, served>>

\* spectre_testfib.sh: nobody looks at its exit status.
SmokeTest ==
    /\ pc = "smoke"
    /\ pc' = IF at \in Warmed THEN "warm" ELSE "measure"
    /\ UNCHANGED <<at, server, client, file, served>>

Reachable == {t \in Tests : server[t] = "listening"}

\* wrk connects, or ends at once and leaves the result file as it is.
StartWarmup ==
    /\ pc = "warm"
    /\ \/ /\ client' \in Reachable
          /\ pc' = "warming"
       \/ /\ Reachable = {}
          /\ pc' = "rest"
          /\ UNCHANGED client
    /\ UNCHANGED <<at, server, file, served>>

\* done() of the Lua script: the file is opened for writing, and replaced.
FinishWarmup ==
    /\ pc = "warming"
    /\ file' = [file EXCEPT ![at] = [run |-> "warmup", by |-> client]]
    /\ client' = Nobody
    /\ pc' = "rest"
    /\ UNCHANGED <<at, server, served>>

Rest ==
    /\ pc = "rest"
    /\ pc' = "measure"
    /\ UNCHANGED <<at, server, client, file, served>>

StartMeasuring ==
    /\ pc = "measure"
    /\ \/ /\ client' \in Reachable
          /\ pc' = "measuring"
          /\ served' = [served EXCEPT ![at] = TRUE]
       \/ /\ Reachable = {}
          /\ pc' = "kill"
          /\ UNCHANGED <<client, served>>
    /\ UNCHANGED <<at, server, file>>

\* Mistake: the figures go where the warm-up's went, and are thrown away.
FinishMeasuringDiscards ==
    /\ pc = "measuring"
    /\ client' = Nobody
    /\ pc' = "kill"
    /\ UNCHANGED <<at, server, file, served>>

FinishMeasuring ==
    /\ pc = "measuring"
    /\ file' = [file EXCEPT ![at] = [run |-> "measured", by |-> client]]
    /\ client' = Nobody
    /\ pc' = "kill"
    /\ UNCHANGED <<at, server, served>>

\* kill $server_pid, which fails unnoticed if the server is gone.
Kill ==
    /\ pc = "kill"
    /\ server' = [server EXCEPT ![at] = Signalled(@)]
    /\ pc' = "wait"
    /\ UNCHANGED <<at, client, file, served>>

\* Mistake: the script does not wait for the server it has killed.
WaitNot ==
    /\ pc = "wait"
    /\ at' = at + 1
    /\ pc' = "launch"
    /\ UNCHANGED <<server, client, file, served>>

\* wait $server_pid, and the loops of run_tests go on to the next test.
Wait ==
    /\ pc = "wait"
    /\ server[at] = "gone"
    /\ at' = at + 1
    /\ pc' = "launch"
    /\ UNCHANGED <<server, client, file, served>>

\* exit 0, after the last test.
Exit ==
    /\ pc = "launch"
    /\ at \notin Tests
    /\ pc' = "trap"
    /\ UNCHANGED <<at, server, client, file, served>>

\* Ctrl-C, or a signal: the foreground command ends, and the trap calls exit.
\* wrk itself takes Ctrl-C for the end of the run, and writes its figures; a
\* background process of a script ignores it.
Interrupt ==
    /\ pc \notin {"trap", "ended"}
    /\ pc' = "trap"
    /\ client' = Nobody
    /\ \/ UNCHANGED file
       \/ /\ client # Nobody
          /\ file' = [file EXCEPT ![at] = [run |-> "cut", by |-> client]]
    /\ UNCHANGED <<at, server, served>>

\* Mistake: there is no trap on EXIT.
ExitTrapMissing ==
    /\ pc = "trap"
    /\ pc' = "ended"
    /\ UNCHANGED <<at, server, client, file, served>>

\* trap "kill 0" EXIT: SIGTERM to every process of the script's group.
ExitTrap ==
    /\ pc = "trap"
    /\ server' = [t \in Tests |-> Signalled(server[t])]
    /\ pc' = "ended"
    /\ UNCHANGED <<at, client, file, served>>

-----------------------------------------------------------------------------
Script ==
    \/ Launch
    \/ Settle
    \/ SmokeTest
    \/ StartWarmup
    \/ FinishWarmup
    \/ Rest
    \/ StartMeasuring
    \/ FinishMeasuring
    \/ Kill
    \/ Wait
    \/ Exit
    \/ ExitTrap

Process(t) == Bind(t) \/ Terminate(t)

Next ==
    \/ Script
    \/ Interrupt
    \/ \E t \in Tests : Process(t) \/ Crash(t)

Spec == Init /\ [][Next]_vars

\* The script goes on, its commands have durations, and processes are
\* scheduled; nobody need press Ctrl-C, and no server need crash.
FairSpec == Spec /\ WF_vars(Script) /\ \A t \in Tests : WF_vars(Process(t))

-----------------------------------------------------------------------------
(* Properties *)

\* Two servers never run at once, so none loses the port to the one before and
\* no test is answered by another test's server: `wait' is what ensures it.
OneServer ==
    \A s, t \in Tests : server[s] \in Alive /\ server[t] \in Alive => s = t

\* "these results will get overwritten" (runall.sh:90): after a test whose
\* measured run found a server at all, its file holds that run's figures, taken
\* on the test's own server; a later interrupt spares it.
ResultsAreMeasured ==
    \A t \in Tests :
        t < at /\ served[t] => file[t] = [run |-> "measured", by |-> t]

\* "if this script gets Ctrl-C, the background server process will be killed":
\* the script comes to its end, however the servers behave, and leaves none.
NoServerLeft ==
    <>[](pc = "ended" /\ \A t \in Tests : server[t] \notin Alive)
=============================================================================
