------------------------- MODULE BenchHarness_proofs -------------------------
(***************************************************************************)
(* The safety of the benchmark scripts, for any number of tests.           *)
(***************************************************************************)
EXTENDS BenchHarness, TLAPS

\* The places of run_test, where a test is under way.
Running == Pcs \ {"launch", "trap", "ended"}

\* Servers of earlier tests are gone, those of later tests not yet there.
ServerInv ==
    /\ pc \in Running => at \in Tests
    /\ \A t \in Tests : t < at => server[t] = "gone"
    /\ \A t \in Tests : t > at => server[t] = "none"
    /\ pc = "launch" => \A t \in Tests : t = at => server[t] = "none"

\* A running wrk is connected to the test's own server.
ClientInv == pc \in {"warming", "measuring"} => client = at

\* A test that was served has its figures once the measured run is over.
Done(t) == t < at \/ (t = at /\ pc \in {"kill", "wait"})
FileInv ==
    /\ \A t \in Tests : Done(t) /\ served[t] => file[t] = [run |-> "measured", by |-> t]
    /\ \A t \in Tests : served[t] => t <= at
    /\ \A t \in Tests :
           served[t] /\ t = at => pc \in {"measuring", "kill", "wait", "trap", "ended"}

HarnessInv == TypeOK /\ ServerInv /\ ClientInv /\ FileInv

\* The invariant holds at the start of the script.
LEMMA HarnessInit == Init => HarnessInv
  BY HarnessAssumption
  DEF Init, HarnessInv, TypeOK, ServerInv, ClientInv, FileInv, Done, Tests, Nobody,
      Pcs, Running, Alive

\* Every step of the script, of a server or of the user keeps it.
LEMMA HarnessStep == HarnessInv /\ [Next]_vars => HarnessInv'
<1> SUFFICES ASSUME HarnessInv, [Next]_vars PROVE HarnessInv'
  OBVIOUS
<1> USE HarnessAssumption
        DEF HarnessInv, TypeOK, ServerInv, ClientInv, FileInv, Done, Tests, Nobody,
            Pcs, Running, Alive
<1>1. CASE Launch
  BY <1>1 DEF Launch
<1>2. CASE Settle \/ SmokeTest \/ Rest \/ Exit
  BY <1>2 DEF Settle, SmokeTest, Rest, Exit
<1>3. CASE StartWarmup
  BY <1>3 DEF StartWarmup, Reachable
<1>4. CASE FinishWarmup
  BY <1>4 DEF FinishWarmup
<1>5. CASE StartMeasuring
  <2>1. CASE client' \in Reachable /\ pc' = "measuring" /\ served' = [served EXCEPT ![at] = TRUE]
    <3>1. client' = at /\ at \in Tests
      BY <1>5, <2>1 DEF StartMeasuring, Reachable
    <3>2. TypeOK' /\ ServerInv' /\ ClientInv'
      BY <1>5, <2>1, <3>1 DEF StartMeasuring
    <3>3. \A t \in Tests : served'[t] => served[t] \/ t = at
      BY <2>1
    <3>4. FileInv'
      BY <1>5, <2>1, <3>3 DEF StartMeasuring
    <3> QED
      BY <3>2, <3>4
  <2>2. CASE pc' = "kill" /\ UNCHANGED <<client, served>>
    <3>1. ~served[at]
      BY <1>5 DEF StartMeasuring
    <3> QED
      BY <1>5, <2>2, <3>1 DEF StartMeasuring
  <2> QED
    BY <1>5, <2>1, <2>2 DEF StartMeasuring
<1>6. CASE FinishMeasuring
  BY <1>6 DEF FinishMeasuring
<1>7. CASE Kill
  BY <1>7 DEF Kill, Signalled
<1>8. CASE Wait
  BY <1>8 DEF Wait
<1>9. CASE ExitTrap
  BY <1>9 DEF ExitTrap, Signalled
<1>10. CASE Interrupt
  BY <1>10 DEF Interrupt
<1>11. ASSUME NEW t \in Tests, Process(t) \/ Crash(t) PROVE HarnessInv'
  BY <1>11 DEF Process, Bind, Terminate, Crash
<1>12. CASE UNCHANGED vars
  BY <1>12 DEF vars
<1> QED
  BY <1>1, <1>2, <1>3, <1>4, <1>5, <1>6, <1>7, <1>8, <1>9, <1>10, <1>11, <1>12
  DEF Next, Script

LEMMA HarnessInvariance == Spec => []HarnessInv
  BY HarnessInit, HarnessStep, PTL DEF Spec

\* The state of the scripts, of their servers and of the result files has its type.
THEOREM HarnessTypeCorrect == Spec => []TypeOK
<1>1. HarnessInv => TypeOK
  BY DEF HarnessInv
<1> QED
  BY HarnessInvariance, <1>1, PTL

\* Servers of two tests never run at once: no test loses the port to the one
\* before it, and none is answered by another test's server.
THEOREM ServersTakeTurns == Spec => []OneServer
<1>1. HarnessInv => OneServer
  BY HarnessAssumption
  DEF HarnessInv, TypeOK, ServerInv, OneServer, Alive, Tests
<1> QED
  BY HarnessInvariance, <1>1, PTL

\* The warm-up's figures are always replaced by the measured ones.
THEOREM WarmupIsOverwritten == Spec => []ResultsAreMeasured
<1>1. HarnessInv => ResultsAreMeasured
  BY DEF HarnessInv, FileInv, Done, ResultsAreMeasured
<1> QED
  BY HarnessInvariance, <1>1, PTL
-----------------------------------------------------------------------------
(* The script comes to its end, and its servers with it. *)

\* How far the test under way has got.
Place ==
    CASE pc = "launch"    -> 9
      [] pc = "settle"    -> 8
      [] pc = "smoke"     -> 7
      [] pc = "warm"      -> 6
      [] pc = "warming"   -> 5
      [] pc = "rest"      -> 4
      [] pc = "measure"   -> 3
      [] pc = "measuring" -> 2
      [] pc = "kill"      -> 1
      [] OTHER            -> 0

\* How many commands the script has ahead of it at most.
ScriptRank ==
    CASE pc = "ended" -> 0
      [] pc = "trap"  -> 1
      [] OTHER        -> 2 + 10 * (N + 1 - at) + Place

\* What lies ahead of a server.
ServerRank(t) ==
    CASE server[t] = "none"        -> 4
      [] server[t] = "booting"     -> 3
      [] server[t] = "listening"   -> 2
      [] server[t] = "terminating" -> 1
      [] server[t] = "gone"        -> 0

\* The server the script waits for is on its way out, and so are all once the
\* script has ended: none is left that would go on by itself.
WindsDown ==
    /\ pc = "wait" => server[at] \in {"terminating", "gone"}
    /\ pc = "ended" => \A t \in Tests : server[t] \notin {"booting", "listening"}

\* The test under way has launched its server.
EndInv ==
    /\ HarnessInv
    /\ WindsDown
    /\ pc \in Running => server[at] # "none"

\* Every command of the script, and every step of a server, is one towards the end,
\* and nothing leads back: no crash, no interrupt, and no step of another server.
GetsCloser ==
    /\ ScriptRank' <= ScriptRank
    /\ Script => ScriptRank' < ScriptRank
    /\ \A t \in Tests : /\ ServerRank(t)' <= ServerRank(t)
                        /\ Process(t) => ServerRank(t)' < ServerRank(t)

-----------------------------------------------------------------------------
LEMMA EndInit == Init => EndInv
<1> SUFFICES ASSUME Init PROVE EndInv
  OBVIOUS
<1>1. HarnessInv
  BY HarnessInit
<1> QED
  BY <1>1 DEF Init, EndInv, WindsDown, Running

LEMMA EndStep == EndInv /\ [Next]_vars => EndInv'
<1> SUFFICES ASSUME EndInv, [Next]_vars PROVE EndInv'
  OBVIOUS
<1>0. HarnessInv'
  BY HarnessStep DEF EndInv
<1> USE <1>0 DEF EndInv, HarnessInv, WindsDown, Running, Pcs, TypeOK, ServerInv, Tests, Alive
<1>1. CASE Launch
  BY <1>1 DEF Launch
<1>2. CASE Settle \/ SmokeTest \/ Rest \/ Exit
  BY <1>2 DEF Settle, SmokeTest, Rest, Exit
<1>3. CASE StartWarmup \/ FinishWarmup \/ StartMeasuring \/ FinishMeasuring
  BY <1>3 DEF StartWarmup, FinishWarmup, StartMeasuring, FinishMeasuring
<1>4. CASE Kill
  BY <1>4 DEF Kill, Signalled
<1>5. CASE Wait
  BY <1>5 DEF Wait
<1>6. CASE ExitTrap
  BY <1>6 DEF ExitTrap, Signalled
<1>7. CASE Interrupt
  BY <1>7 DEF Interrupt
<1>8. ASSUME NEW t \in Tests, Process(t) \/ Crash(t) PROVE EndInv'
  BY <1>8 DEF Process, Bind, Terminate, Crash
<1>9. CASE UNCHANGED vars
  BY <1>9 DEF vars
<1> QED
  BY <1>1, <1>2, <1>3, <1>4, <1>5, <1>6, <1>7, <1>8, <1>9 DEF Next, Script

\* The ranks are natural numbers.
LEMMA RankType ==
    EndInv => ScriptRank \in Nat /\ \A t \in Tests : ServerRank(t) \in Nat
<1> SUFFICES ASSUME EndInv
             PROVE  ScriptRank \in Nat /\ \A t \in Tests : ServerRank(t) \in Nat
  OBVIOUS
<1>1. at \in 1..N + 1 /\ N \in Nat
  BY HarnessAssumption DEF EndInv, HarnessInv, TypeOK
<1>2. Place \in Nat
  BY DEF Place
<1>3. ScriptRank \in Nat
  BY <1>1, <1>2 DEF ScriptRank
<1>4. \A t \in Tests : ServerRank(t) \in Nat
  BY DEF ServerRank, EndInv, HarnessInv, TypeOK, Alive
<1> QED
  BY <1>3, <1>4

\* A command of the script.
LEMMA ScriptCloser == ASSUME EndInv, Script PROVE ScriptRank' < ScriptRank
<1>1. at \in Nat /\ at <= N + 1 /\ N \in Nat /\ pc \in Pcs
  BY HarnessAssumption DEF EndInv, HarnessInv, TypeOK
<1>2. CASE Settle \/ SmokeTest \/ StartWarmup \/ FinishWarmup \/ Rest
  BY <1>1, <1>2
  DEF Settle, SmokeTest, StartWarmup, FinishWarmup, Rest, ScriptRank, Place
<1>3. CASE Launch \/ StartMeasuring \/ FinishMeasuring \/ Kill
  BY <1>1, <1>3 DEF Launch, StartMeasuring, FinishMeasuring, Kill, ScriptRank, Place
<1>4. CASE Wait
  <2>1. /\ pc = "wait" /\ pc' = "launch" /\ at' = at + 1
        /\ at <= N
    BY <1>4 DEF Wait, EndInv, HarnessInv, ServerInv, Running, Pcs, Tests
  <2>2. ScriptRank = 2 + 10 * (N + 1 - at)
    BY <1>1, <2>1 DEF ScriptRank, Place
  <2>3. ScriptRank' = 2 + 10 * (N + 1 - (at + 1)) + 9
    BY <1>1, <2>1 DEF ScriptRank, Place
  <2> QED
    BY <1>1, <2>1, <2>2, <2>3
<1>5. CASE Exit \/ ExitTrap
  BY <1>1, <1>5 DEF Exit, ExitTrap, ScriptRank, Place
<1> QED
  BY <1>2, <1>3, <1>4, <1>5 DEF Script

\* Whatever happens to a server, it comes closer to its end.
LEMMA ServerCloser ==
    ASSUME EndInv, [Next]_vars, NEW t \in Tests
    PROVE  /\ ServerRank(t)' <= ServerRank(t)
           /\ Process(t) => ServerRank(t)' < ServerRank(t)
<1>0. server \in [Tests -> {"none", "gone", "booting", "listening", "terminating"}]
  BY DEF EndInv, HarnessInv, TypeOK, Alive
<1>1. CASE Launch
  <2>1. server[at] = "none" /\ server' = [server EXCEPT ![at] = "booting"]
    BY <1>1 DEF Launch, EndInv, HarnessInv, ServerInv
  <2> QED
    BY <1>0, <2>1 DEF ServerRank, Process, Bind, Terminate
<1>2. CASE Kill \/ ExitTrap
  <2>1. server'[t] = server[t] \/ server'[t] = Signalled(server[t])
    BY <1>0, <1>2 DEF Kill, ExitTrap
  <2>2. ServerRank(t)' <= ServerRank(t)
    BY <1>0, <2>1 DEF Signalled, ServerRank
  <2>3. ~Process(t)
    BY <1>2 DEF Kill, ExitTrap, Process, Bind, Terminate
  <2> QED
    BY <2>2, <2>3
<1>3. CASE UNCHANGED server
  BY <1>0, <1>3 DEF Process, Bind, Terminate, ServerRank
<1>4. ASSUME NEW s \in Tests, Process(s) \/ Crash(s)
      PROVE  /\ ServerRank(t)' <= ServerRank(t)
             /\ Process(t) => ServerRank(t)' < ServerRank(t)
  <2>1. CASE server'[t] = server[t]
    BY <1>0, <1>4, <2>1 DEF Process, Bind, Terminate, ServerRank
  <2>2. CASE server'[t] # server[t]
    BY <1>0, <1>4, <2>2 DEF Process, Bind, Terminate, Crash, ServerRank
  <2> QED
    BY <2>1, <2>2
<1> QED
  BY <1>1, <1>2, <1>3, <1>4
  DEF Next, Script, Settle, SmokeTest, StartWarmup, FinishWarmup, Rest, StartMeasuring,
      FinishMeasuring, Wait, Exit, Interrupt, vars

LEMMA CloserStep == EndInv /\ [Next]_vars => [GetsCloser]_vars
<1>a. EndInv' => (ScriptRank \in Nat)'
  BY RankType, PTL
<1> SUFFICES ASSUME EndInv, Next PROVE GetsCloser
  OBVIOUS
<1>1. ScriptRank \in Nat /\ ScriptRank' \in Nat
  BY <1>a, RankType, EndStep
<1>2. CASE Script
  BY <1>1, <1>2, ScriptCloser, ServerCloser DEF GetsCloser
<1>3. CASE ~Script
  <2>1. ScriptRank' <= ScriptRank
    <3>1. CASE Interrupt
      <4>1. ScriptRank' = 1
        BY <3>1 DEF Interrupt, ScriptRank
      <4>2. ScriptRank >= 1
        <5>1. at \in Nat /\ at <= N + 1 /\ N \in Nat
          BY HarnessAssumption DEF EndInv, HarnessInv, TypeOK
        <5>2. Place \in Nat
          BY DEF Place
        <5> QED
          BY <3>1, <5>1, <5>2 DEF Interrupt, ScriptRank
      <4> QED
        BY <4>1, <4>2
    <3>2. CASE \E t \in Tests : Process(t) \/ Crash(t)
      <4>1. ScriptRank' = ScriptRank
        BY <3>2 DEF Process, Bind, Terminate, Crash, ScriptRank, Place
      <4> QED
        BY <1>1, <4>1
    <3> QED
      BY <1>3, <3>1, <3>2 DEF Next
  <2> QED
    BY <1>3, <2>1, ServerCloser DEF GetsCloser
<1> QED
  BY <1>2, <1>3

\* The script of any number of tests has a bounded number of commands ahead of it, which
\* each of them lowers and nothing raises; each server goes from its launch to
\* its end and never back. The one the script waits for has been told to end, and
\* `kill 0' leaves none that was not.
THEOREM ScriptsWindDown ==
    Spec => /\ []WindsDown
            /\ [](ScriptRank \in Nat /\ \A t \in Tests : ServerRank(t) \in Nat)
            /\ [][GetsCloser]_vars
<1>1. Init => EndInv
  BY EndInit
<1>2. EndInv /\ [Next]_vars => EndInv'
  BY EndStep
<1>3. EndInv => WindsDown /\ ScriptRank \in Nat /\ \A t \in Tests : ServerRank(t) \in Nat
  BY RankType DEF EndInv
<1>4. EndInv /\ [Next]_vars => [GetsCloser]_vars
  BY CloserStep
<1> QED
  BY <1>1, <1>2, <1>3, <1>4, PTL DEF Spec
=============================================================================
