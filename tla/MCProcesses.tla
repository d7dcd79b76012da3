---------------------------- MODULE MCProcesses -----------------------------
(* What runs beside the dispatch thread, in one run: the test server and   *)
(* the application over their pipe, databases that replace one another     *)
(* with their threads, and processes that share a database file.  They     *)
(* have no state in common: a behaviour is of one of them, chosen at the   *)
(* start.                                                                  *)
EXTENDS PagerLocks, DatabaseSwitch, Tester

CONSTANTS p1, p2, p3

VARIABLE part

allVars == <<part, testerVars, switchVars, lockVars>>
-----------------------------------------------------------------------------
(* test_app(): two commands sent before their answers are awaited, as in   *)
(* test_connection(), the dialog closed by WM_CLOSE and by a key, as in    *)
(* test_xyz(), and the end.  (Each send is a post and a wait.)             *)
Send(c) == <<Posts(Msg(c, 0)), Waits(Msg(c, 0))>>
Connection == <<Posts(Msg("connect", 1)), Posts(Msg("connect", 2)),
                Waits(Msg("connect", 1)), Waits(Msg("connect", 2))>>
TestApp == [steps |-> Connection \o Send("about") \o Send("close") \o Send("key")
                        \o Send("exit"),
            minutes |-> 0]

(* The same with a minute of silence anywhere, for a shorter script.       *)
Silence == [steps |-> Send("key") \o Send("exit"), minutes |-> 1]
MCScripts == {TestApp, Silence}

(* Three processes that read and write one file with two pages, and give   *)
(* up waiting; one that is killed up to three times; two, of which one is  *)
(* killed and one leaves a cursor open; two that never give up.            *)
MCProcs == {p1, p2, p3}
MCPages == {1, 2}
Readers == [procs |-> MCProcs, cursors |-> {}, impatient |-> MCProcs,
            crashes |-> 0, errors |-> 1]
Killed  == [procs |-> {p1}, cursors |-> {p1}, impatient |-> {p1},
            crashes |-> 3, errors |-> 2]
Rivals  == [procs |-> {p1, p2}, cursors |-> {p1}, impatient |-> {p1, p2},
            crashes |-> 1, errors |-> 1]
Waiting == [procs |-> {p1, p2}, cursors |-> {}, impatient |-> {},
            crashes |-> 0, errors |-> 0]
MCWorlds == {Readers, Killed, Rivals, Waiting}

-----------------------------------------------------------------------------
Init ==
  /\ part \in {"test", "switch", "locks"}
  /\ TestInit /\ SwitchInit /\ LocksInit
  /\ part # "test" => script = Silence
  /\ part # "locks" => world = Readers

In(p, A) == part = p /\ A /\ UNCHANGED part
Testing(A) == A /\ UNCHANGED <<script, switchVars, lockVars>>
Switching(A) == A /\ UNCHANGED <<testerVars, lockVars>>
Locking(A) == A /\ UNCHANGED <<testerVars, switchVars>>

Next ==
  \/ Testing(In("test", TestNext))
  \/ Switching(In("switch", SwitchNext))
  \/ Locking(In("locks", LocksNext))

(* That of the modules: threads and processes that can go on do so; nobody *)
(* need be silent, broadcast, open a database or read.                     *)
TestFairness ==
  /\ WF_allVars(Testing(In("test", TestMain)))
  /\ WF_allVars(Testing(In("test", TestReader)))
  /\ WF_allVars(Testing(In("test", TestFails)))
  /\ WF_allVars(Testing(In("test", AppReader)))
  /\ WF_allVars(Testing(In("test", AppDispatch)))
  /\ WF_allVars(Testing(In("test", AppFails)))
SwitchFairness ==
  /\ WF_allVars(Switching(In("switch", Main)))
  /\ \A d \in Dbs :
       /\ WF_allVars(Switching(In("switch", Worker(d))))
       /\ WF_allVars(Switching(In("switch", ReaderStep(d))))
LockFairness ==
  \A p \in {p1, p2} :
    WF_allVars(Locking(In("locks", world = Waiting /\ Continue(p))))

Spec == /\ Init /\ [][Next]_allVars
        /\ TestFairness /\ SwitchFairness /\ LockFairness
-----------------------------------------------------------------------------
(* The script comes to its end; when one of the two processes ends, for    *)
(* whatever reason, so does the other; setDatabase() comes back, and every *)
(* read is answered by the database it was given to; and a writer that     *)
(* waits for the file gets it, however often the others read.              *)
EverybodyFinishes ==
  /\ part = "test" => (script = TestApp => ScriptEnds)
  /\ part = "test" => (script = Silence => BothEnd)
  /\ part = "switch" => SwitchEnds /\ EveryReadAnswered
  /\ part = "locks" => (world = Waiting => WriterGetsIn)
=============================================================================
