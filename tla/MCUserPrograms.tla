---------------------------- MODULE MCUserPrograms ----------------------------
(***************************************************************************)
(* The applications of user/, one of them in each behaviour.               *)
(***************************************************************************)
EXTENDS AirReservation, MidTermEx, SortPrograms, MatrixOperations, SyncTests

\* Every sorting program, next to one it shares the console with.
MCSortPairs == {<<"qs1", "ms2">>, <<"ms1", "qs2">>, <<"static", "ef2">>, <<"ef1", "ms1">>,
                <<"qs3", "qs4">>, <<"qs5", "qs1">>}

Init == AirInit \/ MidInit \/ ArrInit \/ SortInit \/ MatInit \/ SyncInit

Step(p) == AirStep(p) \/ MidStep(p) \/ ArrStep(p) \/ SortStep(p) \/ MatStep(p) \/ SyncStep(p)

Next == (\E p \in Proc : Step(p)) \/ Finished

\* A process that can run is run: the scheduler never idles with one ready.
\* Weak fairness of the steps, written out: they alone change anything.
FairSpec ==
    /\ Init /\ [][Next]_pvars
    /\ \/ []<>(~ENABLED \E p \in Proc : Step(p))
       \/ []<><<TRUE>>_pvars


\* The results are those of the applications run alone, in any schedule: every
\* customer served exactly once and no seat sold twice (tst_air.c:210-275), the
\* midterm's variable as its protocol says, arrays sorted and their statistics
\* right, matrices as defined, and the sleepers woken one at a time or all.
ApplicationsRight ==
    /\ SeatsAccounted /\ ServedOnce /\ MidtermResult /\ ArraysRight /\ SortsRight
    /\ MatrixRight /\ WakeupsChained /\ WokenAll

\* Every application comes to its end: nobody is left waiting for a semaphore,
\* the console or a sleeper.  Two things may cut one short and leave others
\* waiting: the division by zero of the semi-random fill
\* (user/arrayOperations_Master.c:227-237) and a master that fails a check
\* because its delay was too short (user/tst_air.c:258-260, the channel tests).
ProgramsFinish ==
    <>((\A p \in Proc : pc[p] \in Ended) \/ (\E p \in Proc : pc[p] \in {"trap", "late"}))
=============================================================================
