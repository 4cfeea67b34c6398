------------------------ MODULE UnencryptedPortProofs ------------------------
(***************************************************************************)
(* Proofs about UnencryptedPort, for every number of instances, children   *)
(* and packets: the types, that one port runs one pipeline beside those    *)
(* its map has lost sight of, and that no lock is left behind unless an    *)
(* acquisition threw.                                                      *)
(***************************************************************************)
EXTENDS UnencryptedPort, FiniteSetTheorems, TLAPS

-----------------------------------------------------------------------------
\* What keeps the pipelines apart.  A start is pending only while no pipeline is
\* registered; a child that boots is that start's, one that runs is the registered
\* one, and any other that is alive was dropped.
StartExcludesEntry == pending # "none" => entry = NoProc

BootingIsPending ==
  \A p \in Procs \ dropped : procs[p] = "booting" => pending = "fifo" /\ startProc = p

RunningIsEntry == \A p \in Procs \ dropped : procs[p] = "running" => entry = p

PipelineInv == StartExcludesEntry /\ BootingIsPending /\ RunningIsEntry

\* What keeps the calls apart.  A stream only asks for the lock after an inactive
\* spell, which waits for the calls in flight: so no refresh or release of an old
\* tenure is still on its way when the next lock is won.
AcquireIsAlone ==
  acquire # "none" => ~lockHeld /\ status = "active" /\ buffered = 0

RefreshIsAlone ==
  refresh # "none" => acquire = "none" /\ status = "active" /\ buffered = 0

ReleaseIsAlone ==
  release # "none" =>
    acquire = "none" /\ buffered = 0 /\ (lockHeld \/ status = "active")

BufferIsOurs == buffered > 0 => ~lockHeld /\ status = "active"

\* An acquisition that threw is not followed by calls that need the lock.
ThrownIsUnheld ==
  failed = "acquire" => ~lockHeld /\ refresh = "none" /\ acquire # "won"

AnswersHold == (refresh = "lost" \/ release = "done") => row.owner # Me

TenureInv ==
  life = "up" =>
    /\ AcquireIsAlone /\ RefreshIsAlone /\ ReleaseIsAlone /\ BufferIsOurs
    /\ AnswersHold /\ ThrownIsUnheld

LockInv == TenureInv /\ NoLockLeftBehind

-----------------------------------------------------------------------------
\* The types in three parts: the Boolean variables, the row, and the others.
FlagsOK ==
  /\ timer \in BOOLEAN /\ lockHeld \in BOOLEAN /\ starter \in BOOLEAN
  /\ startData \in BOOLEAN /\ restart \in BOOLEAN /\ quiet \in BOOLEAN

RowOK == row \in LockRow

ValuesOK ==
  /\ status \in {"none", "active", "inactive"}
  /\ buffered \in 0..(Threshold - 1)
  /\ acquire \in {"none", "sent", "won", "refused"}
  /\ refresh \in {"none", "sent", "done", "lost"} /\ release \in {"none", "sent", "done"}
  /\ pending \in {"none", "creds", "fifo"}
  /\ startProc \in Procs \cup {NoProc} /\ entry \in Procs \cup {NoProc}
  /\ procs \in [Procs -> {"none", "booting", "running", "ended", "dead"}]
  /\ fed \subseteq Procs /\ dropped \subseteq Procs
  /\ life \in {"up", "closing", "stopping", "exited"}
  /\ failed \in {"none", "acquire", "refresh"}

\* TypeOK by kinds of variable.
LEMMA TypeParts == TypeOK <=> FlagsOK /\ RowOK /\ ValuesOK
BY DEF TypeOK, FlagsOK, RowOK, ValuesOK

\* The writes of StreamRow make rows of rows.
LEMMA RowWrites ==
  ASSUME NEW r \in LockRow, NEW i \in Instances
  PROVE  /\ Acquired(i) \in LockRow /\ Released(r, i) \in LockRow
         /\ Refreshed(r) \in LockRow /\ Cleaned(r) \in LockRow
         /\ [r EXCEPT !.stale = TRUE] \in LockRow
BY DEF LockRow, Acquired, Released, Refreshed, Cleaned

\* Every step keeps the flags Boolean.
LEMMA FlagsStep ==
  ASSUME FlagsOK, [Next]_vars
  PROVE  FlagsOK'
<1> USE UnencryptedAssumption
<1>1. CASE PacketBuffered
  BY <1>1 DEF PacketBuffered, Received, FlagsOK, stream, calls, start, children,
     pipeline
<1>2. CASE PacketFillsBuffer
  BY <1>2 DEF PacketFillsBuffer, FlagsOK, stream, calls, start, children, pipeline
<1>3. CASE PacketPasses
  BY <1>3 DEF PacketPasses, Received, Feed, FlagsOK, stream, calls, start, children,
     pipeline
<1>4. CASE AcquireApplied
  BY <1>4 DEF AcquireApplied, FlagsOK, stream, calls, start, children, pipeline
<1>5. CASE AcquireReturns
  BY <1>5 DEF AcquireReturns, Received, StartPipeline, FlagsOK, stream, calls, start,
     children, pipeline
<1>6. CASE StarterContinues
  BY <1>6 DEF StarterContinues, Received, FlagsOK, stream, calls, start, children,
     pipeline
<1>7. CASE RefreshApplied
  BY <1>7 DEF RefreshApplied, FlagsOK, stream, calls, start, children, pipeline
<1>8. CASE RefreshReturns
  BY <1>8 DEF RefreshReturns, Feed, FlagsOK, stream, calls, start, children, pipeline
<1>9. CASE RefreshReturnsLost
  BY <1>9 DEF RefreshReturnsLost, StopPipeline, Closed, FlagsOK, stream, calls, start,
     children, pipeline
<1>10. CASE InactivityFires
  BY <1>10 DEF InactivityFires, StopPipeline, Closed, FlagsOK, stream, calls, start,
     children, pipeline
<1>11. CASE ReleaseApplied
  BY <1>11 DEF ReleaseApplied, ProcessExit, ProcessEnds, FlagsOK, stream, calls, start,
     children, pipeline
<1>12. CASE ReleaseReturns
  BY <1>12 DEF ReleaseReturns, StopPipeline, Closed, FlagsOK, stream, calls, start,
     children, pipeline
<1>13. CASE CredentialsResolve
  BY <1>13 DEF CredentialsResolve, FlagsOK, stream, calls, start, children, pipeline
<1>14. CASE FifoOpens
  BY <1>14 DEF FifoOpens, StartEnds, FlagsOK, stream, calls, start, children, pipeline
<1>15. CASE FifoFails
  BY <1>15 DEF FifoFails, StartEnds, FlagsOK, stream, calls, start,
     children, pipeline
<1>16. CASE FirstWriteFails
  BY <1>16 DEF FirstWriteFails, ProcessEnds, FlagsOK, stream, calls,
     start, children, pipeline
<1>17. CASE SpawnFails
  BY <1>17 DEF SpawnFails, ProcessExit, ProcessEnds, FlagsOK, stream, calls, start,
     children, pipeline
<1>18. CASE \E p \in Procs : ExitsUnheard(p)
  BY <1>18 DEF ExitsUnheard, FlagsOK, stream, calls, start, children, pipeline
<1>19. CASE \E p \in Procs : ProcExits(p)
  BY <1>19 DEF ProcExits, FlagsOK, stream, calls, start, children, pipeline
<1>20. CASE RestartFires
  BY <1>20 DEF RestartFires, StartPipeline, FlagsOK, stream, calls, start, children,
     pipeline
<1>21. CASE ShutDown
  BY <1>21 DEF ShutDown, FlagsOK, stream, calls, start, children, pipeline
<1>22. CASE ShutDownReleases
  BY <1>22 DEF ShutDownReleases, StopPipeline, Closed, FlagsOK, stream, calls, start,
     children, pipeline
<1>23. CASE ServiceExits
  BY <1>23 DEF ServiceExits, ProcessExit, ProcessEnds, FlagsOK, stream, calls, start,
     children, pipeline
<1>24. CASE RivalAcquires
  BY <1>24 DEF RivalAcquires, RowStep, Rivals, FlagsOK, stream, calls, start, children,
     pipeline
<1>25. CASE RivalReleases
  BY <1>25 DEF RivalReleases, RowStep, Rivals, FlagsOK, stream, calls, start, children,
     pipeline
<1>26. CASE LeaseGoesStale
  BY <1>26 DEF LeaseGoesStale, RowStep, FlagsOK, stream, calls, start, children,
     pipeline
<1>27. CASE CleanupRemoves
  BY <1>27 DEF CleanupRemoves, RowStep, FlagsOK, stream, calls, start, children,
     pipeline
<1>28. CASE TrafficEnds
  BY <1>28 DEF TrafficEnds, FlagsOK, stream, calls, start, children, pipeline
<1>29. CASE UNCHANGED vars
  BY <1>29 DEF vars, FlagsOK, stream, calls, start, children, pipeline
<1>30. QED
  BY <1>1, <1>2, <1>3, <1>4, <1>5, <1>6, <1>7, <1>8, <1>9, <1>10, <1>11, <1>12, <1>13,
     <1>14, <1>15, <1>16, <1>17, <1>18, <1>19, <1>20, <1>21, <1>22, <1>23, <1>24,
     <1>25, <1>26, <1>27, <1>28, <1>29 DEF Next

\* Every step leaves a row of the table.
LEMMA RowKept ==
  ASSUME RowOK, [Next]_vars
  PROVE  RowOK'
<1> USE UnencryptedAssumption
<1>1. CASE PacketBuffered
  BY RowWrites, <1>1 DEF PacketBuffered, Received, RowOK, stream, calls, start,
     children, pipeline
<1>2. CASE PacketFillsBuffer
  BY RowWrites, <1>2 DEF PacketFillsBuffer, RowOK, stream, calls, start, children,
     pipeline
<1>3. CASE PacketPasses
  BY RowWrites, <1>3 DEF PacketPasses, Received, Feed, RowOK, stream, calls, start,
     children, pipeline
<1>4. CASE AcquireApplied
  BY RowWrites, <1>4 DEF AcquireApplied, RowOK, stream, calls, start, children,
     pipeline
<1>5. CASE AcquireReturns
  BY RowWrites, <1>5 DEF AcquireReturns, Received, StartPipeline, RowOK, stream, calls,
     start, children, pipeline
<1>6. CASE StarterContinues
  BY RowWrites, <1>6 DEF StarterContinues, Received, RowOK, stream, calls, start,
     children, pipeline
<1>7. CASE RefreshApplied
  BY RowWrites, <1>7 DEF RefreshApplied, RowOK, stream, calls, start, children,
     pipeline
<1>8. CASE RefreshReturns
  BY RowWrites, <1>8 DEF RefreshReturns, Feed, RowOK, stream, calls, start, children,
     pipeline
<1>9. CASE RefreshReturnsLost
  BY RowWrites, <1>9 DEF RefreshReturnsLost, StopPipeline, Closed, RowOK, stream,
     calls, start, children, pipeline
<1>10. CASE InactivityFires
  BY RowWrites, <1>10 DEF InactivityFires, StopPipeline, Closed, RowOK, stream, calls,
     start, children, pipeline
<1>11. CASE ReleaseApplied
  BY RowWrites, <1>11 DEF ReleaseApplied, ProcessExit, ProcessEnds, RowOK, stream, calls, start,
     children, pipeline
<1>12. CASE ReleaseReturns
  BY RowWrites, <1>12 DEF ReleaseReturns, StopPipeline, Closed, RowOK, stream, calls,
     start, children, pipeline
<1>13. CASE CredentialsResolve
  BY RowWrites, <1>13 DEF CredentialsResolve, RowOK, stream, calls, start, children,
     pipeline
<1>14. CASE FifoOpens
  BY RowWrites, <1>14 DEF FifoOpens, StartEnds, RowOK, stream, calls, start, children,
     pipeline
<1>15. CASE FifoFails
  BY RowWrites, <1>15 DEF FifoFails, StartEnds, RowOK, stream, calls,
     start, children, pipeline
<1>16. CASE FirstWriteFails
  BY RowWrites, <1>16 DEF FirstWriteFails, ProcessEnds, RowOK, stream,
     calls, start, children, pipeline
<1>17. CASE SpawnFails
  BY RowWrites, <1>17 DEF SpawnFails, ProcessExit, ProcessEnds, RowOK, stream, calls, start,
     children, pipeline
<1>18. CASE \E p \in Procs : ExitsUnheard(p)
  BY RowWrites, <1>18 DEF ExitsUnheard, RowOK, stream, calls, start, children, pipeline
<1>19. CASE \E p \in Procs : ProcExits(p)
  BY RowWrites, <1>19 DEF ProcExits, RowOK, stream, calls, start, children, pipeline
<1>20. CASE RestartFires
  BY RowWrites, <1>20 DEF RestartFires, StartPipeline, RowOK, stream, calls, start,
     children, pipeline
<1>21. CASE ShutDown
  BY RowWrites, <1>21 DEF ShutDown, RowOK, stream, calls, start, children, pipeline
<1>22. CASE ShutDownReleases
  BY RowWrites, <1>22 DEF ShutDownReleases, StopPipeline, Closed, RowOK, stream, calls,
     start, children, pipeline
<1>23. CASE ServiceExits
  BY RowWrites, <1>23 DEF ServiceExits, ProcessExit, ProcessEnds, RowOK, stream, calls, start,
     children, pipeline
<1>24. CASE RivalAcquires
  BY RowWrites, <1>24 DEF RivalAcquires, RowStep, Rivals, RowOK, stream, calls, start,
     children, pipeline
<1>25. CASE RivalReleases
  BY RowWrites, <1>25 DEF RivalReleases, RowStep, Rivals, RowOK, stream, calls, start,
     children, pipeline
<1>26. CASE LeaseGoesStale
  BY RowWrites, <1>26 DEF LeaseGoesStale, RowStep, RowOK, stream, calls, start,
     children, pipeline
<1>27. CASE CleanupRemoves
  BY RowWrites, <1>27 DEF CleanupRemoves, RowStep, RowOK, stream, calls, start,
     children, pipeline
<1>28. CASE TrafficEnds
  BY RowWrites, <1>28 DEF TrafficEnds, RowOK, stream, calls, start, children, pipeline
<1>29. CASE UNCHANGED vars
  BY RowWrites, <1>29 DEF vars, RowOK, stream, calls, start, children, pipeline
<1>30. QED
  BY <1>1, <1>2, <1>3, <1>4, <1>5, <1>6, <1>7, <1>8, <1>9, <1>10, <1>11, <1>12, <1>13,
     <1>14, <1>15, <1>16, <1>17, <1>18, <1>19, <1>20, <1>21, <1>22, <1>23, <1>24,
     <1>25, <1>26, <1>27, <1>28, <1>29 DEF Next

\* Every step keeps the other variables in their sets.
LEMMA ValuesStep ==
  ASSUME ValuesOK, [Next]_vars
  PROVE  ValuesOK'
<1> USE UnencryptedAssumption
<1>1. CASE PacketBuffered
  BY <1>1 DEF PacketBuffered, Received, Arrives, Buffering, ValuesOK, stream, calls,
     start, children, pipeline
<1>2. CASE PacketFillsBuffer
  BY <1>2 DEF PacketFillsBuffer, Arrives, Buffering, ValuesOK, stream, calls, start,
     children, pipeline
<1>3. CASE PacketPasses
  BY <1>3 DEF PacketPasses, Received, Feed, Arrives, Buffering, ValuesOK, stream,
     calls, start, children, pipeline
<1>4. CASE AcquireApplied
  BY <1>4 DEF AcquireApplied, ValuesOK, stream, calls, start, children, pipeline
<1>5. CASE AcquireReturns
  BY <1>5 DEF AcquireReturns, Received, StartPipeline, ValuesOK, stream, calls, start,
     children, pipeline
<1>6. CASE StarterContinues
  BY <1>6 DEF StarterContinues, Received, ValuesOK, stream, calls, start, children,
     pipeline
<1>7. CASE RefreshApplied
  BY <1>7 DEF RefreshApplied, ValuesOK, stream, calls, start, children, pipeline
<1>8. CASE RefreshReturns
  BY <1>8 DEF RefreshReturns, Feed, ValuesOK, stream, calls, start, children, pipeline
<1>9. CASE RefreshReturnsLost
  BY <1>9 DEF RefreshReturnsLost, StopPipeline, Closed, ValuesOK, stream, calls, start,
     children, pipeline
<1>10. CASE InactivityFires
  BY <1>10 DEF InactivityFires, StopPipeline, Closed, ValuesOK, stream, calls, start,
     children, pipeline
<1>11. CASE ReleaseApplied
  BY <1>11 DEF ReleaseApplied, ProcessExit, ProcessEnds, ValuesOK, stream, calls, start,
     children, pipeline
<1>12. CASE ReleaseReturns
  BY <1>12 DEF ReleaseReturns, StopPipeline, Closed, ValuesOK, stream, calls, start,
     children, pipeline
<1>13. CASE CredentialsResolve
  BY <1>13 DEF CredentialsResolve, ValuesOK, stream, calls, start, children, pipeline
<1>14. CASE FifoOpens
  BY <1>14 DEF FifoOpens, StartEnds, ValuesOK, stream, calls, start, children, pipeline
<1>15. CASE FifoFails
  BY <1>15 DEF FifoFails, StartEnds, ValuesOK, stream, calls, start,
     children, pipeline
<1>16. CASE FirstWriteFails
  BY <1>16 DEF FirstWriteFails, ProcessEnds, ValuesOK, stream, calls,
     start, children, pipeline
<1>17. CASE SpawnFails
  BY <1>17 DEF SpawnFails, ProcessExit, ProcessEnds, ValuesOK, stream, calls, start,
     children, pipeline
<1>18. CASE \E p \in Procs : ExitsUnheard(p)
  BY <1>18 DEF ExitsUnheard, ValuesOK, stream, calls, start, children, pipeline
<1>19. CASE \E p \in Procs : ProcExits(p)
  BY <1>19 DEF ProcExits, ValuesOK, stream, calls, start, children, pipeline
<1>20. CASE RestartFires
  BY <1>20 DEF RestartFires, StartPipeline, ValuesOK, stream, calls, start, children,
     pipeline
<1>21. CASE ShutDown
  BY <1>21 DEF ShutDown, ValuesOK, stream, calls, start, children, pipeline
<1>22. CASE ShutDownReleases
  BY <1>22 DEF ShutDownReleases, StopPipeline, Closed, ValuesOK, stream, calls, start,
     children, pipeline
<1>23. CASE ServiceExits
  BY <1>23 DEF ServiceExits, ProcessExit, ProcessEnds, ValuesOK, stream, calls, start,
     children, pipeline
<1>24. CASE RivalAcquires
  BY <1>24 DEF RivalAcquires, RowStep, Rivals, ValuesOK, stream, calls, start,
     children, pipeline
<1>25. CASE RivalReleases
  BY <1>25 DEF RivalReleases, RowStep, Rivals, ValuesOK, stream, calls, start,
     children, pipeline
<1>26. CASE LeaseGoesStale
  BY <1>26 DEF LeaseGoesStale, RowStep, ValuesOK, stream, calls, start, children,
     pipeline
<1>27. CASE CleanupRemoves
  BY <1>27 DEF CleanupRemoves, RowStep, ValuesOK, stream, calls, start, children,
     pipeline
<1>28. CASE TrafficEnds
  BY <1>28 DEF TrafficEnds, ValuesOK, stream, calls, start, children, pipeline
<1>29. CASE UNCHANGED vars
  BY <1>29 DEF vars, ValuesOK, stream, calls, start, children, pipeline
<1>30. QED
  BY <1>1, <1>2, <1>3, <1>4, <1>5, <1>6, <1>7, <1>8, <1>9, <1>10, <1>11, <1>12, <1>13,
     <1>14, <1>15, <1>16, <1>17, <1>18, <1>19, <1>20, <1>21, <1>22, <1>23, <1>24,
     <1>25, <1>26, <1>27, <1>28, <1>29 DEF Next

\* Every step keeps the types.
LEMMA TypeStep ==
  ASSUME TypeOK, [Next]_vars
  PROVE  TypeOK'
<1>1. FlagsOK /\ RowOK /\ ValuesOK
  BY TypeParts
<1>2. FlagsOK' /\ RowOK' /\ ValuesOK'
  BY <1>1, FlagsStep, RowKept, ValuesStep
<1>3. QED
  BY <1>2 DEF TypeOK, FlagsOK, RowOK, ValuesOK

\* The process starts with values of the right types.
LEMMA InitTypeOK == Init => TypeOK
<1> SUFFICES ASSUME Init PROVE TypeOK
  OBVIOUS
<1>1. FlagsOK
  BY DEF Init, FlagsOK
<1>2. RowOK
  BY DEF Init, RowOK, FreeRow, LockRow
<1>3. ValuesOK
  BY UnencryptedAssumption DEF Init, ValuesOK
<1>4. QED
  BY <1>1, <1>2, <1>3, TypeParts

\* Types (UnencryptedPort.TypeOK): in particular the buffer of index.ts never holds
\* the packet that makes it start the stream.
THEOREM SpecTypeOK == Spec => []TypeOK
BY InitTypeOK, TypeStep, PTL DEF Spec

-----------------------------------------------------------------------------
\* No step, of whatever part of the service, lets two children of the port run.
LEMMA PipelineStep ==
  ASSUME TypeOK, PipelineInv, [Next]_vars
  PROVE  PipelineInv'
<1> USE UnencryptedAssumption
<1> USE DEF PipelineInv, StartExcludesEntry, BootingIsPending, RunningIsEntry
<1>1. CASE PacketBuffered
  BY <1>1 DEF PacketBuffered, Received, Arrives, Buffering, TypeOK, stream, calls,
     start, children, pipeline
<1>2. CASE PacketFillsBuffer
  BY <1>2 DEF PacketFillsBuffer, Arrives, Buffering, TypeOK, stream, calls, start,
     children, pipeline
<1>3. CASE PacketPasses
  BY <1>3 DEF PacketPasses, Received, Feed, Arrives, Buffering, TypeOK, stream, calls,
     start, children, pipeline
<1>4. CASE AcquireApplied
  BY <1>4 DEF AcquireApplied, TypeOK, stream, calls, start, children, pipeline
<1>5. CASE AcquireReturns
  BY <1>5 DEF AcquireReturns, Received, StartPipeline, TypeOK, stream, calls, start,
     children, pipeline
<1>6. CASE StarterContinues
  BY <1>6 DEF StarterContinues, Received, TypeOK, stream, calls, start, children,
     pipeline
<1>7. CASE RefreshApplied
  BY <1>7 DEF RefreshApplied, TypeOK, stream, calls, start, children, pipeline
<1>8. CASE RefreshReturns
  BY <1>8 DEF RefreshReturns, Feed, TypeOK, stream, calls, start, children, pipeline
<1>9. CASE RefreshReturnsLost
  BY <1>9 DEF RefreshReturnsLost, StopPipeline, Closed, TypeOK, stream, calls, start,
     children, pipeline
<1>10. CASE InactivityFires
  BY <1>10 DEF InactivityFires, StopPipeline, Closed, TypeOK, stream, calls, start,
     children, pipeline
<1>11. CASE ReleaseApplied
  BY <1>11 DEF ReleaseApplied, ProcessExit, ProcessEnds, TypeOK, stream, calls, start,
     children, pipeline
<1>12. CASE ReleaseReturns
  BY <1>12 DEF ReleaseReturns, StopPipeline, Closed, TypeOK, stream, calls, start,
     children, pipeline
<1>13. CASE CredentialsResolve
  BY <1>13 DEF CredentialsResolve, TypeOK, stream, calls, start, children, pipeline
<1>14. CASE FifoOpens
  BY <1>14 DEF FifoOpens, StartEnds, TypeOK, stream, calls, start, children, pipeline
<1>15. CASE FifoFails
  BY <1>15 DEF FifoFails, StartEnds, TypeOK, stream, calls, start,
     children, pipeline
<1>16. CASE FirstWriteFails
  BY <1>16 DEF FirstWriteFails, ProcessEnds, TypeOK, stream, calls, start,
     children, pipeline
<1>17. CASE SpawnFails
  BY <1>17 DEF SpawnFails, ProcessExit, ProcessEnds, TypeOK, stream, calls, start,
     children, pipeline
<1>18. CASE \E p \in Procs : ExitsUnheard(p)
  BY <1>18 DEF ExitsUnheard, TypeOK, stream, calls, start, children, pipeline
<1>19. CASE \E p \in Procs : ProcExits(p)
  BY <1>19 DEF ProcExits, TypeOK, stream, calls, start, children, pipeline
<1>20. CASE RestartFires
  BY <1>20 DEF RestartFires, StartPipeline, TypeOK, stream, calls, start, children,
     pipeline
<1>21. CASE ShutDown
  BY <1>21 DEF ShutDown, TypeOK, stream, calls, start, children, pipeline
<1>22. CASE ShutDownReleases
  BY <1>22 DEF ShutDownReleases, StopPipeline, Closed, TypeOK, stream, calls, start,
     children, pipeline
<1>23. CASE ServiceExits
  BY <1>23 DEF ServiceExits, ProcessExit, ProcessEnds, TypeOK, stream, calls, start,
     children, pipeline
<1>24. CASE RivalAcquires
  BY <1>24 DEF RivalAcquires, RowStep, Rivals, TypeOK, stream, calls, start, children,
     pipeline
<1>25. CASE RivalReleases
  BY <1>25 DEF RivalReleases, RowStep, Rivals, TypeOK, stream, calls, start, children,
     pipeline
<1>26. CASE LeaseGoesStale
  BY <1>26 DEF LeaseGoesStale, RowStep, TypeOK, stream, calls, start, children,
     pipeline
<1>27. CASE CleanupRemoves
  BY <1>27 DEF CleanupRemoves, RowStep, TypeOK, stream, calls, start, children,
     pipeline
<1>28. CASE TrafficEnds
  BY <1>28 DEF TrafficEnds, TypeOK, stream, calls, start, children, pipeline
<1>29. CASE UNCHANGED vars
  BY <1>29 DEF vars, TypeOK, stream, calls, start, children, pipeline
<1>30. QED
  BY <1>1, <1>2, <1>3, <1>4, <1>5, <1>6, <1>7, <1>8, <1>9, <1>10, <1>11, <1>12, <1>13,
     <1>14, <1>15, <1>16, <1>17, <1>18, <1>19, <1>20, <1>21, <1>22, <1>23, <1>24,
     <1>25, <1>26, <1>27, <1>28, <1>29 DEF Next

\* At most one child is alive and not dropped: the pending start's or the registered one.
LEMMA OneChildAlive ==
  ASSUME PipelineInv, TypeOK PROVE OnePipeline
<1> DEFINE alive == {p \in Procs : procs[p] \in {"booting", "running"}} \ dropped
           one == IF pending = "fifo" THEN startProc ELSE entry
<1>1. alive \subseteq {one}
  BY UnencryptedAssumption
     DEF PipelineInv, StartExcludesEntry, BootingIsPending, RunningIsEntry, TypeOK
<1>2. IsFiniteSet({one}) /\ Cardinality({one}) = 1
  BY FS_Singleton
<1>3. Cardinality(alive) <= Cardinality({one})
  BY <1>1, <1>2, FS_Subset
<1>4. QED
  BY <1>2, <1>3 DEF OnePipeline

\* One pipeline per port (UnencryptedPort.OnePipeline): no interleaving of
\* acquisitions, restart timers, crashes, failing starts and stops whose children are
\* still draining brings a second child to life, but beside those that the map lost to
\* another child's exit or to a rejected start, for any number of children.
THEOREM SpecOnePipeline == Spec => []OnePipeline
<1>1. Init => PipelineInv
  BY UnencryptedAssumption
     DEF Init, PipelineInv, StartExcludesEntry, BootingIsPending, RunningIsEntry
<1>2. TypeOK /\ PipelineInv /\ [Next]_vars => TypeOK' /\ PipelineInv'
  BY TypeStep, PipelineStep
<1>3. TypeOK /\ PipelineInv => OnePipeline
  BY OneChildAlive
<1>4. QED
  BY <1>1, <1>2, <1>3, InitTypeOK, PTL DEF Spec

-----------------------------------------------------------------------------
\* No step gives up the lock, or the knowledge of it, while the row still says Me.
LEMMA LockStep ==
  ASSUME TypeOK, LockInv, [Next]_vars
  PROVE  LockInv'
<1> USE UnencryptedAssumption, NoOwnerAssumption
<1> USE DEF LockInv, TenureInv, NoLockLeftBehind, AcquireIsAlone, RefreshIsAlone,
            ReleaseIsAlone, BufferIsOurs, AnswersHold, ThrownIsUnheld
<1>1. CASE PacketBuffered
  BY <1>1 DEF PacketBuffered, Received, Arrives, Buffering, TypeOK, stream, calls,
     start, children, pipeline
<1>2. CASE PacketFillsBuffer
  BY <1>2 DEF PacketFillsBuffer, Arrives, Buffering, TypeOK, stream, calls, start,
     children, pipeline
<1>3. CASE PacketPasses
  BY <1>3 DEF PacketPasses, Received, Feed, Arrives, Buffering, TypeOK, stream, calls,
     start, children, pipeline
<1>4. CASE AcquireApplied
  BY <1>4 DEF AcquireApplied, LockRow, Acquired, TypeOK, stream, calls, start,
     children, pipeline
<1>5. CASE AcquireReturns
  BY <1>5 DEF AcquireReturns, Received, StartPipeline, TypeOK, stream, calls, start,
     children, pipeline
<1>6. CASE StarterContinues
  BY <1>6 DEF StarterContinues, Received, TypeOK, stream, calls, start, children,
     pipeline
<1>7. CASE RefreshApplied
  BY <1>7 DEF RefreshApplied, LockRow, Refreshed, CanRefresh, TypeOK, stream, calls,
     start, children, pipeline
<1>8. CASE RefreshReturns
  BY <1>8 DEF RefreshReturns, Feed, TypeOK, stream, calls, start, children, pipeline
<1>9. CASE RefreshReturnsLost
  BY <1>9 DEF RefreshReturnsLost, StopPipeline, Closed, TypeOK, stream, calls, start,
     children, pipeline
<1>10. CASE InactivityFires
  BY <1>10 DEF InactivityFires, StopPipeline, Closed, TypeOK, stream, calls, start,
     children, pipeline
<1>11. CASE ReleaseApplied
  <2>1. row' = row \/ row' = Released(row, Me)
    BY <1>11 DEF ReleaseApplied
  <2>2. row'.owner = Me => row.owner = Me /\ row' = row
    BY <2>1 DEF Released, LockRow, TypeOK
  <2>3. CASE release' = "done"
    <3>1. row'.owner # Me
      BY <1>11, <2>3 DEF ReleaseApplied, Released, LockRow, TypeOK
    <3>2. UNCHANGED <<stream, lockHeld, starter, life, acquire, refresh, failed>>
      BY <1>11, <2>3 DEF ReleaseApplied
    <3>3. QED
      BY <2>3, <3>1, <3>2, <1>11 DEF ReleaseApplied, TypeOK, stream
  <2>4. CASE release' = "none"
    <3>1. life' = "up" =>
            UNCHANGED <<stream, lockHeld, starter, life, acquire, refresh, failed>>
      BY <1>11, <2>4 DEF ReleaseApplied, ProcessExit, ProcessEnds
    <3>2. QED
      BY <2>2, <2>4, <3>1, <1>11 DEF ReleaseApplied, TypeOK, stream
  <2>5. QED
    BY <1>11, <2>3, <2>4 DEF ReleaseApplied
<1>12. CASE ReleaseReturns
  BY <1>12 DEF ReleaseReturns, StopPipeline, Closed, TypeOK, stream, calls, start,
     children, pipeline
<1>13. CASE CredentialsResolve
  BY <1>13 DEF CredentialsResolve, TypeOK, stream, calls, start, children, pipeline
<1>14. CASE FifoOpens
  BY <1>14 DEF FifoOpens, StartEnds, TypeOK, stream, calls, start, children, pipeline
<1>15. CASE FifoFails
  BY <1>15 DEF FifoFails, StartEnds, TypeOK, stream, calls, start,
     children, pipeline
<1>16. CASE FirstWriteFails
  BY <1>16 DEF FirstWriteFails, ProcessEnds, TypeOK, stream, calls, start,
     children, pipeline
<1>17. CASE SpawnFails
  BY <1>17 DEF SpawnFails, ProcessExit, ProcessEnds, TypeOK, stream, calls, start,
     children, pipeline
<1>18. CASE \E p \in Procs : ExitsUnheard(p)
  BY <1>18 DEF ExitsUnheard, TypeOK, stream, calls, start, children, pipeline
<1>19. CASE \E p \in Procs : ProcExits(p)
  BY <1>19 DEF ProcExits, TypeOK, stream, calls, start, children, pipeline
<1>20. CASE RestartFires
  BY <1>20 DEF RestartFires, StartPipeline, TypeOK, stream, calls, start, children,
     pipeline
<1>21. CASE ShutDown
  BY <1>21 DEF ShutDown, TypeOK, stream, calls, start, children, pipeline
<1>22. CASE ShutDownReleases
  BY <1>22 DEF ShutDownReleases, StopPipeline, Closed, TypeOK, stream, calls, start,
     children, pipeline
<1>23. CASE ServiceExits
  BY <1>23 DEF ServiceExits, ProcessExit, ProcessEnds, TypeOK, stream, calls, start,
     children, pipeline
<1>24. CASE RivalAcquires
  BY <1>24 DEF RivalAcquires, RowStep, Rivals, LockRow, Acquired, TypeOK, stream,
     calls, start, children, pipeline
<1>25. CASE RivalReleases
  BY <1>25 DEF RivalReleases, RowStep, Rivals, LockRow, Released, TypeOK, stream,
     calls, start, children, pipeline
<1>26. CASE LeaseGoesStale
  BY <1>26 DEF LeaseGoesStale, RowStep, LockRow, TypeOK, stream, calls, start,
     children, pipeline
<1>27. CASE CleanupRemoves
  BY <1>27 DEF CleanupRemoves, RowStep, LockRow, Cleaned, TypeOK, stream, calls, start,
     children, pipeline
<1>28. CASE TrafficEnds
  BY <1>28 DEF TrafficEnds, TypeOK, stream, calls, start, children, pipeline
<1>29. CASE UNCHANGED vars
  BY <1>29 DEF vars, TypeOK, stream, calls, start, children, pipeline
<1>30. QED
  BY <1>1, <1>2, <1>3, <1>4, <1>5, <1>6, <1>7, <1>8, <1>9, <1>10, <1>11, <1>12, <1>13,
     <1>14, <1>15, <1>16, <1>17, <1>18, <1>19, <1>20, <1>21, <1>22, <1>23, <1>24,
     <1>25, <1>26, <1>27, <1>28, <1>29 DEF Next

\* No lock is left behind (UnencryptedPort.NoLockLeftBehind): while the service is up
\* the last acquisition did not take effect and throw, the row names it only if it
\* holds the flag or the winning answer is on its way, whatever the order of packets,
\* answers, timers and releases that fail.
THEOREM SpecNoLockLeftBehind == Spec => []NoLockLeftBehind
<1>1. Init => LockInv
  BY UnencryptedAssumption, NoOwnerAssumption
     DEF Init, FreeRow, LockInv, TenureInv, NoLockLeftBehind,
         AcquireIsAlone, RefreshIsAlone, ReleaseIsAlone, BufferIsOurs, AnswersHold,
         ThrownIsUnheld
<1>2. TypeOK /\ LockInv /\ [Next]_vars => TypeOK' /\ LockInv'
  BY TypeStep, LockStep
<1>3. LockInv => NoLockLeftBehind
  BY DEF LockInv
<1>4. QED
  BY <1>1, <1>2, <1>3, InitTypeOK, PTL DEF Spec

==============================================================================
