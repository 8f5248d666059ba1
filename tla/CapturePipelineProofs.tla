------------------------ MODULE CapturePipelineProofs ------------------------
(***************************************************************************)
(* The capture pipeline for every instance: its type, what it loses, what  *)
(* it stores twice, announces, leaves behind a stop or out of an import,   *)
(* and that it implements the contract of SessionCustody.                  *)
(*                                                                         *)
(* PipelineInv is inductive and carries the first two theorems.            *)
(* CustodyInv adds to it where one session may be (OnceInv, CompletedInv), *)
(* who wrote its runs (RunsInv), who announced it (AnnounceInv), the       *)
(* count of the sentinels (SentinelInv) and the progress of an import      *)
(* (ImportInv).  Each part has a lemma that every step keeps it; StepMoves *)
(* classifies the steps by what they do with the sessions, and the         *)
(* refinement maps each class to an action of the contract.                *)
(***************************************************************************)
EXTENDS CapturePipeline, FiniteSetTheorems, TLAPS

(* Appending to a sequence over S gives one (sequences stand for files). *)
LEMMA AppendIsSeq == \A S : \A q \in Seq(S), x \in S : Append(q, x) \in Seq(S)
OBVIOUS

(* Joining two sequences over S gives one. *)
LEMMA ConcatIsSeq == \A S : \A p, q \in Seq(S) : p \o q \in Seq(S)
OBVIOUS

(* The part of a sequence from m to n, element by element. *)
LEMMA SubSeqIsSeq ==
    ASSUME NEW S, NEW q \in Seq(S), NEW m \in Nat \ {0}, NEW n \in Nat, n <= Len(q)
    PROVE  /\ SubSeq(q, m, n) \in Seq(S)
           /\ DOMAIN SubSeq(q, m, n) = 1 .. (IF m <= n THEN n - m + 1 ELSE 0)
           /\ \A i \in 1 .. (n - m + 1) : SubSeq(q, m, n)[i] = q[m + i - 1]
OBVIOUS

(* The empty file is a sequence over any set. *)
LEMMA EmptyIsSeq == \A S : <<>> \in Seq(S)
OBVIOUS

(* The lines of a file over S are in S. *)
LEMMA RangeOfSeq == \A S : \A q \in Seq(S) : Range(q) \subseteq S
BY DEF Range

(* An empty file holds nothing. *)
LEMMA RangeEmpty == Range(<<>>) = {}
BY DEF Range

(* Appending a line adds that session and no other. *)
LEMMA RangeAppend ==
    ASSUME NEW S, NEW q \in Seq(S), NEW x \in S
    PROVE  Range(Append(q, x)) = Range(q) \cup {x}
<1>1. DOMAIN Append(q, x) = DOMAIN q \cup {Len(q) + 1}
  OBVIOUS
<1>2. \A i \in DOMAIN q : Append(q, x)[i] = q[i]
  OBVIOUS
<1>3. Append(q, x)[Len(q) + 1] = x
  OBVIOUS
<1>. QED
  BY <1>1, <1>2, <1>3, Zenon DEF Range

(* Joining two files keeps the sessions of both. *)
LEMMA RangeConcat ==
    ASSUME NEW S, NEW p \in Seq(S), NEW q \in Seq(S)
    PROVE  Range(p \o q) = Range(p) \cup Range(q)
<1>1. \A x \in Range(p \o q) : x \in Range(p) \cup Range(q)
  BY DEF Range
<1>2. \A x \in Range(p) : x \in Range(p \o q)
  <2>. SUFFICES ASSUME NEW i \in DOMAIN p PROVE p[i] \in Range(p \o q)
    BY DEF Range
  <2>. QED
    BY i \in DOMAIN (p \o q), (p \o q)[i] = p[i] DEF Range
<1>3. \A x \in Range(q) : x \in Range(p \o q)
  <2>. SUFFICES ASSUME NEW i \in DOMAIN q PROVE q[i] \in Range(p \o q)
    BY DEF Range
  <2>. QED
    BY Len(p) + i \in DOMAIN (p \o q), (p \o q)[Len(p) + i] = q[i] DEF Range
<1>. QED
  BY <1>1, <1>2, <1>3

(* Taking the head of the queue takes that item and no other. *)
LEMMA RangeTail ==
    ASSUME NEW S, NEW q \in Seq(S), q # <<>>
    PROVE  Range(q) = {Head(q)} \cup Range(Tail(q)) /\ Tail(q) \in Seq(S) /\ Head(q) \in S
<1>1. Tail(q) \in Seq(S) /\ Head(q) \in S /\ Head(q) = q[1] /\ 1 \in DOMAIN q
  OBVIOUS
<1>2. \A i \in DOMAIN Tail(q) : i + 1 \in DOMAIN q /\ Tail(q)[i] = q[i + 1]
  OBVIOUS
<1>3. \A i \in DOMAIN q : i = 1 \/ (i - 1 \in DOMAIN Tail(q) /\ q[i] = Tail(q)[i - 1])
  OBVIOUS
<1>4. ASSUME NEW i \in DOMAIN q PROVE q[i] \in {Head(q)} \cup Range(Tail(q))
  BY <1>1, <1>3 DEF Range
<1>5. ASSUME NEW i \in DOMAIN Tail(q) PROVE Tail(q)[i] \in Range(q)
  BY <1>2 DEF Range
<1>6. Head(q) \in Range(q)
  BY <1>1 DEF Range
<1>. QED
  BY <1>1, <1>4, <1>5, <1>6 DEF Range

(* Every step keeps the types. *)
LEMMA TypeStep ==
    ASSUME TypeOK, HandsInv, CatchUpInv, [Next]_vars
    PROVE  TypeOK'
<1>a. /\ log \in Seq(Sessions) /\ pending \in Seq(Sessions) /\ working \in Seq(Sessions)
      /\ waiting \in Seq(Sessions) /\ lines \in Seq(Sessions) /\ batch \in Seq(Sessions)
      /\ queue \in Seq(Sessions \cup {WorkerStop})
      /\ wsession \in [Workers -> Sessions \cup {NoSession}]
      /\ runs \in [Sessions -> Seq({"worker", "catch-up", "import"})]
      /\ alerted \in [Sessions -> Nat] /\ givenUp \in SUBSET Sessions
      /\ pos \in Nat /\ next \in Nat \ {0} /\ impPos \in Nat /\ impNext \in Nat \ {0}
      /\ faults \in Nat
      /\ wpc \in [Workers -> {"idle", "store", "keep", "alert", "stopped"}]
  BY DEF TypeOK
<1>b. /\ faults \in Nat /\ pos \in Nat /\ impPos \in Nat
      /\ next \in Nat \ {0} /\ impNext \in Nat \ {0}
  BY DEF TypeOK
<1>. USE DEF TypeOK, envVars, workerVars, stopVars, cuVars, impVars
<1>1. ASSUME NEW s \in Sessions, Complete(s) PROVE TypeOK'
  <2>1. faults' \in Nat
    <3>. HIDE DEF TypeOK
    <3>. QED
      BY <1>b, <1>1, PipelineConstants DEF Complete, schedule_auto_classification, Fault
  <2>2. log' \in Seq(Sessions)
    <3>. HIDE DEF TypeOK
    <3>1. Append(log, s) \in Seq(Sessions)
      BY <1>a, AppendIsSeq
    <3>. QED
      BY <1>a, <1>1, <3>1 DEF Complete
  <2>3. queue' \in Seq(Sessions \cup {WorkerStop})
    <3>. HIDE DEF TypeOK
    <3>1. Append(queue, s) \in Seq(Sessions \cup {WorkerStop})
      BY <1>a, AppendIsSeq
    <3>. QED
      BY <1>a, <1>1, <3>1 DEF Complete, schedule_auto_classification
  <2>4. givenUp' \in SUBSET Sessions
    BY <1>1, PipelineConstants DEF Complete, schedule_auto_classification, Fault, HandlerFrame
  <2>. QED
    BY ZenonT(60), <1>1, <2>1, <2>2, <2>3, <2>4 DEF Complete, schedule_auto_classification, Fault, HandlerFrame
<1>2. ASSUME NEW s \in Sessions, InvalidRecord(s) PROVE TypeOK'
  BY <1>2, PipelineConstants DEF InvalidRecord, Fault, HandlerFrame
<1>3. ASSUME NEW w \in Workers, WorkerGet(w) PROVE TypeOK'
  <2>1. queue' \in Seq(Sessions \cup {WorkerStop})
    BY <1>3, PipelineConstants DEF WorkerGet, WorkerFrame, HandsInv
  <2>2. wpc' \in [Workers -> {"idle", "store", "keep", "alert", "stopped"}]
    <3>. HIDE DEF TypeOK
    <3>. QED
      BY <1>a, <1>3, PipelineConstants DEF WorkerGet, WorkerFrame
  <2>3. wsession' \in [Workers -> Sessions \cup {NoSession}]
    <3>. HIDE DEF TypeOK
    <3>1. Head(queue) \in Sessions \cup {WorkerStop}
      BY <1>a, <1>3 DEF WorkerGet
    <3>. QED
      BY <1>a, <1>3, <3>1 DEF WorkerGet
  <2>. QED
    BY <1>3, <2>1, <2>2, <2>3 DEF WorkerGet, WorkerFrame
<1>4. ASSUME NEW w \in Workers, WorkerSave(w) PROVE TypeOK'
  <2>1. wpc' \in [Workers -> {"idle", "store", "keep", "alert", "stopped"}]
    <3>. HIDE DEF TypeOK
    <3>. QED
      BY <1>a, <1>4, PipelineConstants DEF WorkerSave, Storing, WorkerWrites, WorkerFrame
  <2>2. runs' \in [Sessions -> Seq({"worker", "catch-up", "import"})]
    <3>. HIDE DEF TypeOK
    <3>. QED
      BY <1>a, <1>4, AppendIsSeq DEF WorkerSave, WorkerWrites
  <2>. QED
    BY <1>4, <2>1, <2>2 DEF WorkerSave, WorkerFrame
<1>5. ASSUME NEW w \in Workers, WorkerUnavailable(w) PROVE TypeOK'
  BY SMTT(30), <1>5, PipelineConstants DEF WorkerUnavailable, Storing, Fault, Outage, WorkerFrame, HandsInv
<1>6. ASSUME NEW w \in Workers, WorkerCommitLost(w) PROVE TypeOK'
  <2>1. faults' \in Nat
    <3>. HIDE DEF TypeOK
    <3>. QED
      BY <1>b, <1>6, PipelineConstants DEF WorkerCommitLost, Storing, Fault, WorkerWrites
  <2>2. wpc' \in [Workers -> {"idle", "store", "keep", "alert", "stopped"}]
    <3>. HIDE DEF TypeOK
    <3>. QED
      BY <1>a, <1>6, PipelineConstants DEF WorkerCommitLost, Storing, Fault, WorkerWrites, WorkerFrame
  <2>3. runs' \in [Sessions -> Seq({"worker", "catch-up", "import"})]
    <3>. HIDE DEF TypeOK
    <3>. QED
      BY <1>a, <1>6, AppendIsSeq DEF WorkerCommitLost, WorkerWrites
  <2>. QED
    BY <1>6, <2>1, <2>2, <2>3 DEF WorkerCommitLost, Fault, WorkerFrame
<1>7. ASSUME NEW w \in Workers, WorkerGivesUp(w) PROVE TypeOK'
  <2>1. faults' \in Nat
    <3>. HIDE DEF TypeOK
    <3>. QED
      BY <1>b, <1>7, PipelineConstants DEF WorkerGivesUp, Storing, Fault, Done
  <2>2. wpc' \in [Workers -> {"idle", "store", "keep", "alert", "stopped"}]
    <3>. HIDE DEF TypeOK
    <3>. QED
      BY <1>a, <1>7, PipelineConstants DEF WorkerGivesUp, Storing, Fault, Done, WorkerFrame
  <2>3. wsession' \in [Workers -> Sessions \cup {NoSession}]
    <3>. HIDE DEF TypeOK
    <3>. QED
      BY <1>a, <1>7, PipelineConstants DEF WorkerGivesUp, Storing, Fault, Done, WorkerFrame, HandsInv
  <2>4. givenUp' \in SUBSET Sessions
    <3>. HIDE DEF TypeOK
    <3>1. wsession[w] \in Sessions
      BY <1>a, <1>7 DEF WorkerGivesUp, Storing, HandsInv
    <3>. QED
      BY <1>a, <1>7, <3>1 DEF WorkerGivesUp
  <2>. QED
    BY <1>7, <2>1, <2>2, <2>3, <2>4 DEF WorkerGivesUp, Fault, Done, WorkerFrame
<1>8. ASSUME NEW w \in Workers, WorkerKeep(w) PROVE TypeOK'
  <2>1. faults' \in Nat
    <3>. HIDE DEF TypeOK
    <3>. QED
      BY <1>b, <1>8, PipelineConstants DEF WorkerKeep, Fault, Done
  <2>2. pending' \in Seq(Sessions)
    <3>. HIDE DEF TypeOK
    <3>1. wsession[w] \in Sessions
      BY <1>a, <1>8 DEF WorkerKeep, HandsInv
    <3>2. Append(pending, wsession[w]) \in Seq(Sessions)
      BY <1>a, <3>1, AppendIsSeq
    <3>. QED
      BY <1>a, <1>8, <3>2 DEF WorkerKeep
  <2>3. wpc' \in [Workers -> {"idle", "store", "keep", "alert", "stopped"}]
    <3>. HIDE DEF TypeOK
    <3>. QED
      BY <1>a, <1>8, PipelineConstants DEF WorkerKeep, Fault, Done, WorkerFrame
  <2>4. wsession' \in [Workers -> Sessions \cup {NoSession}]
    <3>. HIDE DEF TypeOK
    <3>. QED
      BY <1>a, <1>8, PipelineConstants DEF WorkerKeep, Fault, Done, WorkerFrame, HandsInv
  <2>5. givenUp' \in SUBSET Sessions
    <3>. HIDE DEF TypeOK
    <3>1. wsession[w] \in Sessions
      BY <1>a, <1>8 DEF WorkerKeep, HandsInv
    <3>. QED
      BY <1>a, <1>8, <3>1 DEF WorkerKeep
  <2>. QED
    BY ZenonT(60), <1>8, <2>1, <2>2, <2>3, <2>4, <2>5 DEF WorkerKeep, Fault, Done, WorkerFrame
<1>9. ASSUME NEW w \in Workers, WorkerAlert(w) PROVE TypeOK'
  <2>1. alerted' \in [Sessions -> Nat]
    <3>. HIDE DEF TypeOK
    <3>1. wsession[w] \in Sessions
      BY <1>a, <1>9 DEF WorkerAlert, HandsInv
    <3>. QED
      BY <1>a, <1>9, <3>1 DEF WorkerAlert
  <2>2. wpc' \in [Workers -> {"idle", "store", "keep", "alert", "stopped"}]
    <3>. HIDE DEF TypeOK
    <3>. QED
      BY <1>a, <1>9, PipelineConstants DEF WorkerAlert, Done, WorkerFrame
  <2>3. wsession' \in [Workers -> Sessions \cup {NoSession}]
    <3>. HIDE DEF TypeOK
    <3>. QED
      BY <1>a, <1>9, PipelineConstants DEF WorkerAlert, Done, WorkerFrame, HandsInv
  <2>. QED
    BY ZenonT(60), <1>9, <2>1, <2>2, <2>3 DEF WorkerAlert, Done, WorkerFrame
<1>10. CASE StopIntake
  BY <1>10 DEF StopIntake, StopFrame, HandsInv
<1>11. CASE StopKeep
  <2>1. faults' \in Nat
    <3>. HIDE DEF TypeOK
    <3>. QED
      BY <1>b, <1>11, PipelineConstants DEF StopKeep, Fault
  <2>2. pending' \in Seq(Sessions)
    <3>. HIDE DEF TypeOK
    <3>1. pending \o waiting \in Seq(Sessions)
      BY <1>a, ConcatIsSeq
    <3>. QED
      BY <1>a, <1>11, <3>1 DEF StopKeep
  <2>3. givenUp' \in SUBSET Sessions
    <3>. HIDE DEF TypeOK
    <3>. QED
      BY <1>a, <1>11, RangeOfSeq DEF StopKeep
  <2>. QED
    BY <1>11, <2>1, <2>2, <2>3 DEF StopKeep, Fault, StopFrame
<1>12. CASE StopJoin
  BY <1>12 DEF StopJoin, StopFrame, HandsInv
<1>13. CASE StopSentinel
  BY <1>13 DEF StopSentinel, StopFrame, HandsInv
<1>14. CASE StopGather
  BY <1>14 DEF StopGather, StopFrame, HandsInv
<1>15. CASE CuStart
  BY <1>15 DEF CuStart, CuFrame
<1>16. CASE CuTake
  BY <1>16 DEF CuTake, CuFrame
<1>17. CASE CuBatch
  <2>1. faults' \in Nat
    <3>. HIDE DEF TypeOK
    <3>. QED
      BY <1>b, <1>17, PipelineConstants DEF CuBatch, Fault, Outage
  <2>2. next' \in Nat \ {0}
    <3>. HIDE DEF TypeOK
    <3>. QED
      BY <1>b, <1>17, PipelineConstants DEF CuBatch, Fault, Outage
  <2>3. known' \in SUBSET Sessions
    BY <1>17, PipelineConstants DEF CuBatch, Fault, Outage, CuFrame
  <2>. QED
    BY <1>17, <2>1, <2>2, <2>3 DEF CuBatch, Fault, Outage, CuFrame
<1>18. CASE CuSkip
  <2>1. next' \in Nat \ {0}
    <3>. HIDE DEF TypeOK
    <3>. QED
      BY <1>b, <1>18 DEF CuSkip, CuAtSession
  <2>. QED
    BY ZenonT(60), <1>18, <2>1 DEF CuSkip, CuFrame
<1>19. CASE CuCheck
  <2>1. next' \in Nat \ {0}
    <3>. HIDE DEF TypeOK
    <3>. QED
      BY <1>b, <1>19 DEF CuCheck
  <2>. QED
    BY ZenonT(60), <1>19, <2>1 DEF CuCheck, CuFrame
<1>20. CASE CuInsert
  <2>1. runs' \in [Sessions -> Seq({"worker", "catch-up", "import"})]
    BY <1>20 DEF CuInsert, CuWrites, CuFrame, CatchUpInv
  <2>2. next' \in Nat \ {0}
    <3>. HIDE DEF TypeOK
    <3>. QED
      BY <1>b, <1>20 DEF CuInsert, CuWrites
  <2>3. fresh' \in SUBSET Sessions
    BY <1>20 DEF CuInsert, CuWrites, CuFrame, CatchUpInv
  <2>. QED
    BY <1>20, <2>1, <2>2, <2>3 DEF CuInsert, CuFrame
<1>21. CASE CuUnavailable
  BY <1>21 DEF CuUnavailable, CuTrying, Outage, CuFrame
<1>22. CASE CuCommitLost
  BY SMTT(30), <1>22, PipelineConstants DEF CuCommitLost, CuWrites, Fault, CuFrame, CatchUpInv
<1>23. CASE CuGivesUpSession
  <2>1. faults' \in Nat
    <3>. HIDE DEF TypeOK
    <3>. QED
      BY <1>b, <1>23, PipelineConstants DEF CuGivesUpSession, CuTrying, CuAtSession, Fault, BatchEnd
  <2>2. next' \in Nat \ {0}
    <3>. HIDE DEF TypeOK
    <3>. QED
      BY <1>b, <1>23, PipelineConstants DEF CuGivesUpSession, CuTrying, CuAtSession, Fault, BatchEnd
  <2>3. givenUp' \in SUBSET Sessions
    BY <1>23, PipelineConstants DEF CuGivesUpSession, CuTrying, CuAtSession, Fault, BatchEnd, CuFrame, CatchUpInv
  <2>. QED
    BY <1>23, <2>1, <2>2, <2>3 DEF CuGivesUpSession, Fault, CuFrame
<1>24. CASE CuBatchDone
  BY <1>24, PipelineConstants DEF CuBatchDone, CuFrame
<1>25. CASE CuFinish
  BY SMTT(30), <1>25 DEF CuFinish, CuFrame
<1>26. CASE CuPutBack
  <2>1. faults' \in Nat
    <3>. HIDE DEF TypeOK
    <3>. QED
      BY <1>b, <1>26, PipelineConstants DEF CuPutBack, Fault, PassOver
  <2>2. pending' \in Seq(Sessions)
    <3>. HIDE DEF TypeOK
    <3>1. SubSeq(lines, pos + 1, Len(lines)) \in Seq(Sessions)
      BY <1>a, SubSeqIsSeq
    <3>2. pending \o SubSeq(lines, pos + 1, Len(lines)) \in Seq(Sessions)
      BY <1>a, <3>1, ConcatIsSeq
    <3>. QED
      BY <1>a, <1>26, <3>2 DEF CuPutBack
  <2>3. cuPc' \in {"idle", "take", "batch", "session", "insert", "putback", "unlink", "alert"}
    BY <1>26, PipelineConstants DEF CuPutBack, Fault, PassOver, CuFrame
  <2>4. lines' \in Seq(Sessions)
    <3>. HIDE DEF TypeOK
    <3>. QED
      BY <1>a, <1>26, EmptyIsSeq DEF CuPutBack, PassOver
  <2>5. pos' \in Nat
    BY <1>26, PipelineConstants DEF CuPutBack, Fault, PassOver, CuFrame
  <2>6. next' \in Nat \ {0}
    <3>. HIDE DEF TypeOK
    <3>. QED
      BY <1>b, <1>26, PipelineConstants DEF CuPutBack, Fault, PassOver
  <2>7. known' \in SUBSET Sessions
    BY <1>26, PipelineConstants DEF CuPutBack, Fault, PassOver, CuFrame
  <2>8. fresh' \in SUBSET Sessions
    BY <1>26, PipelineConstants DEF CuPutBack, Fault, PassOver, CuFrame
  <2>. QED
    BY <1>26, <2>1, <2>2, <2>3, <2>4, <2>5, <2>6, <2>7, <2>8 DEF CuPutBack, Fault, PassOver, CuFrame
<1>27. CASE CuUnlink
  BY <1>27 DEF CuUnlink, CuFrame
<1>28. CASE CuAlert
  BY <1>28 DEF CuAlert, PassOver, CuFrame
<1>29. CASE ImpStart
  BY <1>29 DEF ImpStart, ImpFrame
<1>30. CASE ImpBatch
  <2>1. batch' \in Seq(Sessions)
    <3>. HIDE DEF TypeOK
    <3>1. BatchEnd(log, impPos) \in Nat /\ BatchEnd(log, impPos) <= Len(log)
      BY <1>a, PipelineConstants DEF BatchEnd
    <3>2. SubSeq(log, impPos + 1, BatchEnd(log, impPos)) \in Seq(Sessions)
      BY <1>a, <3>1, SubSeqIsSeq
    <3>. QED
      BY <1>30, <3>2 DEF ImpBatch
  <2>2. impPos' \in Nat
    BY <1>30, PipelineConstants DEF ImpBatch, BatchEnd, ImpFrame
  <2>3. impKnown' \in SUBSET Sessions
    BY <1>30, PipelineConstants DEF ImpBatch, BatchEnd, ImpFrame
  <2>4. impNext' \in Nat \ {0}
    <3>. HIDE DEF TypeOK
    <3>. QED
      BY <1>b, <1>30, PipelineConstants DEF ImpBatch, BatchEnd
  <2>. QED
    BY <1>30, <2>1, <2>2, <2>3, <2>4 DEF ImpBatch, ImpFrame
<1>31. CASE ImpSkip
  <2>1. impNext' \in Nat \ {0}
    <3>. HIDE DEF TypeOK
    <3>. QED
      BY <1>b, <1>31 DEF ImpSkip
  <2>. QED
    BY ZenonT(40), <1>31, <2>1 DEF ImpSkip, ImpFrame
<1>32. CASE ImpCheck
  <2>1. impNext' \in Nat \ {0}
    <3>. HIDE DEF TypeOK
    <3>. QED
      BY <1>b, <1>32 DEF ImpCheck
  <2>. QED
    BY <1>32, <2>1 DEF ImpCheck, ImpFrame
<1>33. CASE ImpInsert
  <2>1. runs' \in [Sessions -> Seq({"worker", "catch-up", "import"})]
    BY <1>33 DEF ImpInsert, ImpFrame, HandsInv
  <2>2. impNext' \in Nat \ {0}
    <3>. HIDE DEF TypeOK
    <3>. QED
      BY <1>b, <1>33 DEF ImpInsert
  <2>. QED
    BY <1>33, <2>1, <2>2 DEF ImpInsert, ImpFrame
<1>34. CASE ImpFail
  <2>1. faults' \in Nat
    <3>. HIDE DEF TypeOK
    <3>. QED
      BY <1>b, <1>34, PipelineConstants DEF ImpFail, ImpAtSession, ImpTrying, Fault
  <2>2. impNext' \in Nat \ {0}
    <3>. HIDE DEF TypeOK
    <3>. QED
      BY <1>b, <1>34, PipelineConstants DEF ImpFail, ImpAtSession, ImpTrying, Fault
  <2>3. failed' \in SUBSET Sessions
    BY <1>34, PipelineConstants DEF ImpFail, ImpAtSession, ImpTrying, Fault, ImpFrame, HandsInv
  <2>. QED
    BY <1>34, <2>1, <2>2, <2>3 DEF ImpFail, Fault, ImpFrame
<1>35. CASE ImpBatchDone
  BY <1>35 DEF ImpBatchDone, ImpFrame
<1>36. CASE ImpEof
  BY <1>36 DEF ImpEof, ImpFrame
<1>37. CASE ImpEnd
  BY <1>37, PipelineConstants DEF ImpEnd, Fault, Outage, ImpFrame
<1>38. CASE DbChange
  BY <1>38 DEF DbChange
<1>39. CASE Crash
  <2>1. faults' \in Nat
    <3>. HIDE DEF TypeOK
    <3>. QED
      BY <1>b, <1>39, PipelineConstants DEF Crash, Fault, MemoryGone, PassOver, InMemory
  <2>2. queue' \in Seq(Sessions \cup {WorkerStop})
    <3>. HIDE DEF TypeOK
    <3>. QED
      BY <1>39, EmptyIsSeq DEF Crash, MemoryGone, PassOver
  <2>3. wpc' \in [Workers -> {"idle", "store", "keep", "alert", "stopped"}]
    <3>. HIDE DEF TypeOK
    <3>. QED
      BY <1>a, <1>39, PipelineConstants DEF Crash, Fault, MemoryGone, PassOver, InMemory
  <2>4. wsession' \in [Workers -> Sessions \cup {NoSession}]
    <3>. HIDE DEF TypeOK
    <3>. QED
      BY <1>a, <1>39, PipelineConstants DEF Crash, Fault, MemoryGone, PassOver, InMemory
  <2>5. waiting' \in Seq(Sessions)
    <3>. HIDE DEF TypeOK
    <3>. QED
      BY <1>39, EmptyIsSeq DEF Crash, MemoryGone, PassOver
  <2>6. lines' \in Seq(Sessions)
    <3>. HIDE DEF TypeOK
    <3>. QED
      BY <1>39, EmptyIsSeq DEF Crash, MemoryGone, PassOver
  <2>7. next' \in Nat \ {0}
    <3>. HIDE DEF TypeOK
    <3>. QED
      BY <1>b, <1>39, PipelineConstants DEF Crash, Fault, MemoryGone, PassOver, InMemory
  <2>8. crashed' \in SUBSET Sessions
    BY <1>39, PipelineConstants DEF Crash, Fault, MemoryGone, PassOver, InMemory
  <2>. QED
    BY <1>39, <2>1, <2>2, <2>3, <2>4, <2>5, <2>6, <2>7, <2>8 DEF Crash, Fault, MemoryGone, PassOver, InMemory
<1>40. CASE Exit
  <2>1. queue' \in Seq(Sessions \cup {WorkerStop})
    <3>. HIDE DEF TypeOK
    <3>. QED
      BY <1>40, EmptyIsSeq DEF Exit, MemoryGone, PassOver
  <2>2. wpc' \in [Workers -> {"idle", "store", "keep", "alert", "stopped"}]
    <3>. HIDE DEF TypeOK
    <3>. QED
      BY <1>a, <1>40 DEF Exit, MemoryGone, PassOver
  <2>3. wsession' \in [Workers -> Sessions \cup {NoSession}]
    <3>. HIDE DEF TypeOK
    <3>. QED
      BY <1>a, <1>40 DEF Exit, MemoryGone, PassOver
  <2>4. waiting' \in Seq(Sessions)
    <3>. HIDE DEF TypeOK
    <3>. QED
      BY <1>40, EmptyIsSeq DEF Exit, MemoryGone, PassOver
  <2>5. lines' \in Seq(Sessions)
    <3>. HIDE DEF TypeOK
    <3>. QED
      BY <1>40, EmptyIsSeq DEF Exit, MemoryGone, PassOver
  <2>6. next' \in Nat \ {0}
    <3>. HIDE DEF TypeOK
    <3>. QED
      BY <1>b, <1>40 DEF Exit, MemoryGone, PassOver
  <2>. QED
    BY <1>40, <2>1, <2>2, <2>3, <2>4, <2>5, <2>6 DEF Exit, MemoryGone, PassOver
<1>41. CASE Start
  BY <1>41 DEF Start
<1>42. CASE UNCHANGED vars
  BY <1>42 DEF vars
<1>. QED
  BY <1>1, <1>2, <1>3, <1>4, <1>5, <1>6, <1>7, <1>8, <1>9, <1>10, <1>11, <1>12, <1>13, <1>14, <1>15, <1>16, <1>17, <1>18, <1>19, <1>20, <1>21, <1>22, <1>23, <1>24, <1>25, <1>26, <1>27, <1>28, <1>29, <1>30, <1>31, <1>32, <1>33, <1>34, <1>35, <1>36, <1>37, <1>38, <1>39, <1>40, <1>41, <1>42 DEF Next, WorkerStep, StopStep, CatchUp, Import

(* The steps that move no session between the queue, the workers and the   *)
(* stop.                                                                   *)
handsVars == <<queue, wpc, wsession, stopPc, waiting, impPc, impNext, batch>>

(* Every step keeps who may hold what. *)
LEMMA HandsStep ==
    ASSUME TypeOK, HandsInv, [Next]_vars
    PROVE  HandsInv'
<1>. USE DEF HandsInv
<1>a. /\ waiting \in Seq(Sessions) /\ batch \in Seq(Sessions) /\ log \in Seq(Sessions)
      /\ queue \in Seq(Sessions \cup {WorkerStop})
      /\ wpc \in [Workers -> {"idle", "store", "keep", "alert", "stopped"}]
      /\ wsession \in [Workers -> Sessions \cup {NoSession}]
      /\ stopPc \in {"running", "keep", "join", "sentinels", "stopped"}
      /\ impPc \in {"idle", "batch", "session", "insert", "done"}
      /\ impNext \in Nat \ {0}
      /\ NoSession \notin Sessions /\ WorkerStop \notin Sessions
  BY PipelineConstants DEF TypeOK
<1>1. ASSUME NEW s \in Sessions, Complete(s) PROVE HandsInv'
  <2>1. Append(queue, s) \in Seq(Sessions) \/ queue \notin Seq(Sessions)
    BY AppendIsSeq
  <2>. QED
    BY <1>a, <1>1, <2>1 DEF Complete, schedule_auto_classification, HandlerFrame,
       workerVars, stopVars, impVars
<1>2. ASSUME NEW w \in Workers, WorkerGet(w) PROVE HandsInv'
  <2>1. \A S : queue \in Seq(S) => Tail(queue) \in Seq(S) /\ Head(queue) \in S
    BY <1>2, RangeTail DEF WorkerGet
  <2>2. Head(queue) = WorkerStop \/ Head(queue) \in Sessions
    BY <1>a, <2>1
  <2>3. UNCHANGED <<stopPc, waiting, impPc, impNext, batch>>
    BY <1>2 DEF WorkerGet, WorkerFrame, stopVars, impVars
  <2>4. CASE Head(queue) = WorkerStop
    <3>1. stopPc \in {"sentinels", "stopped"} /\ queue' \in Seq({WorkerStop})
      BY <1>a, <1>2, <2>1, <2>4 DEF WorkerGet
    <3>2. /\ wpc' = [wpc EXCEPT ![w] = "stopped"] /\ wsession' = wsession
          /\ wpc[w] = "idle" /\ stopPc # "stopped"
      BY <1>2, <2>4 DEF WorkerGet
    <3>. QED
      BY <1>a, <2>3, <3>1, <3>2
  <2>5. CASE Head(queue) \in Sessions
    <3>1. stopPc \notin {"sentinels", "stopped"} /\ queue' \in Seq(Sessions)
      BY <1>a, <1>2, <2>1, <2>5 DEF WorkerGet
    <3>2. /\ wpc' = [wpc EXCEPT ![w] = "store"]
          /\ wsession' = [wsession EXCEPT ![w] = Head(queue)]
      BY <1>a, <1>2, <2>5 DEF WorkerGet
    <3>. QED
      BY <1>a, <2>3, <2>5, <3>1, <3>2
  <2>. QED
    BY <2>2, <2>4, <2>5
<1>3. ASSUME NEW w \in Workers,
             WorkerSave(w) \/ WorkerUnavailable(w) \/ WorkerCommitLost(w)
      PROVE  HandsInv'
  <2>1. /\ \/ wpc' = [wpc EXCEPT ![w] = "alert"] \/ wpc' = [wpc EXCEPT ![w] = "keep"]
        /\ wpc[w] = "store"
        /\ UNCHANGED <<queue, wsession, stopPc, waiting, impPc, impNext, batch>>
    BY <1>3 DEF WorkerSave, WorkerUnavailable, WorkerCommitLost, Storing, WorkerFrame,
       stopVars, impVars
  <2>. QED
    BY <1>a, <2>1
<1>4. ASSUME NEW w \in Workers, WorkerGivesUp(w) \/ WorkerKeep(w) \/ WorkerAlert(w)
      PROVE  HandsInv'
  <2>1. /\ wpc' = [wpc EXCEPT ![w] = "idle"]
        /\ wsession' = [wsession EXCEPT ![w] = NoSession]
        /\ wpc[w] \in {"store", "keep", "alert"}
        /\ UNCHANGED <<queue, stopPc, waiting, impPc, impNext, batch>>
    BY <1>4 DEF WorkerGivesUp, WorkerKeep, WorkerAlert, Storing, Done, WorkerFrame,
       stopVars, impVars
  <2>. QED
    BY <1>a, <2>1
<1>5. CASE StopIntake
  BY <1>a, <1>5, EmptyIsSeq DEF StopIntake, StopFrame, workerVars, impVars
<1>6. CASE StopKeep
  BY <1>a, <1>6 DEF StopKeep, StopFrame, workerVars, impVars
<1>7. CASE StopJoin
  BY <1>a, <1>7, EmptyIsSeq DEF StopJoin, StopFrame, workerVars, impVars
<1>8. CASE StopSentinel
  BY <1>a, <1>8, AppendIsSeq DEF StopSentinel, StopFrame, workerVars, impVars
<1>9. CASE StopGather
  BY <1>a, <1>9 DEF StopGather, StopFrame, workerVars, impVars
<1>10. CASE Import
  <2>1. UNCHANGED <<queue, wpc, wsession, stopPc, waiting>>
    BY <1>10 DEF Import, ImpStart, ImpBatch, ImpSkip, ImpCheck, ImpInsert, ImpFail,
       ImpBatchDone, ImpEof, ImpEnd, ImpFrame, workerVars, stopVars
  <2>2. impPc' = "insert" => impNext' \in DOMAIN batch'
    BY <1>a, <1>10 DEF Import, ImpStart, ImpBatch, ImpSkip, ImpCheck, ImpInsert, ImpFail,
       ImpBatchDone, ImpEof, ImpEnd, ImpAtSession, ImpTrying
  <2>. QED
    BY <2>1, <2>2
<1>11. CASE Crash \/ Exit
  BY <1>a, <1>11, EmptyIsSeq DEF Crash, Exit, MemoryGone, impVars
<1>12. CASE UNCHANGED handsVars
  BY <1>12 DEF handsVars
<1>13. ASSUME NEW s \in Sessions, InvalidRecord(s) PROVE UNCHANGED handsVars
  BY <1>13 DEF InvalidRecord, HandlerFrame, handsVars, workerVars, stopVars, impVars
<1>14. CatchUp => UNCHANGED handsVars
  BY DEF CatchUp, CuStart, CuTake, CuBatch, CuSkip, CuCheck, CuInsert, CuUnavailable,
     CuCommitLost, CuGivesUpSession, CuBatchDone, CuFinish, CuPutBack, CuUnlink, CuAlert,
     CuFrame, handsVars, workerVars, stopVars, impVars
<1>15. DbChange \/ Start \/ UNCHANGED vars => UNCHANGED handsVars
  BY DEF DbChange, Start, vars, handsVars, workerVars, stopVars, impVars
<1>. QED
  BY <1>1, <1>2, <1>3, <1>4, <1>5, <1>6, <1>7, <1>8, <1>9, <1>10, <1>11, <1>12, <1>13,
     <1>14, <1>15 DEF Next, WorkerStep, StopStep

(* A run, once written, is never removed, and a session that was given up  *)
(* stays given up.                                                         *)
LEMMA RunsGrow ==
    ASSUME TypeOK, HandsInv, CatchUpInv, [Next]_vars
    PROVE  /\ \A s \in Sessions : Stored(s) => Stored(s)'
           /\ givenUp \subseteq givenUp'
<1>a. /\ runs \in [Sessions -> Seq({"worker", "catch-up", "import"})]
      /\ lines \in Seq(Sessions) /\ batch \in Seq(Sessions)
  BY DEF TypeOK
<1>1. ASSUME NEW s, NEW who, runs' = [runs EXCEPT ![s] = Append(@, who)]
      PROVE  \A t \in Sessions : Stored(t) => Stored(t)'
  <2>. SUFFICES ASSUME NEW t \in Sessions, Stored(t) PROVE runs'[t] # <<>>
    BY DEF Stored
  <2>1. CASE t = s
    <3>1. runs[t] \in Seq({"worker", "catch-up", "import"})
      BY <1>a
    <3>2. Append(runs[t], who) # <<>>
      BY <3>1
    <3>. QED
      BY <1>a, <1>1, <2>1, <3>2
  <2>2. CASE t # s
    BY <1>a, <1>1, <2>2 DEF Stored
  <2>. QED
    BY <2>1, <2>2
<1>2. \/ runs' = runs
      \/ \E s, who : runs' = [runs EXCEPT ![s] = Append(@, who)]
  <2>1. ASSUME NEW s \in Sessions, Complete(s) \/ InvalidRecord(s) PROVE runs' = runs
    BY <2>1 DEF Complete, InvalidRecord, HandlerFrame
  <2>2. ASSUME NEW w \in Workers, WorkerSave(w) \/ WorkerCommitLost(w)
        PROVE  runs' = [runs EXCEPT ![wsession[w]] = Append(@, "worker")]
    BY <2>2 DEF WorkerSave, WorkerCommitLost, WorkerWrites
  <2>3. ASSUME NEW w \in Workers,
               \/ WorkerGet(w) \/ WorkerUnavailable(w) \/ WorkerGivesUp(w)
               \/ WorkerKeep(w) \/ WorkerAlert(w)
        PROVE  runs' = runs
    BY <2>3 DEF WorkerGet, WorkerUnavailable, WorkerGivesUp, WorkerKeep, WorkerAlert
  <2>4. StopIntake \/ StopStep => runs' = runs
    BY DEF StopIntake, StopStep, StopKeep, StopJoin, StopSentinel, StopGather, StopFrame
  <2>5. CuInsert \/ CuCommitLost =>
            runs' = [runs EXCEPT ![lines[next]] = Append(@, "catch-up")]
    BY DEF CuInsert, CuCommitLost, CuWrites
  <2>6. CatchUp => CuInsert \/ CuCommitLost \/ runs' = runs
    BY DEF CatchUp, CuStart, CuTake, CuBatch, CuSkip, CuCheck, CuUnavailable,
       CuGivesUpSession, CuBatchDone, CuFinish, CuPutBack, CuUnlink, CuAlert
  <2>7. Import => \/ runs' = [runs EXCEPT ![batch[impNext]] = Append(@, "import")]
                  \/ runs' = runs
    BY DEF Import, ImpStart, ImpBatch, ImpSkip, ImpCheck, ImpInsert, ImpFail,
       ImpBatchDone, ImpEof, ImpEnd
  <2>8. DbChange \/ Crash \/ Exit \/ Start \/ UNCHANGED vars => runs' = runs
    BY DEF DbChange, Crash, Exit, Start, MemoryGone, vars
  <2>. QED
    BY <2>1, <2>2, <2>3, <2>4, <2>5, <2>6, <2>7, <2>8 DEF Next, WorkerStep
<1>3. \A s \in Sessions : Stored(s) => Stored(s)'
  BY <1>1, <1>2 DEF Stored
<1>4. givenUp \subseteq givenUp'
  <2>1. ASSUME NEW s \in Sessions, Complete(s) \/ InvalidRecord(s)
        PROVE  givenUp \subseteq givenUp'
    BY <2>1 DEF Complete, InvalidRecord, schedule_auto_classification
  <2>2. ASSUME NEW w \in Workers, WorkerStep(w) PROVE givenUp \subseteq givenUp'
    BY <2>2 DEF WorkerStep, WorkerGet, WorkerSave, WorkerUnavailable, WorkerCommitLost,
       WorkerGivesUp, WorkerKeep, WorkerAlert
  <2>3. StopIntake \/ StopStep => givenUp \subseteq givenUp'
    BY DEF StopIntake, StopStep, StopKeep, StopJoin, StopSentinel, StopGather
  <2>4. CatchUp => givenUp \subseteq givenUp'
    BY DEF CatchUp, CuStart, CuTake, CuBatch, CuSkip, CuCheck, CuInsert, CuUnavailable,
       CuCommitLost, CuGivesUpSession, CuBatchDone, CuFinish, CuPutBack, CuUnlink, CuAlert
  <2>5. Import => givenUp \subseteq givenUp'
    BY DEF Import, ImpStart, ImpBatch, ImpSkip, ImpCheck, ImpInsert, ImpFail,
       ImpBatchDone, ImpEof, ImpEnd, ImpFrame
  <2>6. DbChange \/ Crash \/ Exit \/ Start \/ UNCHANGED vars => givenUp \subseteq givenUp'
    BY DEF DbChange, Crash, Exit, Start, MemoryGone, vars
  <2>. QED
    BY <2>1, <2>2, <2>3, <2>4, <2>5, <2>6 DEF Next
<1>. QED
  BY <1>3, <1>4
(* What a catch-up pass works on. *)
passVars == <<cuPc, lines, pos, next, known, working>>

(* Every step keeps what a catch-up pass has dealt with: runs and given-up   *)
(* sessions only grow, and other processes only append to the pending file.  *)
LEMMA CatchUpStep ==
    ASSUME TypeOK, HandsInv, CatchUpInv, [Next]_vars
    PROVE  CatchUpInv'
<1>a. /\ lines \in Seq(Sessions) /\ pending \in Seq(Sessions) /\ working \in Seq(Sessions)
      /\ waiting \in Seq(Sessions)
      /\ wsession \in [Workers -> Sessions \cup {NoSession}]
      /\ wpc \in [Workers -> {"idle", "store", "keep", "alert", "stopped"}]
      /\ pos \in Nat /\ next \in Nat \ {0} /\ known \in SUBSET Sessions
      /\ BatchSize \in Nat \ {0}
  BY PipelineConstants DEF TypeOK
<1>b. /\ \A s \in Sessions : Stored(s) => Stored(s)'
      /\ givenUp \subseteq givenUp'
  BY RunsGrow
<1>c. \A i \in DOMAIN lines : lines[i] \in Sessions
  BY <1>a
<1>e. \A s \in known : Stored(s)'
  BY <1>a, <1>b DEF CatchUpInv
(* Steps of the other processes. *)
<1>1. CASE /\ UNCHANGED passVars
           /\ Range(pending) \subseteq Range(pending')
  BY <1>1, <1>b, <1>c, <1>e DEF CatchUpInv, Settled, Stored, passVars
<1>2. ASSUME NEW w \in Workers, WorkerStep(w)
      PROVE  UNCHANGED passVars /\ Range(pending) \subseteq Range(pending')
  <2>1. UNCHANGED passVars
    BY <1>2 DEF WorkerStep, WorkerGet, WorkerSave, WorkerUnavailable, WorkerCommitLost,
       WorkerGivesUp, WorkerKeep, WorkerAlert, WorkerFrame, passVars, cuVars
  <2>2. pending' = pending \/ (wpc[w] = "keep" /\ pending' = Append(pending, wsession[w]))
    BY <1>2 DEF WorkerStep, WorkerGet, WorkerSave, WorkerUnavailable, WorkerCommitLost,
       WorkerGivesUp, WorkerKeep, WorkerAlert
  <2>3. wpc[w] = "keep" => wsession[w] \in Sessions
    BY <1>a DEF HandsInv
  <2>4. wpc[w] = "keep" => Range(Append(pending, wsession[w])) = Range(pending) \cup {wsession[w]}
    BY <1>a, <2>3, RangeAppend
  <2>. QED
    BY <2>1, <2>2, <2>4
<1>3. StopIntake \/ StopStep =>
          UNCHANGED passVars /\ Range(pending) \subseteq Range(pending')
  <2>1. StopIntake \/ StopStep => UNCHANGED passVars
    BY DEF StopIntake, StopStep, StopKeep, StopJoin, StopSentinel, StopGather, StopFrame,
       passVars, cuVars
  <2>2. StopIntake \/ StopStep => pending' = pending \/ pending' = pending \o waiting
    BY DEF StopIntake, StopStep, StopKeep, StopJoin, StopSentinel, StopGather
  <2>3. Range(pending \o waiting) = Range(pending) \cup Range(waiting)
    BY <1>a, RangeConcat
  <2>. QED
    BY <2>1, <2>2, <2>3
<1>4. ASSUME NEW s \in Sessions, Complete(s) \/ InvalidRecord(s)
      PROVE  UNCHANGED passVars /\ UNCHANGED pending
  BY <1>4 DEF Complete, InvalidRecord, HandlerFrame, passVars, cuVars
<1>5. Import \/ DbChange \/ Start \/ UNCHANGED vars => UNCHANGED passVars /\ UNCHANGED pending
  BY DEF Import, ImpStart, ImpBatch, ImpSkip, ImpCheck, ImpInsert, ImpFail, ImpBatchDone,
     ImpEof, ImpEnd, ImpFrame, DbChange, Start, vars, passVars, cuVars
<1>6. CASE Crash \/ Exit
  BY <1>6 DEF Crash, Exit, MemoryGone, PassOver, CatchUpInv
(* The pass itself. *)
<1>7. CASE CuStart
  BY <1>7, <1>e DEF CuStart, CatchUpInv, Stored
<1>8. CASE CuTake
  BY <1>8, <1>a, <1>e DEF CuTake, CatchUpInv, Stored
<1>9. CASE CuBatch
  <2>1. UNCHANGED <<lines, working, pos, runs, givenUp>>
    BY <1>9 DEF CuBatch
  <2>2. cuPc = "batch" /\ cuPc' \in {"session", "putback"}
    BY <1>9 DEF CuBatch
  <2>3. cuPc' = "session" => next' = pos + 1
    BY <1>9 DEF CuBatch
  <2>4. \A s \in known' : Stored(s)'
    BY <1>9, <1>e, <2>1 DEF CuBatch, Stored
  <2>. QED
    BY <1>a, <2>1, <2>2, <2>3, <2>4 DEF CatchUpInv, Settled, Stored
<1>10. CASE CuSkip
  <2>1. UNCHANGED <<lines, working, pos, runs, givenUp, cuPc, known>>
        /\ cuPc = "session" /\ next' = next + 1 /\ lines[next] \in known
    BY <1>10 DEF CuSkip, CuAtSession
  <2>2. Settled(lines[next])
    BY <2>1 DEF CatchUpInv, Settled
  <2>. QED
    BY <1>a, <1>e, <2>1, <2>2 DEF CatchUpInv, Settled, Stored
<1>11. CASE CuCheck
  <2>1. UNCHANGED <<lines, working, pos, runs, givenUp, known>>
        /\ cuPc = "session"
        /\ \/ cuPc' = cuPc /\ next' = next + 1 /\ Stored(lines[next])
           \/ cuPc' = "insert" /\ next' = next
    BY <1>11 DEF CuCheck, CuAtSession
  <2>2. next \in DOMAIN lines
    BY <1>11, <1>a DEF CuCheck, CuAtSession, BatchEnd
  <2>. QED
    BY <1>a, <1>e, <2>1, <2>2 DEF CatchUpInv, Settled, Stored
<1>12. CASE CuInsert
  <2>1. UNCHANGED <<lines, working, pos, givenUp, known>>
        /\ cuPc = "insert" /\ cuPc' = "session" /\ next' = next + 1
    BY <1>12 DEF CuInsert
  <2>2. next \in DOMAIN lines
    BY <2>1 DEF CatchUpInv
  <2>3. runs'[lines[next]] # <<>>
    <3>1. lines[next] \in Sessions
      BY <1>c, <2>2
    <3>2. /\ runs \in [Sessions -> Seq({"worker", "catch-up", "import"})]
          /\ runs[lines[next]] \in Seq({"worker", "catch-up", "import"})
      BY <3>1 DEF TypeOK
    <3>3. runs' = [runs EXCEPT ![lines[next]] = Append(@, "catch-up")]
      BY <1>12 DEF CuInsert, CuWrites
    <3>4. runs'[lines[next]] = Append(runs[lines[next]], "catch-up")
      BY <3>1, <3>2, <3>3
    <3>. QED
      BY <3>2, <3>4
  <2>4. \A i \in DOMAIN lines :
            Settled(lines[i]) => runs'[lines[i]] # <<>> \/ lines[i] \in givenUp'
    BY <1>b, <1>c DEF Settled, Stored
  <2>. QED
    BY <1>a, <1>e, <2>1, <2>3, <2>4 DEF CatchUpInv, Settled, Stored
<1>13. CASE CuUnavailable \/ CuCommitLost
  <2>1. /\ UNCHANGED <<lines, working, pos, givenUp, known>>
        /\ cuPc \in {"session", "insert"} /\ cuPc' = "putback"
    BY <1>13 DEF CuUnavailable, CuCommitLost, CuTrying, CuAtSession
  <2>. QED
    BY <1>b, <1>c, <1>e, <2>1 DEF CatchUpInv, Settled, Stored
<1>14. CASE CuGivesUpSession
  <2>1. /\ UNCHANGED <<lines, working, pos, runs, known>>
        /\ cuPc \in {"session", "insert"} /\ cuPc' = "session" /\ next' = next + 1
        /\ givenUp' = givenUp \cup {lines[next]}
    BY <1>14 DEF CuGivesUpSession, CuTrying, CuAtSession
  <2>. QED
    BY <1>a, <1>b, <1>c, <1>e, <2>1 DEF CatchUpInv, Settled, Stored
<1>15. CASE CuBatchDone
  <2>1. /\ UNCHANGED <<lines, working, runs, givenUp, known>>
        /\ cuPc = "session" /\ cuPc' = "batch" /\ pos' = pos + BatchSize
        /\ next > BatchEnd(lines, pos)
    BY <1>15 DEF CuBatchDone
  <2>2. \A i \in DOMAIN lines : i <= pos + BatchSize => i < next
    BY <1>a, <2>1 DEF BatchEnd
  <2>. QED
    BY <1>a, <1>e, <2>1, <2>2 DEF CatchUpInv, Settled, Stored
<1>16. CASE CuFinish \/ CuUnlink \/ CuAlert
  <2>1. cuPc' \in {"alert", "idle"} /\ (known' = known \/ known' = {})
    BY <1>16 DEF CuFinish, CuUnlink, CuAlert, PassOver
  <2>. QED
    BY <1>e, <2>1 DEF CatchUpInv, Stored
<1>17. CASE CuPutBack
  <2>1. CASE PassOver
    BY <2>1 DEF PassOver, CatchUpInv
  <2>2. CASE /\ pending' = pending \o SubSeq(lines, pos + 1, Len(lines))
             /\ cuPc' = "unlink"
             /\ UNCHANGED <<lines, pos, next, known>>
    <3> DEFINE rest == SubSeq(lines, pos + 1, Len(lines))
    <3>1. cuPc = "putback" /\ UNCHANGED <<working, runs, givenUp>>
      BY <1>17 DEF CuPutBack
    <3>2. /\ rest \in Seq(Sessions)
          /\ \A i \in DOMAIN lines :
                i > pos => i - pos \in DOMAIN rest /\ rest[i - pos] = lines[i]
      BY <1>a, SubSeqIsSeq
    <3>5. pending' = pending \o rest
      BY <2>2
    <3>. HIDE DEF rest
    <3>3. Range(pending') = Range(pending) \cup Range(rest)
      BY <1>a, <3>2, <3>5, RangeConcat
    <3>4. \A i \in DOMAIN lines : i > pos => lines[i] \in Range(rest)
      BY <3>2 DEF Range
    <3>. QED
      BY <1>e, <2>2, <3>1, <3>3, <3>4 DEF CatchUpInv, Settled, Stored
  <2>. QED
    BY <1>17, <2>1, <2>2 DEF CuPutBack
<1>. QED
  BY <1>1, <1>2, <1>3, <1>4, <1>5, <1>6, <1>7, <1>8, <1>9, <1>10, <1>11, <1>12, <1>13,
     <1>14, <1>15, <1>16, <1>17 DEF Next, CatchUp
(* Every step keeps that a worker at the alert has written its session. *)
LEMMA AlertStep ==
    ASSUME TypeOK, HandsInv, CatchUpInv, AlertInv, [Next]_vars
    PROVE  AlertInv'
<1>a. /\ runs \in [Sessions -> Seq({"worker", "catch-up", "import"})]
      /\ wsession \in [Workers -> Sessions \cup {NoSession}]
      /\ wpc \in [Workers -> {"idle", "store", "keep", "alert", "stopped"}]
  BY DEF TypeOK
<1>b. \A s \in Sessions : runs[s] # <<>> => runs'[s] # <<>>
  BY RunsGrow DEF Stored
<1>c. \A w \in Workers : wpc[w] \in {"store", "alert"} => wsession[w] \in Sessions
  BY <1>a DEF HandsInv
<1>1. CASE UNCHANGED <<wpc, wsession>>
  BY <1>1, <1>b, <1>c DEF AlertInv, Stored
<1>2. ASSUME NEW w \in Workers, WorkerSave(w) PROVE AlertInv'
  <2>1. /\ wpc' = [wpc EXCEPT ![w] = "alert"] /\ wsession' = wsession
        /\ runs' = [runs EXCEPT ![wsession[w]] = Append(@, "worker")]
        /\ wsession[w] \in Sessions
    BY <1>2, <1>c DEF WorkerSave, WorkerWrites, Storing
  <2>2. runs[wsession[w]] \in Seq({"worker", "catch-up", "import"})
    BY <1>a, <2>1
  <2>3. runs'[wsession[w]] = Append(runs[wsession[w]], "worker")
    BY <1>a, <2>1
  <2>4. runs'[wsession[w]] # <<>>
    BY <2>2, <2>3
  <2>. QED
    BY <1>a, <1>b, <1>c, <2>1, <2>4 DEF AlertInv, Stored
<1>3. ASSUME NEW w \in Workers,
             \/ WorkerGet(w) \/ WorkerUnavailable(w) \/ WorkerCommitLost(w)
             \/ WorkerGivesUp(w) \/ WorkerKeep(w) \/ WorkerAlert(w)
      PROVE  AlertInv'
  <2>1. \A v \in Workers : wpc'[v] = "alert" => wpc[v] = "alert" /\ wsession'[v] = wsession[v]
    BY <1>a, <1>3 DEF WorkerGet, WorkerUnavailable, WorkerCommitLost, WorkerGivesUp,
       WorkerKeep, WorkerAlert, Done
  <2>. QED
    BY <1>b, <1>c, <2>1 DEF AlertInv, Stored
<1>4. CASE Crash \/ Exit
  BY <1>4 DEF Crash, Exit, MemoryGone, AlertInv
<1>5. ASSUME NEW s \in Sessions, Complete(s) \/ InvalidRecord(s)
      PROVE  UNCHANGED <<wpc, wsession>>
  BY <1>5 DEF Complete, InvalidRecord, HandlerFrame, workerVars
<1>6. StopIntake \/ StopStep => UNCHANGED <<wpc, wsession>>
  BY DEF StopIntake, StopStep, StopKeep, StopJoin, StopSentinel, StopGather, StopFrame,
     workerVars
<1>7. CatchUp => UNCHANGED <<wpc, wsession>>
  BY DEF CatchUp, CuStart, CuTake, CuBatch, CuSkip, CuCheck, CuInsert, CuUnavailable,
     CuCommitLost, CuGivesUpSession, CuBatchDone, CuFinish, CuPutBack, CuUnlink, CuAlert,
     CuFrame, workerVars
<1>8. Import \/ DbChange \/ Start \/ UNCHANGED vars => UNCHANGED <<wpc, wsession>>
  BY DEF Import, ImpStart, ImpBatch, ImpSkip, ImpCheck, ImpInsert, ImpFail, ImpBatchDone,
     ImpEof, ImpEnd, ImpFrame, DbChange, Start, vars, workerVars
<1>. QED
  BY <1>1, <1>2, <1>3, <1>4, <1>5, <1>6, <1>7, <1>8 DEF Next, WorkerStep

(* Giving one worker another session takes only the old one away.          *)
LEMMA RangeExcept ==
    ASSUME NEW A, NEW f, DOMAIN f = A, NEW a \in A, NEW x
    PROVE  /\ x \in Range([f EXCEPT ![a] = x])
           /\ \A y \in Range(f) : y = f[a] \/ y \in Range([f EXCEPT ![a] = x])
BY DEF Range

(* A finished session is accounted for.                                    *)
Accounted(s) == Stored(s) \/ s \in InMemory \cup OnDisk \cup givenUp \cup crashed

(* The places a session may be in that a step need not touch.              *)
placeVars == <<completed, queue, waiting, wsession, pending, working, crashed>>

(* Every step keeps every finished session accounted for. *)
LEMMA SessionsKeptStep ==
    ASSUME TypeOK, HandsInv, CatchUpInv, AlertInv, SessionsKept, [Next]_vars
    PROVE  SessionsKept'
<1>a. /\ lines \in Seq(Sessions) /\ pending \in Seq(Sessions) /\ working \in Seq(Sessions)
      /\ waiting \in Seq(Sessions)
      /\ queue \in Seq(Sessions \cup {WorkerStop})
      /\ wsession \in [Workers -> Sessions \cup {NoSession}]
      /\ wpc \in [Workers -> {"idle", "store", "keep", "alert", "stopped"}]
      /\ completed \subseteq Sessions
      /\ NoSession \notin Sessions /\ WorkerStop \notin Sessions
      /\ pos \in Nat
  BY PipelineConstants DEF TypeOK
<1>b. \A s \in completed :
        (Stored(s) => Stored(s)') /\ (s \in givenUp => s \in givenUp')
  BY <1>a, RunsGrow
<1>c. \A s \in completed : Accounted(s)
  BY DEF SessionsKept, Accounted
<1>1. SUFFICES /\ \A s \in completed : Accounted(s)'
               /\ \A s \in completed' : s \in completed \/ Accounted(s)'
  BY DEF SessionsKept, Accounted
<1>2. CASE UNCHANGED placeVars
  BY <1>2, <1>b, <1>c DEF Accounted, InMemory, OnDisk, placeVars
<1>3. ASSUME NEW s \in Sessions, Complete(s)
      PROVE  /\ \A t \in completed : Accounted(t)'
             /\ \A t \in completed' : t \in completed \/ Accounted(t)'
  <2>1. /\ completed' = completed \cup {s}
        /\ \/ queue' = Append(queue, s)
           \/ queue' = queue /\ givenUp' = givenUp \cup {s}
        /\ UNCHANGED <<waiting, wsession, pending, working, crashed>>
    BY <1>3 DEF Complete, schedule_auto_classification, HandlerFrame, stopVars, workerVars
  <2>2. Range(Append(queue, s)) = Range(queue) \cup {s}
    <3>1. queue \in Seq(Sessions \cup {WorkerStop}) /\ s \in Sessions \cup {WorkerStop}
      BY <1>a
    <3>. QED
      BY <3>1, RangeAppend
  <2>. QED
    BY <1>b, <1>c, <2>1, <2>2 DEF Accounted, InMemory, OnDisk
<1>4. ASSUME NEW s \in Sessions, InvalidRecord(s)
      PROVE  /\ \A t \in completed : Accounted(t)'
             /\ \A t \in completed' : t \in completed \/ Accounted(t)'
  <2>1. /\ completed' = completed \cup {s} /\ givenUp' = givenUp \cup {s}
        /\ UNCHANGED <<queue, waiting, wsession, pending, working, crashed>>
    BY <1>4 DEF InvalidRecord, HandlerFrame, stopVars, workerVars
  <2>. QED
    BY <1>b, <1>c, <2>1 DEF Accounted, InMemory, OnDisk
<1>5. ASSUME NEW w \in Workers, WorkerGet(w)
      PROVE  completed' = completed /\ \A t \in completed : Accounted(t)'
  <2>1. UNCHANGED <<completed, waiting, pending, working, crashed, givenUp, runs>>
        /\ queue' = Tail(queue) /\ queue # <<>> /\ wpc[w] = "idle"
    BY <1>5 DEF WorkerGet, WorkerFrame, envVars, stopVars
  <2>2. \/ Head(queue) = WorkerStop /\ wsession' = wsession
        \/ wsession' = [wsession EXCEPT ![w] = Head(queue)]
    BY <1>5 DEF WorkerGet
  <2>3. Range(queue) = {Head(queue)} \cup Range(Tail(queue))
    BY <1>a, <2>1, RangeTail
  <2>4. wsession[w] = NoSession
    BY <2>1 DEF HandsInv
  <2>5. /\ Head(queue) \in Range([wsession EXCEPT ![w] = Head(queue)])
        /\ \A y \in Range(wsession) :
              y = NoSession \/ y \in Range([wsession EXCEPT ![w] = Head(queue)])
    BY <1>a, <2>4, RangeExcept
  <2>6. \A y \in InMemory : y \in InMemory'
    BY <1>a, <2>1, <2>2, <2>3, <2>5 DEF InMemory
  <2>. QED
    BY <1>c, <2>1, <2>6 DEF Accounted, OnDisk, Stored
<1>6. ASSUME NEW w \in Workers, WorkerGivesUp(w) \/ WorkerKeep(w) \/ WorkerAlert(w)
      PROVE  completed' = completed /\ \A t \in completed : Accounted(t)'
  <2>1. /\ UNCHANGED <<completed, waiting, queue, working, crashed, runs>>
        /\ wsession' = [wsession EXCEPT ![w] = NoSession]
    BY <1>6 DEF WorkerGivesUp, WorkerKeep, WorkerAlert, Done, WorkerFrame, envVars, stopVars
  <2>2. wsession[w] \in Sessions
    BY <1>a, <1>6 DEF WorkerGivesUp, WorkerKeep, WorkerAlert, Storing, HandsInv
  <2>3. \A y \in Range(wsession) : y = wsession[w] \/ y \in Range(wsession')
    BY <1>a, <2>1, RangeExcept
  <2>4. Range(Append(pending, wsession[w])) = Range(pending) \cup {wsession[w]}
    BY <1>a, <2>2, RangeAppend
  <2>5. Range(pending) \subseteq Range(pending')
    BY <1>6, <2>4 DEF WorkerGivesUp, WorkerKeep, WorkerAlert
  <2>6. \/ wsession[w] \in Range(pending')
        \/ wsession[w] \in givenUp'
        \/ runs'[wsession[w]] # <<>>
    BY <1>6, <2>4 DEF WorkerGivesUp, WorkerKeep, WorkerAlert, AlertInv, Stored
  <2>7. \A y \in InMemory : y = wsession[w] \/ y \in InMemory'
    BY <2>1, <2>3 DEF InMemory
  <2>. QED
    BY <1>b, <1>c, <2>1, <2>5, <2>6, <2>7 DEF Accounted, OnDisk, Stored
<1>7. CASE StopIntake
  <2>1. /\ UNCHANGED <<completed, wsession, pending, working, crashed, givenUp, runs>>
        /\ waiting' = queue /\ waiting = <<>>
    BY <1>7 DEF StopIntake, StopFrame, HandsInv, envVars, workerVars
  <2>. QED
    BY <1>c, <2>1, RangeEmpty DEF Accounted, InMemory, OnDisk, Stored
<1>8. CASE StopKeep
  <2>1. /\ UNCHANGED <<completed, queue, wsession, working, crashed, runs>>
        /\ \/ pending' = pending \o waiting /\ givenUp' = givenUp
           \/ pending' = pending /\ givenUp' = givenUp \cup Range(waiting)
    BY <1>8 DEF StopKeep, StopFrame, envVars, workerVars
  <2>2. Range(pending \o waiting) = Range(pending) \cup Range(waiting)
    BY <1>a, RangeConcat
  <2>. QED
    BY <1>c, <2>1, <2>2 DEF Accounted, InMemory, OnDisk, Stored
<1>9. CASE StopSentinel
  <2>1. /\ UNCHANGED <<completed, waiting, wsession, pending, working, crashed, givenUp, runs>>
        /\ queue' = Append(queue, WorkerStop)
    BY <1>9 DEF StopSentinel, StopFrame, envVars, workerVars
  <2>2. Range(Append(queue, WorkerStop)) = Range(queue) \cup {WorkerStop}
    <3>1. queue \in Seq(Sessions \cup {WorkerStop}) /\ WorkerStop \in Sessions \cup {WorkerStop}
      BY <1>a
    <3>. QED
      BY <3>1, RangeAppend
  <2>. QED
    BY <1>c, <2>1, <2>2 DEF Accounted, InMemory, OnDisk, Stored
<1>10. CASE CuTake
  <2>1. /\ UNCHANGED <<completed, queue, waiting, wsession, crashed, givenUp, runs>>
        /\ \/ working = <<>> /\ working' = pending
           \/ UNCHANGED <<working, pending>>
    BY <1>10 DEF CuTake, CuFrame, envVars, workerVars, stopVars
  <2>. QED
    BY <1>c, <2>1, RangeEmpty DEF Accounted, InMemory, OnDisk, Stored
<1>11. CASE CuFinish
  <2>1. /\ UNCHANGED <<completed, queue, waiting, wsession, pending, crashed, givenUp, runs>>
        /\ cuPc = "batch" /\ pos >= Len(lines)
    BY <1>11 DEF CuFinish, CuFrame, envVars, workerVars, stopVars
  <2>2. working = lines /\ \A i \in DOMAIN lines : Settled(lines[i])
    BY <1>a, <2>1 DEF CatchUpInv
  <2>3. \A y \in Range(working) : Settled(y)
    BY <2>2 DEF Range
  <2>. QED
    BY <1>c, <2>1, <2>3 DEF Accounted, InMemory, OnDisk, Stored, Settled
<1>12. CASE CuPutBack
  <2>1. /\ UNCHANGED <<completed, queue, waiting, wsession, working, crashed, givenUp, runs>>
        /\ \/ pending' = pending \o SubSeq(lines, pos + 1, Len(lines))
           \/ pending' = pending
    BY <1>12 DEF CuPutBack, CuFrame, envVars, workerVars, stopVars
  <2>2. SubSeq(lines, pos + 1, Len(lines)) \in Seq(Sessions)
    BY <1>a, SubSeqIsSeq
  <2>3. Range(pending \o SubSeq(lines, pos + 1, Len(lines)))
          = Range(pending) \cup Range(SubSeq(lines, pos + 1, Len(lines)))
    <3> DEFINE rest == SubSeq(lines, pos + 1, Len(lines))
    <3>1. pending \in Seq(Sessions) /\ rest \in Seq(Sessions)
      BY <1>a, <2>2
    <3>. HIDE DEF rest
    <3>2. Range(pending \o rest) = Range(pending) \cup Range(rest)
      BY <3>1, RangeConcat
    <3>. QED
      BY <3>2 DEF rest
  <2>4. Range(pending) \subseteq Range(pending')
    BY <2>1, <2>3, Zenon
  <2>. QED
    BY <1>c, <2>1, <2>4 DEF Accounted, InMemory, OnDisk, Stored
<1>13. CASE CuUnlink
  <2>1. /\ UNCHANGED <<completed, queue, waiting, wsession, pending, crashed, givenUp, runs>>
        /\ cuPc = "unlink"
    BY <1>13 DEF CuUnlink, CuFrame, envVars, workerVars, stopVars
  <2>2. /\ working = lines
        /\ \A i \in DOMAIN lines : Settled(lines[i]) \/ lines[i] \in Range(pending)
    BY <1>a, <2>1 DEF CatchUpInv
  <2>3. \A y \in Range(working) : Settled(y) \/ y \in Range(pending)
    BY <2>2 DEF Range
  <2>. QED
    BY <1>c, <2>1, <2>3 DEF Accounted, InMemory, OnDisk, Stored, Settled
<1>14. CASE Crash
  <2>1. /\ UNCHANGED <<completed, pending, working, givenUp, runs>>
        /\ crashed' = crashed \cup InMemory
    BY <1>14 DEF Crash, MemoryGone
  <2>. QED
    BY <1>c, <2>1 DEF Accounted, OnDisk, Stored
<1>15. CASE Exit
  <2>1. UNCHANGED <<completed, pending, working, givenUp, runs, crashed>> /\ stopPc = "stopped"
    BY <1>15 DEF Exit, MemoryGone
  <2>2. Range(queue) \subseteq {WorkerStop} /\ Range(waiting) = {}
    BY <2>1, RangeOfSeq, RangeEmpty DEF HandsInv
  <2>3. \A w \in Workers : wsession[w] = NoSession
    BY <2>1 DEF HandsInv
  <2>4. Range(wsession) \subseteq {NoSession}
    BY <1>a, <2>3 DEF Range
  <2>5. InMemory = {}
    BY <1>a, <2>2, <2>4 DEF InMemory
  <2>. QED
    BY <1>c, <2>1, <2>5 DEF Accounted, OnDisk, Stored
<1>16. ASSUME NEW w \in Workers, WorkerSave(w) \/ WorkerUnavailable(w) \/ WorkerCommitLost(w)
       PROVE  UNCHANGED placeVars
  BY <1>16 DEF WorkerSave, WorkerUnavailable, WorkerCommitLost, WorkerFrame, placeVars,
     envVars, stopVars
<1>17. StopJoin \/ StopGather => UNCHANGED placeVars
  BY DEF StopJoin, StopGather, StopFrame, placeVars, envVars, workerVars
<1>18. CuStart \/ CuBatch \/ CuSkip \/ CuCheck \/ CuInsert \/ CuUnavailable \/ CuCommitLost
         \/ CuGivesUpSession \/ CuBatchDone \/ CuAlert
       => UNCHANGED placeVars
  BY DEF CuStart, CuBatch, CuSkip, CuCheck, CuInsert, CuUnavailable, CuCommitLost,
     CuGivesUpSession, CuBatchDone, CuAlert, CuFrame, placeVars, envVars, workerVars, stopVars
<1>19. Import \/ DbChange \/ Start \/ UNCHANGED vars => UNCHANGED placeVars
  BY DEF Import, ImpStart, ImpBatch, ImpSkip, ImpCheck, ImpInsert, ImpFail, ImpBatchDone,
     ImpEof, ImpEnd, ImpFrame, DbChange, Start, vars, placeVars, envVars, workerVars, stopVars
<1>20. completed' = completed \/ \E s \in Sessions : Complete(s) \/ InvalidRecord(s)
  BY <1>5, <1>6, <1>7, <1>8, <1>9, <1>10, <1>11, <1>12, <1>13, <1>14, <1>15, <1>16, <1>17,
     <1>18, <1>19
     DEF Next, WorkerStep, StopStep, CatchUp, StopIntake, StopKeep, StopSentinel, StopFrame,
     CuTake, CuFinish, CuPutBack, CuUnlink, CuFrame, Crash, Exit, MemoryGone, placeVars, envVars
<1>. QED
  BY <1>2, <1>3, <1>4, <1>5, <1>6, <1>7, <1>8, <1>9, <1>10, <1>11, <1>12, <1>13, <1>14, <1>15,
     <1>16, <1>17, <1>18, <1>19, <1>20 DEF Next, WorkerStep, StopStep, CatchUp

(* The initial states satisfy every part of the invariant.                 *)
LEMMA InitInv == Init => PipelineInv
<1>. SUFFICES ASSUME Init PROVE PipelineInv
  OBVIOUS
<1>1. TypeOK
  BY EmptyIsSeq DEF Init, TypeOK
<1>2. HandsInv
  BY EmptyIsSeq DEF Init, HandsInv
<1>3. CatchUpInv /\ AlertInv /\ SessionsKept
  BY DEF Init, CatchUpInv, AlertInv, SessionsKept
<1>. QED
  BY <1>1, <1>2, <1>3 DEF PipelineInv

(* The invariant is inductive.                                             *)
LEMMA PipelineStep == PipelineInv /\ [Next]_vars => PipelineInv'
BY TypeStep, HandsStep, CatchUpStep, AlertStep, SessionsKeptStep DEF PipelineInv

(* Every reachable state of the pipeline, for any set of sessions and      *)
(* workers, any queue and batch size and any number of faults, has the     *)
(* type the code gives its state.                                          *)
THEOREM TypeCorrect == Spec => []TypeOK
<1>1. PipelineInv => TypeOK
  BY DEF PipelineInv
<1>. QED
  BY <1>1, InitInv, PipelineStep, PTL DEF Spec

(* No path of the workers, the stop, the catch-up or the import lets go of *)
(* a finished session unnoticed: it is stored, held in memory or in a       *)
(* pending file, was left to the session log on purpose, or was in the     *)
(* memory of a process that was killed.                                    *)
THEOREM NothingIsLost == Spec => []NothingLost
<1>1. PipelineInv => NothingLost
  BY DEF PipelineInv, NothingLost
<1>. QED
  BY <1>1, InitInv, PipelineStep, PTL DEF Spec

-----------------------------------------------------------------------------
(* The second part of the invariant says where one session may be, and     *)
(* who wrote its runs.                                                     *)

InQueue == (Range(queue) \cup Range(waiting)) \cap Sessions

(* A session is in memory once: at one place of the queue or in one        *)
(* worker's hands; and what is in memory is not on disk.                   *)
OnceInv ==
    /\ stopPc \in {"keep", "join"} => queue = <<>>
    /\ stopPc = "running" => IsInjective(queue)
    /\ \A v, w \in Workers : wsession[v] = wsession[w] /\ wsession[v] # NoSession => v = w
    /\ \A w \in Workers : wsession[w] \notin InQueue
    /\ InMemory \cap OnDisk = {}

(* Only a session that has finished is anywhere.                           *)
CompletedInv ==
    /\ InMemory \cup OnDisk \cup Range(log) \cup givenUp \subseteq completed
    /\ \A s \in Sessions : Stored(s) => s \in completed
    /\ impPc \in {"session", "insert"} => Range(batch) \subseteq completed

(* What the steps of a worker, of the stop, of the pass and of an import   *)
(* leave alone.                                                            *)
LEMMA WorkerLeaves ==
    \A w \in Workers : WorkerStep(w) =>
        UNCHANGED <<completed, log, working, stopPc, waiting, sentinels, cuPc, lines, pos,
                    next, known, fresh, impPc, batch, impPos, impNext, impKnown, failed, crashed>>
BY DEF WorkerStep, WorkerGet, WorkerSave, WorkerUnavailable, WorkerCommitLost, WorkerGivesUp,
   WorkerKeep, WorkerAlert, WorkerFrame, envVars, stopVars, cuVars, impVars

(* The same of the stop. *)
LEMMA StopLeaves ==
    StopIntake \/ StopStep =>
        UNCHANGED <<completed, log, working, wpc, wsession, cuPc, lines, pos, next, known, fresh,
                    impPc, batch, impPos, impNext, impKnown, failed, runs, alerted, crashed>>
BY DEF StopIntake, StopStep, StopKeep, StopJoin, StopSentinel, StopGather, StopFrame, envVars,
   workerVars, cuVars, impVars

(* The same of the catch-up thread. *)
LEMMA CatchUpLeaves ==
    CatchUp =>
        UNCHANGED <<completed, log, queue, wpc, wsession, stopPc, waiting, sentinels,
                    impPc, batch, impPos, impNext, impKnown, failed, crashed>>
BY DEF CatchUp, CuStart, CuTake, CuBatch, CuSkip, CuCheck, CuInsert, CuUnavailable, CuCommitLost,
   CuGivesUpSession, CuBatchDone, CuFinish, CuPutBack, CuUnlink, CuAlert, CuFrame, envVars,
   workerVars, stopVars, impVars

(* The same of an import. *)
LEMMA ImportLeaves ==
    Import =>
        UNCHANGED <<completed, log, pending, working, queue, wpc, wsession, stopPc, waiting,
                    sentinels, cuPc, lines, pos, next, known, fresh, alerted, givenUp, crashed>>
BY DEF Import, ImpStart, ImpBatch, ImpSkip, ImpCheck, ImpInsert, ImpFail, ImpBatchDone, ImpEof,
   ImpEnd, ImpFrame, envVars, workerVars, stopVars, cuVars

(* The environment changes neither files nor what the database holds.      *)
LEMMA OthersLeave ==
    DbChange \/ Start \/ UNCHANGED vars =>
        UNCHANGED <<completed, log, pending, working, queue, wpc, wsession, stopPc, waiting,
                    sentinels, cuPc, lines, pos, next, known, fresh, impPc, batch, impPos, impNext,
                    impKnown, failed, runs, alerted, givenUp, crashed>>
BY DEF DbChange, Start, vars, envVars, workerVars, stopVars, cuVars, impVars

(* Appending something new keeps the items of a queue distinct.            *)
LEMMA InjectiveAppend ==
    ASSUME NEW S, NEW q \in Seq(S), NEW x \in S, IsInjective(q), x \notin Range(q)
    PROVE  IsInjective(Append(q, x))
<1>1. DOMAIN Append(q, x) = DOMAIN q \cup {Len(q) + 1} /\ Append(q, x)[Len(q) + 1] = x
  OBVIOUS
<1>2. \A i \in DOMAIN q : Append(q, x)[i] = q[i] /\ q[i] # x
  BY DEF Range
<1>. QED
  BY <1>1, <1>2 DEF IsInjective

(* The head of a queue of distinct items is not among the others.          *)
LEMMA InjectiveTail ==
    ASSUME NEW S, NEW q \in Seq(S), q # <<>>, IsInjective(q)
    PROVE  IsInjective(Tail(q)) /\ Head(q) \notin Range(Tail(q))
<1>1. Head(q) = q[1] /\ 1 \in DOMAIN q /\ DOMAIN q \subseteq Int
  OBVIOUS
<1>2. \A i \in DOMAIN Tail(q) : i + 1 \in DOMAIN q /\ Tail(q)[i] = q[i + 1] /\ i \in Nat /\ i > 0
  OBVIOUS
<1>3. IsInjective(Tail(q))
  BY <1>2 DEF IsInjective
<1>4. Head(q) \notin Range(Tail(q))
  <2>. SUFFICES ASSUME NEW i \in DOMAIN Tail(q), Tail(q)[i] = Head(q) PROVE FALSE
    BY DEF Range
  <2>. QED
    BY <1>1, <1>2 DEF IsInjective
<1>. QED
  BY <1>3, <1>4

(* The sessions a worker may take, and that it takes them while the intake *)
(* is open.                                                                *)
LEMMA GetsWhileRunning ==
    ASSUME TypeOK, HandsInv, OnceInv, NEW w \in Workers, WorkerGet(w), Head(queue) # WorkerStop
    PROVE  /\ stopPc = "running" /\ waiting = <<>> /\ queue \in Seq(Sessions)
           /\ Head(queue) \in Sessions /\ Range(queue) = {Head(queue)} \cup Range(Tail(queue))
           /\ Head(queue) \notin Range(Tail(queue)) /\ IsInjective(Tail(queue))
           /\ Tail(queue) \in Seq(Sessions)
<1>1. queue # <<>>
  BY DEF WorkerGet
<1>2. stopPc \notin {"sentinels", "stopped"}
  <2>. SUFFICES ASSUME stopPc \in {"sentinels", "stopped"} PROVE FALSE
    OBVIOUS
  <2>1. queue \in Seq({WorkerStop})
    BY DEF HandsInv
  <2>. QED
    BY <1>1, <2>1, RangeTail
<1>3. stopPc = "running"
  BY <1>1, <1>2 DEF OnceInv, TypeOK
<1>4. queue \in Seq(Sessions) /\ waiting = <<>>
  BY <1>3 DEF HandsInv
<1>5. IsInjective(queue)
  BY <1>3 DEF OnceInv
<1>. QED
  BY <1>1, <1>3, <1>4, <1>5, RangeTail, InjectiveTail

(* What one step may do with the sessions: one arrives, some leave the     *)
(* memory, a run is written, something is reported, the disk loses what is *)
(* settled, or the memory is lost.                                         *)
Arrives(s) ==
    /\ s \in Sessions \ completed
    /\ completed' = completed \cup {s} /\ OnDisk' = OnDisk /\ runs' = runs
    /\ \/ InMemory' = InMemory \cup {s} /\ givenUp' = givenUp
       \/ InMemory' = InMemory /\ givenUp' = givenUp \cup {s}

Leaves(S) ==
    /\ S \subseteq InMemory
    /\ InMemory' = InMemory \ S /\ completed' = completed /\ runs' = runs
    /\ \/ OnDisk' = OnDisk \cup S /\ givenUp' = givenUp
       \/ OnDisk' = OnDisk /\ givenUp' = givenUp \cup S
       \/ OnDisk' = OnDisk /\ givenUp' = givenUp /\ \A s \in S : Stored(s)

Writes(s, who) ==
    /\ s \in completed /\ runs' = [runs EXCEPT ![s] = Append(@, who)]
    /\ InMemory' = InMemory /\ OnDisk' = OnDisk
    /\ completed' = completed /\ givenUp' = givenUp

Reports(s) ==
    /\ s \in completed /\ givenUp' = givenUp \cup {s}
    /\ InMemory' = InMemory /\ OnDisk' = OnDisk /\ completed' = completed /\ runs' = runs

Clears ==
    /\ OnDisk' \subseteq OnDisk /\ \A s \in OnDisk \ OnDisk' : Settled(s)
    /\ InMemory' = InMemory /\ completed' = completed /\ givenUp' = givenUp /\ runs' = runs

Forgets ==
    /\ InMemory' = {}
    /\ OnDisk' = OnDisk /\ completed' = completed /\ givenUp' = givenUp /\ runs' = runs
    /\ Crash \/ (Exit /\ InMemory = {})

Stays ==
    /\ InMemory' = InMemory /\ OnDisk' = OnDisk
    /\ completed' = completed /\ givenUp' = givenUp /\ runs' = runs

Moves ==
    \/ \E s \in Sessions : Arrives(s) \/ Reports(s)
    \/ \E S \in SUBSET Sessions : Leaves(S)
    \/ \E s \in Sessions, who \in {"worker", "catch-up", "import"} : Writes(s, who)
    \/ Clears \/ Forgets \/ Stays

(* A worker that is done with its session takes it out of memory.          *)
LEMMA HandEmpties ==
    ASSUME TypeOK, OnceInv, NEW w \in Workers, wsession[w] \in Sessions, Done(w),
           UNCHANGED <<queue, waiting>>
    PROVE  InMemory' = InMemory \ {wsession[w]} /\ wsession[w] \in InMemory
<1>a. /\ wsession \in [Workers -> Sessions \cup {NoSession}] /\ NoSession \notin Sessions
      /\ wsession' = [wsession EXCEPT ![w] = NoSession]
  BY PipelineConstants DEF TypeOK, Done
<1>1. wsession[w] \notin InQueue
  BY DEF OnceInv
<1>2. Range(wsession') \cap Sessions = (Range(wsession) \cap Sessions) \ {wsession[w]}
  <2>1. ASSUME NEW v \in Workers, v # w, wsession[v] \in Sessions
        PROVE  wsession[v] # wsession[w] /\ wsession'[v] = wsession[v]
    BY <1>a, <2>1 DEF OnceInv
  <2>2. Range(wsession') \cap Sessions \subseteq (Range(wsession) \cap Sessions) \ {wsession[w]}
    BY <1>a, <2>1 DEF Range
  <2>3. ASSUME NEW v \in Workers, wsession[v] \in Sessions, wsession[v] # wsession[w]
        PROVE  wsession[v] \in Range(wsession')
    <3>1. v # w /\ wsession'[v] = wsession[v] /\ v \in DOMAIN wsession'
      BY <1>a, <2>3
    <3>. QED
      BY <3>1 DEF Range
  <2>. QED
    BY <1>a, <2>2, <2>3 DEF Range
<1>. QED
  BY <1>1, <1>2, <1>a DEF InMemory, InQueue, Range

(* What a worker takes from the queue stays in memory.                     *)
LEMMA HandFills ==
    ASSUME TypeOK, HandsInv, OnceInv, NEW w \in Workers, WorkerGet(w)
    PROVE  InMemory' = InMemory
<1>a. /\ wsession \in [Workers -> Sessions \cup {NoSession}]
      /\ queue \in Seq(Sessions \cup {WorkerStop})
      /\ NoSession \notin Sessions /\ WorkerStop \notin Sessions
  BY PipelineConstants DEF TypeOK
<1>1. queue # <<>> /\ queue' = Tail(queue) /\ waiting' = waiting /\ wpc[w] = "idle"
  BY DEF WorkerGet, WorkerFrame, stopVars
<1>2. Range(queue) = {Head(queue)} \cup Range(Tail(queue))
  BY <1>a, <1>1, RangeTail
<1>3. CASE Head(queue) = WorkerStop
  <2>1. wsession' = wsession
    BY <1>3 DEF WorkerGet
  <2>. QED
    BY <1>a, <1>1, <1>2, <1>3, <2>1 DEF InMemory
<1>4. CASE Head(queue) # WorkerStop
  <2>1. wsession' = [wsession EXCEPT ![w] = Head(queue)] /\ Head(queue) \in Sessions
    BY <1>4, GetsWhileRunning DEF WorkerGet
  <2>2. wsession[w] = NoSession
    BY <1>1 DEF HandsInv
  <2>3. Range(wsession') \cap Sessions = (Range(wsession) \cap Sessions) \cup {Head(queue)}
    <3>1. \A v \in Workers : v # w => wsession'[v] = wsession[v]
      BY <1>a, <2>1
    <3>2. wsession'[w] = Head(queue) /\ DOMAIN wsession' = Workers /\ DOMAIN wsession = Workers
      BY <1>a, <2>1
    <3>3. Range(wsession') \cap Sessions \subseteq (Range(wsession) \cap Sessions) \cup {Head(queue)}
      BY <3>1, <3>2 DEF Range
    <3>4. Head(queue) \in Range(wsession') \cap Sessions
      BY <2>1, <3>2 DEF Range
    <3>5. Range(wsession) \cap Sessions \subseteq Range(wsession')
      BY <1>a, <2>2, <3>1, <3>2 DEF Range
    <3>. QED
      BY <3>3, <3>4, <3>5
  <2>. QED
    BY <1>1, <1>2, <2>3 DEF InMemory
<1>. QED
  BY <1>3, <1>4

(* A stop that is over has left nothing in memory.                         *)
LEMMA StoppedIsEmpty ==
    ASSUME TypeOK, HandsInv, stopPc = "stopped"
    PROVE  InMemory = {}
<1>a. wsession \in [Workers -> Sessions \cup {NoSession}] /\ NoSession \notin Sessions /\ WorkerStop \notin Sessions
  BY PipelineConstants DEF TypeOK
<1>1. Range(queue) \subseteq {WorkerStop} /\ Range(waiting) = {}
  BY RangeOfSeq, RangeEmpty DEF HandsInv
<1>2. \A w \in Workers : wsession[w] = NoSession
  BY DEF HandsInv
<1>3. Range(wsession) \subseteq {NoSession}
  BY <1>a, <1>2 DEF Range
<1>. QED
  BY <1>a, <1>1, <1>3 DEF InMemory

(* Every step of the pipeline is one of these moves.                       *)
LEMMA StepMoves ==
    ASSUME TypeOK, HandsInv, CatchUpInv, AlertInv, OnceInv, CompletedInv, [Next]_vars
    PROVE  Moves
<1>a. /\ lines \in Seq(Sessions) /\ pending \in Seq(Sessions) /\ working \in Seq(Sessions)
      /\ waiting \in Seq(Sessions) /\ batch \in Seq(Sessions)
      /\ queue \in Seq(Sessions \cup {WorkerStop})
      /\ wsession \in [Workers -> Sessions \cup {NoSession}]
      /\ wpc \in [Workers -> {"idle", "store", "keep", "alert", "stopped"}]
      /\ completed \subseteq Sessions
      /\ NoSession \notin Sessions /\ WorkerStop \notin Sessions
      /\ pos \in Nat
  BY PipelineConstants DEF TypeOK
<1>b. InMemory \subseteq Sessions /\ OnDisk \subseteq Sessions
  BY <1>a, RangeOfSeq DEF InMemory, OnDisk
<1>c. \A w \in Workers : wpc[w] \in {"store", "keep", "alert"} => wsession[w] \in Sessions /\ wsession[w] \in InMemory
  BY <1>a DEF HandsInv, InMemory, Range
<1>1. CASE Stays
  BY <1>1 DEF Moves
<1>2. CASE UNCHANGED <<completed, queue, waiting, wsession, pending, working, runs, givenUp>>
  BY <1>2, <1>1 DEF Stays, InMemory, OnDisk
<1>3. ASSUME NEW s \in Sessions, Complete(s) PROVE Moves
  <2>1. /\ s \notin completed /\ completed' = completed \cup {s}
        /\ \/ queue' = Append(queue, s) /\ givenUp' = givenUp
           \/ queue' = queue /\ givenUp' = givenUp \cup {s}
        /\ UNCHANGED <<waiting, wsession, pending, working, runs>>
    BY <1>3 DEF Complete, schedule_auto_classification, HandlerFrame, stopVars, workerVars
  <2>2. Range(Append(queue, s)) = Range(queue) \cup {s}
    <3>1. queue \in Seq(Sessions \cup {WorkerStop}) /\ s \in Sessions \cup {WorkerStop}
      BY <1>a
    <3>. QED
      BY <3>1, RangeAppend
  <2>3. OnDisk' = OnDisk
    BY <2>1 DEF OnDisk
  <2>4. (InMemory' = InMemory \cup {s} /\ givenUp' = givenUp) \/ (InMemory' = InMemory /\ givenUp' = givenUp \cup {s})
    BY <2>1, <2>2 DEF InMemory
  <2>. QED
    BY <2>1, <2>3, <2>4 DEF Moves, Arrives
<1>4. ASSUME NEW s \in Sessions, InvalidRecord(s) PROVE Moves
  <2>1. /\ s \notin completed /\ completed' = completed \cup {s} /\ givenUp' = givenUp \cup {s}
        /\ UNCHANGED <<queue, waiting, wsession, pending, working, runs>>
    BY <1>4 DEF InvalidRecord, HandlerFrame, stopVars, workerVars
  <2>. QED
    BY <2>1 DEF Moves, Arrives, InMemory, OnDisk
<1>5. ASSUME NEW w \in Workers, WorkerGet(w) PROVE Moves
  <2>1. UNCHANGED <<completed, pending, working, runs, givenUp>>
    BY <1>5, WorkerLeaves DEF WorkerStep, WorkerGet
  <2>2. InMemory' = InMemory
    BY <1>5, HandFills
  <2>. QED
    BY <1>1, <2>1, <2>2 DEF Stays, OnDisk
<1>6. ASSUME NEW w \in Workers, WorkerSave(w) \/ WorkerCommitLost(w) PROVE Moves
  <2>1. UNCHANGED <<completed, queue, waiting, wsession, pending, working, givenUp>>
    BY <1>6, WorkerLeaves DEF WorkerStep, WorkerSave, WorkerCommitLost
  <2>2. runs' = [runs EXCEPT ![wsession[w]] = Append(@, "worker")] /\ wpc[w] = "store"
    BY <1>6 DEF WorkerSave, WorkerCommitLost, WorkerWrites, Storing
  <2>3. wsession[w] \in completed
    BY <1>c, <2>2 DEF CompletedInv
  <2>4. Writes(wsession[w], "worker")
    BY <2>1, <2>2, <2>3 DEF Writes, InMemory, OnDisk
  <2>. QED
    BY <1>c, <2>2, <2>4 DEF Moves
<1>7. ASSUME NEW w \in Workers, WorkerUnavailable(w) PROVE Moves
  BY <1>7, <1>2, WorkerLeaves DEF WorkerStep, WorkerUnavailable
<1>8. ASSUME NEW w \in Workers, WorkerGivesUp(w) \/ WorkerKeep(w) \/ WorkerAlert(w) PROVE Moves
  <2>1. Done(w) /\ wpc[w] \in {"store", "keep", "alert"}
        /\ UNCHANGED <<completed, queue, waiting, working, runs>>
    BY <1>8, WorkerLeaves DEF WorkerStep, WorkerGivesUp, WorkerKeep, WorkerAlert, Storing
  <2>2. wsession[w] \in Sessions
    BY <1>c, <2>1
  <2>3. InMemory' = InMemory \ {wsession[w]} /\ wsession[w] \in InMemory
    BY <2>1, <2>2, HandEmpties
  <2>4. Range(Append(pending, wsession[w])) = Range(pending) \cup {wsession[w]}
    BY <1>a, <2>2, RangeAppend
  <2>5. \/ OnDisk' = OnDisk \cup {wsession[w]} /\ givenUp' = givenUp
        \/ OnDisk' = OnDisk /\ givenUp' = givenUp \cup {wsession[w]}
        \/ OnDisk' = OnDisk /\ givenUp' = givenUp /\ Stored(wsession[w])
    BY <1>8, <2>1, <2>4 DEF OnDisk, AlertInv, WorkerGivesUp, WorkerKeep, WorkerAlert
  <2>6. Leaves({wsession[w]})
    BY <2>1, <2>3, <2>5 DEF Leaves
  <2>. QED
    BY <2>2, <2>6 DEF Moves
<1>9. CASE StopIntake
  <2>1. UNCHANGED <<completed, wsession, pending, working, runs, givenUp>> /\ waiting' = queue
        /\ waiting = <<>> /\ queue' = <<>>
    BY <1>9, StopLeaves DEF StopIntake, HandsInv
  <2>2. InMemory' = InMemory
    BY <2>1, RangeEmpty DEF InMemory
  <2>. QED
    BY <1>1, <2>1, <2>2 DEF Stays, OnDisk
<1>10. CASE StopKeep
  <2>1. UNCHANGED <<completed, queue, wsession, working, runs>> /\ waiting' = <<>> /\ stopPc = "keep"
        /\ \/ pending' = pending \o waiting /\ givenUp' = givenUp
           \/ pending' = pending /\ givenUp' = givenUp \cup Range(waiting)
    BY <1>10, StopLeaves DEF StopStep, StopKeep
  <2>2. Range(pending \o waiting) = Range(pending) \cup Range(waiting)
    BY <1>a, RangeConcat
  <2>3. Range(waiting) \subseteq Sessions
    BY <1>a, RangeOfSeq
  <2>4. queue = <<>> /\ Range(queue) = {} /\ Range(waiting') = {}
    BY <2>1, RangeEmpty DEF OnceInv
  <2>5. Range(wsession) \cap Range(waiting) = {}
    BY <1>a, <2>3 DEF OnceInv, InQueue, Range
  <2>6. Range(waiting) \subseteq InMemory /\ InMemory' = InMemory \ Range(waiting)
    BY <2>1, <2>3, <2>4, <2>5 DEF InMemory
  <2>7. \/ OnDisk' = OnDisk \cup Range(waiting) /\ givenUp' = givenUp
        \/ OnDisk' = OnDisk /\ givenUp' = givenUp \cup Range(waiting)
    BY <2>1, <2>2 DEF OnDisk
  <2>8. Leaves(Range(waiting))
    BY <2>1, <2>6, <2>7 DEF Leaves
  <2>. QED
    BY <2>3, <2>8 DEF Moves
<1>11. CASE StopJoin \/ StopGather
  BY <1>11, <1>2, StopLeaves DEF StopStep, StopJoin, StopGather
<1>12. CASE StopSentinel
  <2>1. /\ UNCHANGED <<completed, waiting, wsession, pending, working, givenUp, runs>>
        /\ queue' = Append(queue, WorkerStop)
    BY <1>12, StopLeaves DEF StopStep, StopSentinel
  <2>2. Range(Append(queue, WorkerStop)) = Range(queue) \cup {WorkerStop}
    <3>1. queue \in Seq(Sessions \cup {WorkerStop}) /\ WorkerStop \in Sessions \cup {WorkerStop}
      BY <1>a
    <3>. QED
      BY <3>1, RangeAppend
  <2>. QED
    BY <1>1, <1>a, <2>1, <2>2 DEF Stays, InMemory, OnDisk
<1>13. CASE CuStart \/ CuBatch \/ CuSkip \/ CuCheck \/ CuUnavailable \/ CuBatchDone \/ CuAlert
  BY <1>13, <1>2, CatchUpLeaves DEF CatchUp, CuStart, CuBatch, CuSkip, CuCheck, CuUnavailable, CuBatchDone, CuAlert
<1>14. CASE CuTake
  <2>1. /\ UNCHANGED <<completed, queue, waiting, wsession, givenUp, runs>>
        /\ \/ working = <<>> /\ working' = pending /\ pending' = <<>>
           \/ UNCHANGED <<working, pending>>
    BY <1>14, CatchUpLeaves DEF CatchUp, CuTake
  <2>. QED
    BY <1>1, <2>1, RangeEmpty DEF Stays, InMemory, OnDisk
<1>15. CASE CuInsert \/ CuCommitLost
  <2>1. /\ UNCHANGED <<completed, queue, waiting, wsession, pending, working, givenUp>>
        /\ cuPc = "insert" /\ runs' = [runs EXCEPT ![lines[next]] = Append(@, "catch-up")]
    BY <1>15, CatchUpLeaves DEF CatchUp, CuInsert, CuCommitLost, CuWrites
  <2>2. lines[next] \in Range(working) /\ lines[next] \in Sessions
    BY <1>a, <2>1 DEF CatchUpInv, Range
  <2>3. Writes(lines[next], "catch-up")
    BY <2>1, <2>2 DEF Writes, InMemory, OnDisk, CompletedInv
  <2>. QED
    BY <2>2, <2>3 DEF Moves
<1>16. CASE CuGivesUpSession
  <2>1. /\ UNCHANGED <<completed, queue, waiting, wsession, pending, working, runs>>
        /\ givenUp' = givenUp \cup {lines[next]}
    BY <1>16, CatchUpLeaves DEF CatchUp, CuGivesUpSession
  <2>2. working = lines /\ next \in DOMAIN lines
    BY <1>16, <1>a, PipelineConstants DEF CuGivesUpSession, CuTrying, CuAtSession, BatchEnd, CatchUpInv, TypeOK
  <2>3. lines[next] \in Range(working) /\ lines[next] \in Sessions
    BY <1>a, <2>2 DEF Range
  <2>4. Reports(lines[next])
    BY <2>1, <2>3 DEF Reports, InMemory, OnDisk, CompletedInv
  <2>. QED
    BY <2>3, <2>4 DEF Moves
<1>17. CASE CuFinish \/ CuUnlink
  <2>1. /\ UNCHANGED <<completed, queue, waiting, wsession, pending, givenUp, runs>>
        /\ working' = <<>>
    BY <1>17, CatchUpLeaves DEF CatchUp, CuFinish, CuUnlink
  <2>2. \A i \in DOMAIN working : Settled(working[i]) \/ working[i] \in Range(pending)
    BY <1>17, <1>a DEF CuFinish, CuUnlink, CatchUpInv
  <2>3. \A y \in Range(working) : Settled(y) \/ y \in Range(pending)
    BY <2>2 DEF Range
  <2>4. OnDisk' \subseteq OnDisk /\ \A s \in OnDisk \ OnDisk' : Settled(s)
    BY <2>1, <2>3, RangeEmpty DEF OnDisk
  <2>. QED
    BY <2>1, <2>4 DEF Moves, Clears, InMemory
<1>18. CASE CuPutBack
  <2>1. /\ UNCHANGED <<completed, queue, waiting, wsession, working, givenUp, runs>>
        /\ \/ pending' = pending \o SubSeq(lines, pos + 1, Len(lines))
           \/ pending' = pending
        /\ working = lines
    BY <1>18, CatchUpLeaves DEF CatchUp, CuPutBack, CatchUpInv
  <2> DEFINE rest == SubSeq(lines, pos + 1, Len(lines))
  <2>2. rest \in Seq(Sessions) /\ \A i \in DOMAIN rest : \E j \in DOMAIN lines : rest[i] = lines[j]
    <3>1. /\ rest \in Seq(Sessions)
          /\ DOMAIN rest = 1 .. (IF pos + 1 <= Len(lines) THEN Len(lines) - (pos + 1) + 1 ELSE 0)
          /\ \A i \in 1 .. (Len(lines) - (pos + 1) + 1) : rest[i] = lines[pos + 1 + i - 1]
      BY <1>a, SubSeqIsSeq
    <3>2. ASSUME NEW i \in DOMAIN rest PROVE pos + i \in DOMAIN lines /\ rest[i] = lines[pos + i]
      <4>. HIDE DEF rest
      <4>1. Len(lines) \in Nat /\ DOMAIN lines = 1 .. Len(lines) /\ pos \in Nat
        BY <1>a
      <4>2. i \in 1 .. (Len(lines) - pos)
        BY <3>1, <4>1
      <4>3. pos + 1 + i - 1 = pos + i /\ pos + i \in DOMAIN lines
        BY <4>1, <4>2
      <4>. QED
        BY <3>1, <4>1, <4>2, <4>3
    <3>. QED
      BY <3>1, <3>2
  <2>3. Range(rest) \subseteq Range(working)
    BY <2>1, <2>2 DEF Range
  <2>4. Range(pending \o rest) = Range(pending) \cup Range(rest)
    <3>. HIDE DEF rest
    <3>. QED
      BY <1>a, <2>2, RangeConcat
  <2>5. OnDisk' = OnDisk
    BY <2>1, <2>3, <2>4 DEF OnDisk
  <2>. QED
    BY <1>1, <2>1, <2>5 DEF Stays, InMemory
<1>19. CASE ImpInsert
  <2>1. /\ UNCHANGED <<completed, queue, waiting, wsession, pending, working, givenUp>>
        /\ impPc = "insert" /\ runs' = [runs EXCEPT ![batch[impNext]] = Append(@, "import")]
    BY <1>19, ImportLeaves DEF Import, ImpInsert
  <2>2. batch[impNext] \in Range(batch) /\ batch[impNext] \in Sessions
    BY <1>a, <2>1 DEF HandsInv, Range
  <2>3. Writes(batch[impNext], "import")
    BY <2>1, <2>2 DEF Writes, InMemory, OnDisk, CompletedInv
  <2>. QED
    BY <2>2, <2>3 DEF Moves
<1>20. CASE ImpStart \/ ImpBatch \/ ImpSkip \/ ImpCheck \/ ImpFail \/ ImpBatchDone \/ ImpEof \/ ImpEnd
  <2>1. runs' = runs
    BY <1>20 DEF ImpStart, ImpBatch, ImpSkip, ImpCheck, ImpFail, ImpBatchDone, ImpEof, ImpEnd
  <2>. QED
    BY <1>20, <1>2, <2>1, ImportLeaves DEF Import
<1>21. CASE Crash \/ Exit
  <2>1. /\ UNCHANGED <<completed, pending, working, givenUp, runs>>
        /\ queue' = <<>> /\ waiting' = <<>> /\ wsession' = [w \in Workers |-> NoSession]
    BY <1>21 DEF Crash, Exit, MemoryGone
  <2>2. Range(wsession') \subseteq {NoSession}
    BY <2>1 DEF Range
  <2>3. InMemory' = {}
    BY <1>a, <2>1, <2>2, RangeEmpty DEF InMemory
  <2>4. Exit => InMemory = {}
    BY StoppedIsEmpty DEF Exit
  <2>. QED
    BY <1>21, <2>1, <2>3, <2>4 DEF Moves, Forgets, OnDisk
<1>22. CASE DbChange \/ Start \/ UNCHANGED vars
  BY <1>22, <1>2, OthersLeave
<1>. QED
  BY <1>3, <1>4, <1>5, <1>6, <1>7, <1>8, <1>9, <1>10, <1>11, <1>12, <1>13, <1>14, <1>15, <1>16, <1>17,
     <1>18, <1>19, <1>20, <1>21, <1>22 DEF Next, WorkerStep, StopStep, CatchUp, Import

(* Nothing comes from nowhere: every step keeps CompletedInv.              *)
LEMMA CompletedStep ==
    ASSUME TypeOK, HandsInv, CatchUpInv, AlertInv, OnceInv, CompletedInv, [Next]_vars
    PROVE  CompletedInv'
<1>a. /\ log \in Seq(Sessions) /\ batch \in Seq(Sessions)
      /\ runs \in [Sessions -> Seq({"worker", "catch-up", "import"})]
      /\ completed \subseteq Sessions /\ impPos \in Nat
      /\ BatchSize \in Nat \ {0}
  BY PipelineConstants DEF TypeOK
<1>1. completed \subseteq completed'
  BY StepMoves DEF Moves, Arrives, Reports, Leaves, Writes, Clears, Forgets, Stays
<1>2. InMemory' \cup OnDisk' \cup givenUp' \subseteq completed'
  BY StepMoves DEF Moves, Arrives, Reports, Leaves, Writes, Clears, Forgets, Stays, CompletedInv
<1>3. \A s \in Sessions : Stored(s)' => Stored(s) \/ s \in completed
  <2>. SUFFICES ASSUME NEW s \in Sessions, runs'[s] # <<>>, runs[s] = <<>> PROVE s \in completed
    BY DEF Stored
  <2>1. PICK t \in Sessions, who \in {"worker", "catch-up", "import"} : Writes(t, who)
    BY StepMoves DEF Moves, Arrives, Reports, Leaves, Clears, Forgets, Stays
  <2>2. t = s
    BY <1>a, <2>1 DEF Writes
  <2>. QED
    BY <2>1, <2>2 DEF Writes
<1>4. Range(log') \subseteq completed'
  <2>1. CASE log' = log
    BY <2>1, <1>1 DEF CompletedInv
  <2>2. ASSUME NEW s \in Sessions, Complete(s) PROVE Range(log') \subseteq completed'
    <3>1. Range(Append(log, s)) = Range(log) \cup {s}
      BY <1>a, RangeAppend
    <3>. QED
      BY <2>2, <3>1 DEF Complete, CompletedInv
  <2>3. log' = log \/ \E s \in Sessions : Complete(s)
    BY WorkerLeaves, StopLeaves, CatchUpLeaves, ImportLeaves, OthersLeave
       DEF Next, InvalidRecord, Crash, Exit, MemoryGone
  <2>. QED
    BY <2>1, <2>2, <2>3
<1>5. impPc' \in {"session", "insert"} => Range(batch') \subseteq completed'
  <2>1. CASE ImpBatch
    <3> DEFINE part == SubSeq(log, impPos + 1, BatchEnd(log, impPos))
    <3>1. BatchEnd(log, impPos) \in Nat /\ BatchEnd(log, impPos) <= Len(log) /\ impPos < BatchEnd(log, impPos)
      BY <2>1, <1>a DEF BatchEnd, ImpBatch
    <3>2. /\ DOMAIN part = 1 .. (BatchEnd(log, impPos) - impPos)
          /\ \A i \in 1 .. (BatchEnd(log, impPos) - impPos) : part[i] = log[impPos + i]
      BY <1>a, <3>1, SubSeqIsSeq
    <3>3. \A i \in DOMAIN part : impPos + i \in DOMAIN log
      BY <1>a, <3>1, <3>2
    <3>4. Range(part) \subseteq Range(log)
      BY <3>2, <3>3 DEF Range
    <3>. QED
      BY <1>1, <2>1, <3>4 DEF ImpBatch, CompletedInv
  <2>2. CASE batch' = batch /\ (impPc' = impPc \/ impPc \in {"session", "insert"} \/ impPc' \notin {"session", "insert"})
    BY <1>1, <2>2 DEF CompletedInv
  <2>3. Import => ImpBatch \/ (batch' = batch /\ impPc \in {"session", "insert"}) \/ impPc' \notin {"session", "insert"}
    BY DEF Import, ImpStart, ImpSkip, ImpCheck, ImpInsert, ImpFail, ImpBatchDone, ImpEof, ImpEnd,
       ImpTrying, ImpAtSession
  <2>4. Import \/ UNCHANGED <<batch, impPc>>
    BY WorkerLeaves, StopLeaves, CatchUpLeaves, OthersLeave
       DEF Next, Complete, InvalidRecord, HandlerFrame, Crash, Exit, MemoryGone, impVars
  <2>. QED
    BY <1>1, <2>1, <2>3, <2>4 DEF CompletedInv
<1>. QED
  BY <1>1, <1>2, <1>3, <1>4, <1>5 DEF CompletedInv

(* No session gets into memory twice: every step keeps OnceInv.            *)
LEMMA OnceStep ==
    ASSUME TypeOK, HandsInv, CatchUpInv, AlertInv, OnceInv, CompletedInv, [Next]_vars
    PROVE  OnceInv'
<1>a. /\ wsession \in [Workers -> Sessions \cup {NoSession}]
      /\ queue \in Seq(Sessions \cup {WorkerStop})
      /\ waiting \in Seq(Sessions)
      /\ wpc \in [Workers -> {"idle", "store", "keep", "alert", "stopped"}]
      /\ NoSession \notin Sessions /\ WorkerStop \notin Sessions
      /\ completed \subseteq Sessions
  BY PipelineConstants DEF TypeOK
<1>b. InMemory \subseteq completed /\ OnDisk \subseteq completed
  BY DEF CompletedInv
<1>1. InMemory' \cap OnDisk' = {}
  BY <1>b, StepMoves DEF Moves, Arrives, Reports, Leaves, Writes, Clears, Forgets, Stays, OnceInv
<1>2. CASE UNCHANGED <<queue, waiting, wsession, stopPc>>
  BY <1>1, <1>2 DEF OnceInv, InQueue
<1>3. ASSUME NEW s \in Sessions, Complete(s) PROVE OnceInv'
  <2>1. /\ s \notin completed /\ UNCHANGED <<waiting, wsession, stopPc>>
        /\ queue' = queue \/ (stopPc = "running" /\ queue' = Append(queue, s))
    BY <1>3 DEF Complete, schedule_auto_classification, HandlerFrame, stopVars, workerVars
  <2>2. CASE queue' = queue
    BY <1>2, <2>1, <2>2
  <2>3. CASE stopPc = "running" /\ queue' = Append(queue, s)
    <3>1. queue \in Seq(Sessions) /\ IsInjective(queue)
      BY <2>3 DEF HandsInv, OnceInv
    <3>2. Range(queue) \subseteq InMemory
      BY <3>1, RangeOfSeq DEF InMemory
    <3>3. IsInjective(Append(queue, s))
      BY <1>b, <2>1, <3>1, <3>2, InjectiveAppend
    <3>4. Range(Append(queue, s)) = Range(queue) \cup {s}
      BY <3>1, RangeAppend
    <3>5. \A w \in Workers : wsession[w] # s
      BY <1>a, <1>b, <2>1 DEF InMemory, Range
    <3>6. \A w \in Workers : wsession'[w] \notin InQueue'
      BY <2>1, <2>3, <3>4, <3>5 DEF OnceInv, InQueue
    <3>. QED
      BY <1>1, <2>1, <2>3, <3>3, <3>6 DEF OnceInv
  <2>. QED
    BY <2>1, <2>2, <2>3
<1>4. ASSUME NEW w \in Workers, WorkerGet(w) PROVE OnceInv'
  <2>1. queue' = Tail(queue) /\ queue # <<>> /\ UNCHANGED <<waiting, stopPc>>
    BY <1>4, WorkerLeaves DEF WorkerStep, WorkerGet
  <2>2. Range(queue') \subseteq Range(queue)
    BY <1>a, <2>1, RangeTail
  <2>3. CASE Head(queue) = WorkerStop
    <3>1. wsession' = wsession
      BY <1>4, <2>3 DEF WorkerGet
    <3>2. stopPc \in {"sentinels", "stopped"}
      <4>. SUFFICES ASSUME stopPc \in {"running", "keep", "join"} PROVE FALSE
        BY DEF TypeOK
      <4>1. queue \in Seq(Sessions)
        BY DEF HandsInv
      <4>. QED
        BY <1>a, <2>1, <2>3, <4>1, RangeTail
    <3>. QED
      BY <1>1, <2>1, <2>2, <3>1, <3>2 DEF OnceInv, InQueue
  <2>4. CASE Head(queue) # WorkerStop
    <3>1. /\ stopPc = "running" /\ waiting = <<>>
          /\ Head(queue) \in Sessions /\ Range(queue) = {Head(queue)} \cup Range(Tail(queue))
          /\ Head(queue) \notin Range(Tail(queue)) /\ IsInjective(Tail(queue))
      BY <1>4, <2>4, GetsWhileRunning
    <3>2. wsession' = [wsession EXCEPT ![w] = Head(queue)]
      BY <1>4, <2>4 DEF WorkerGet
    <3>3. \A v \in Workers : wsession[v] # Head(queue)
      BY <3>1 DEF OnceInv, InQueue
    <3>4. \A v \in Workers : wsession'[v] \notin InQueue'
      BY <1>a, <2>1, <3>1, <3>2, RangeEmpty DEF OnceInv, InQueue
    <3>5. \A u, v \in Workers : wsession'[u] = wsession'[v] /\ wsession'[u] # NoSession => u = v
      BY <1>a, <3>2, <3>3 DEF OnceInv
    <3>. QED
      BY <1>1, <2>1, <3>1, <3>4, <3>5 DEF OnceInv
  <2>. QED
    BY <2>3, <2>4
<1>5. ASSUME NEW w \in Workers, WorkerGivesUp(w) \/ WorkerKeep(w) \/ WorkerAlert(w) PROVE OnceInv'
  <2>1. UNCHANGED <<queue, waiting, stopPc>> /\ wsession' = [wsession EXCEPT ![w] = NoSession]
    BY <1>5, WorkerLeaves DEF WorkerStep, WorkerGivesUp, WorkerKeep, WorkerAlert, Done
  <2>. QED
    BY <1>1, <1>a, <2>1 DEF OnceInv, InQueue
<1>6. ASSUME NEW w \in Workers, WorkerSave(w) \/ WorkerUnavailable(w) \/ WorkerCommitLost(w) PROVE OnceInv'
  BY <1>2, <1>6, WorkerLeaves DEF WorkerStep, WorkerSave, WorkerUnavailable, WorkerCommitLost
<1>7. CASE StopIntake
  <2>1. waiting' = queue /\ queue' = <<>> /\ stopPc' \in {"join", "keep"} /\ wsession' = wsession
        /\ waiting = <<>>
    BY <1>7, StopLeaves DEF StopIntake, HandsInv
  <2>. QED
    BY <1>1, <2>1, RangeEmpty DEF OnceInv, InQueue
<1>8. CASE StopKeep
  <2>1. waiting' = <<>> /\ queue' = queue /\ stopPc' = "join" /\ stopPc = "keep" /\ wsession' = wsession
    BY <1>8, StopLeaves DEF StopStep, StopKeep
  <2>. QED
    BY <1>1, <2>1, RangeEmpty DEF OnceInv, InQueue
<1>9. CASE StopJoin \/ StopGather
  <2>1. waiting' = waiting /\ queue' = queue /\ stopPc' \in {"sentinels", "stopped"} /\ wsession' = wsession
    BY <1>9, StopLeaves DEF StopStep, StopJoin, StopGather
  <2>. QED
    BY <1>1, <2>1 DEF OnceInv, InQueue
<1>10. CASE StopSentinel
  <2>1. waiting' = waiting /\ queue' = Append(queue, WorkerStop) /\ stopPc' = stopPc
        /\ stopPc = "sentinels" /\ wsession' = wsession
    BY <1>10, StopLeaves DEF StopStep, StopSentinel
  <2>2. Range(Append(queue, WorkerStop)) = Range(queue) \cup {WorkerStop}
    <3>1. queue \in Seq(Sessions \cup {WorkerStop}) /\ WorkerStop \in Sessions \cup {WorkerStop}
      BY <1>a
    <3>. QED
      BY <3>1, RangeAppend
  <2>. QED
    BY <1>1, <1>a, <2>1, <2>2 DEF OnceInv, InQueue
<1>11. CASE Crash \/ Exit
  <2>1. waiting' = <<>> /\ queue' = <<>> /\ wsession' = [w \in Workers |-> NoSession]
    BY <1>11 DEF Crash, Exit, MemoryGone
  <2>. QED
    BY <1>1, <2>1, RangeEmpty DEF OnceInv, InQueue, IsInjective
<1>12. ASSUME NEW s \in Sessions, InvalidRecord(s) PROVE OnceInv'
  BY <1>2, <1>12 DEF InvalidRecord, HandlerFrame, workerVars, stopVars
<1>13. CASE CatchUp \/ Import \/ DbChange \/ Start \/ UNCHANGED vars
  BY <1>2, <1>13, CatchUpLeaves, ImportLeaves, OthersLeave
<1>. QED
  BY <1>3, <1>4, <1>5, <1>6, <1>7, <1>8, <1>9, <1>10, <1>11, <1>12, <1>13 DEF Next, WorkerStep, StopStep

(* The runs a session may have.                                            *)
RunHistories ==
    {<<>>, <<"worker">>, <<"catch-up">>, <<"import">>,
     <<"worker", "import">>, <<"import", "worker">>}

(* Neither a worker nor a catch-up has written a run of it.                *)
NotByHoneypot(s) == runs[s] \in {<<>>, <<"import">>}

(* Who wrote what: the honeypot has stored no session that still waits for *)
(* its worker, a catch-up about to insert inserts the first run, an import *)
(* the first or the second after a worker's, and never both the same.      *)
RunsInv ==
    /\ \A s \in Sessions : runs[s] \in RunHistories
    /\ \A s \in InQueue : NotByHoneypot(s)
    /\ \A w \in Workers : wpc[w] = "store" => NotByHoneypot(wsession[w])
    /\ cuPc = "insert" => ~Stored(lines[next])
    /\ impPc = "insert" => runs[batch[impNext]] \in {<<>>, <<"worker">>}
    /\ cuPc = "insert" /\ impPc = "insert" => lines[next] # batch[impNext]

(* Sequences of the same elements are the same.                            *)
LEMMA SameElements ==
    ASSUME NEW S, NEW p \in Seq(S), NEW q \in Seq(S), Len(p) = Len(q),
           \A i \in 1..Len(p) : p[i] = q[i]
    PROVE  p = q
OBVIOUS

(* A second run after a first one.                                         *)
LEMMA PairAppended ==
    ASSUME NEW S, NEW a \in S, NEW b \in S
    PROVE  Append(<<a>>, b) = <<a, b>>
<1> DEFINE p == Append(<<a>>, b)
<1>1. <<a>> \in Seq(S) /\ Len(<<a>>) = 1 /\ <<a>>[1] = a
  OBVIOUS
<1>2. p \in Seq(S) /\ Len(p) = 2 /\ p[1] = a /\ p[2] = b
  BY <1>1
<1> DEFINE q == <<a, b>>
<1>3. q \in Seq(S) /\ Len(q) = 2 /\ q[1] = a /\ q[2] = b
  OBVIOUS
<1>. HIDE DEF p, q
<1>4. \A i \in 1..Len(p) : p[i] = q[i]
  <2>1. \A i \in 1..2 : i = 1 \/ i = 2
    OBVIOUS
  <2>. QED
    BY <1>2, <1>3, <2>1
<1>5. p = q
  BY <1>2, <1>3, <1>4, SameElements
<1>. QED
  BY <1>5 DEF p, q

(* One more run of each writer. *)
LEMMA RunAppended ==
    /\ Append(<<>>, "worker") = <<"worker">> /\ Append(<<>>, "catch-up") = <<"catch-up">>
    /\ Append(<<>>, "import") = <<"import">>
    /\ Append(<<"import">>, "worker") = <<"import", "worker">>
    /\ Append(<<"worker">>, "import") = <<"worker", "import">>
<1>1. "worker" \in {"worker", "import"} /\ "import" \in {"worker", "import"}
  OBVIOUS
<1>2. Append(<<"import">>, "worker") = <<"import", "worker">>
  BY <1>1, PairAppended
<1>3. Append(<<"worker">>, "import") = <<"worker", "import">>
  BY <1>1, PairAppended
<1>4. /\ Append(<<>>, "worker") = <<"worker">> /\ Append(<<>>, "catch-up") = <<"catch-up">>
      /\ Append(<<>>, "import") = <<"import">>
  OBVIOUS
<1>. QED
  BY <1>2, <1>3, <1>4

(* The histories of one run and of none are different.                     *)
LEMMA RunsDiffer ==
    <<"worker">> # <<"import">> /\ <<"worker">> # <<>> /\ <<"import">> # <<>>
OBVIOUS

(* The lines a catch-up and an import are at are sessions, and the former  *)
(* is in the working copy.                                                 *)
LEMMA AtInsert ==
    ASSUME TypeOK, HandsInv, CatchUpInv, OnceInv
    PROVE  /\ cuPc = "insert" => lines[next] \in Sessions /\ lines[next] \in OnDisk
                                 /\ lines[next] \notin InMemory
           /\ impPc = "insert" => batch[impNext] \in Sessions
<1>a. lines \in Seq(Sessions) /\ batch \in Seq(Sessions)
  BY DEF TypeOK
<1>1. ASSUME cuPc = "insert" PROVE lines[next] \in Sessions /\ lines[next] \in Range(working)
  BY <1>a, <1>1 DEF CatchUpInv, Range
<1>2. ASSUME impPc = "insert" PROVE batch[impNext] \in Sessions
  BY <1>a, <1>2 DEF HandsInv
<1>. QED
  BY <1>1, <1>2 DEF OnDisk, OnceInv

(* No step writes a run where another one might: RunsInv is kept.          *)
LEMMA RunsStep ==
    ASSUME TypeOK, HandsInv, CatchUpInv, OnceInv, CompletedInv, RunsInv, [Next]_vars
    PROVE  RunsInv'
<1>a. /\ wsession \in [Workers -> Sessions \cup {NoSession}]
      /\ queue \in Seq(Sessions \cup {WorkerStop})
      /\ waiting \in Seq(Sessions)
      /\ wpc \in [Workers -> {"idle", "store", "keep", "alert", "stopped"}]
      /\ NoSession \notin Sessions /\ WorkerStop \notin Sessions
      /\ runs \in [Sessions -> Seq({"worker", "catch-up", "import"})]
  BY PipelineConstants DEF TypeOK
<1>b. \A w \in Workers : wpc[w] \in {"store", "keep", "alert"} => wsession[w] \in Sessions /\ wsession[w] \in InMemory
  BY <1>a DEF HandsInv, InMemory, Range
<1>c. InQueue \subseteq InMemory /\ InQueue \subseteq Sessions
  BY DEF InQueue, InMemory
(* Steps that write no run. *)
<1>1. CASE /\ runs' = runs
           /\ \A s \in InQueue' : s \in InQueue \/ runs[s] = <<>>
           /\ \A w \in Workers : wpc'[w] = "store" => \/ wpc[w] = "store" /\ wsession'[w] = wsession[w]
                                                      \/ wsession'[w] \in InQueue
           /\ UNCHANGED <<cuPc, lines, next, impPc, batch, impNext>>
  BY <1>1 DEF RunsInv, NotByHoneypot, Stored
<1>2. ASSUME NEW s \in Sessions, Complete(s) \/ InvalidRecord(s) PROVE RunsInv'
  <2>1. /\ UNCHANGED <<runs, wpc, wsession, waiting, cuPc, lines, next, impPc, batch, impNext>>
        /\ queue' = queue \/ queue' = Append(queue, s)
        /\ s \notin completed
    BY <1>2 DEF Complete, InvalidRecord, schedule_auto_classification, HandlerFrame, workerVars, stopVars, cuVars, impVars
  <2>2. Range(Append(queue, s)) = Range(queue) \cup {s}
    <3>1. queue \in Seq(Sessions \cup {WorkerStop}) /\ s \in Sessions \cup {WorkerStop}
      BY <1>a
    <3>. QED
      BY <3>1, RangeAppend
  <2>3. runs[s] = <<>>
    BY <2>1 DEF CompletedInv, Stored
  <2>4. \A t \in InQueue' : t \in InQueue \/ runs[t] = <<>>
    BY <2>1, <2>2, <2>3 DEF InQueue
  <2>. QED
    BY <1>1, <2>1, <2>4
<1>3. ASSUME NEW w \in Workers, WorkerGet(w) PROVE RunsInv'
  <2>1. /\ UNCHANGED <<runs, waiting, cuPc, lines, next, impPc, batch, impNext>>
        /\ queue' = Tail(queue) /\ queue # <<>>
    BY <1>3, WorkerLeaves DEF WorkerStep, WorkerGet
  <2>2. Range(queue) = {Head(queue)} \cup Range(Tail(queue)) /\ Head(queue) \in Sessions \cup {WorkerStop}
    BY <1>a, <2>1, RangeTail
  <2>3. \A s \in InQueue' : s \in InQueue
    BY <2>1, <2>2 DEF InQueue
  <2>4. \A v \in Workers : wpc'[v] = "store" => \/ wpc[v] = "store" /\ wsession'[v] = wsession[v]
                                                \/ wsession'[v] \in InQueue
    <3>1. CASE Head(queue) = WorkerStop
      BY <1>3, <1>a, <3>1 DEF WorkerGet
    <3>2. CASE Head(queue) # WorkerStop
      <4>1. Head(queue) \in InQueue
        BY <2>2, <3>2 DEF InQueue
      <4>. QED
        BY <1>3, <1>a, <3>2, <4>1 DEF WorkerGet
    <3>. QED
      BY <3>1, <3>2
  <2>. QED
    BY <1>1, <2>1, <2>3, <2>4
<1>4. ASSUME NEW w \in Workers, WorkerUnavailable(w) \/ WorkerGivesUp(w) \/ WorkerKeep(w) \/ WorkerAlert(w)
      PROVE  RunsInv'
  <2>1. /\ UNCHANGED <<runs, queue, waiting, cuPc, lines, next, impPc, batch, impNext>>
        /\ \A v \in Workers : wpc'[v] = "store" => wpc[v] = "store" /\ wsession'[v] = wsession[v]
    BY <1>a, <1>4, WorkerLeaves DEF WorkerStep, WorkerUnavailable, WorkerGivesUp, WorkerKeep, WorkerAlert, Done
  <2>. QED
    BY <1>1, <2>1 DEF InQueue
<1>5. ASSUME NEW w \in Workers, WorkerSave(w) \/ WorkerCommitLost(w) PROVE RunsInv'
  <2> DEFINE s == wsession[w]
  <2>1. /\ UNCHANGED <<queue, waiting, wsession, cuPc, lines, next, impPc, batch, impNext>>
        /\ runs' = [runs EXCEPT ![s] = Append(@, "worker")] /\ wpc[w] = "store"
        /\ wpc' = [wpc EXCEPT ![w] = "alert"] \/ wpc' = [wpc EXCEPT ![w] = "keep"]
    BY <1>5, WorkerLeaves DEF WorkerStep, WorkerSave, WorkerCommitLost, WorkerWrites, Storing
  <2>2. s \in Sessions /\ s \in InMemory /\ s \notin InQueue
    BY <1>b, <2>1 DEF OnceInv
  <2>3. runs[s] \in {<<>>, <<"import">>}
    BY <2>1 DEF RunsInv, NotByHoneypot
  <2>4. runs'[s] \in {<<"worker">>, <<"import", "worker">>} /\ (runs[s] = <<>> => runs'[s] = <<"worker">>)
    BY <1>a, <2>1, <2>2, <2>3, RunAppended
  <2>5. \A t \in Sessions : t # s => runs'[t] = runs[t]
    BY <1>a, <2>1
  <2>6. \A v \in Workers : wpc'[v] = "store" => wpc[v] = "store" /\ wsession[v] # s /\ wsession[v] \in Sessions
    BY <1>a, <1>b, <2>1, <2>2 DEF OnceInv
  <2>7. cuPc = "insert" => lines[next] # s /\ lines[next] \in Sessions
    BY <2>2, AtInsert
  <2>8. impPc = "insert" => batch[impNext] \in Sessions
    BY AtInsert
  <2>9. impPc = "insert" => runs'[batch[impNext]] \in {<<>>, <<"worker">>}
    BY <2>3, <2>4, <2>5, <2>8 DEF RunsInv
  <2>10. \A t \in InQueue : t # s /\ t \in Sessions
    BY <1>c, <2>2
  <2>11. InQueue' = InQueue
    BY <2>1 DEF InQueue
  <2>12. \A t \in Sessions : runs'[t] \in RunHistories
    BY <2>4, <2>5 DEF RunsInv, RunHistories
  <2>. HIDE DEF s
  <2>. QED
    BY <2>1, <2>5, <2>6, <2>7, <2>9, <2>10, <2>11, <2>12 DEF RunsInv, NotByHoneypot, Stored
<1>6. CASE StopIntake \/ StopStep
  <2>1. UNCHANGED <<runs, wpc, wsession, cuPc, lines, next, impPc, batch, impNext>>
    BY <1>6, StopLeaves
  <2>2. InQueue' \subseteq InQueue
    <3>1. CASE StopIntake
      BY <3>1, RangeEmpty DEF StopIntake, InQueue
    <3>2. CASE StopKeep
      BY <3>2, RangeEmpty DEF StopKeep, InQueue
    <3>3. CASE StopJoin \/ StopGather
      BY <3>3 DEF StopJoin, StopGather, InQueue
    <3>4. CASE StopSentinel
      <4>1. Range(Append(queue, WorkerStop)) = Range(queue) \cup {WorkerStop}
        <5>1. queue \in Seq(Sessions \cup {WorkerStop}) /\ WorkerStop \in Sessions \cup {WorkerStop}
          BY <1>a
        <5>. QED
          BY <5>1, RangeAppend
      <4>. QED
        BY <1>a, <3>4, <4>1 DEF StopSentinel, InQueue
    <3>. QED
      BY <1>6, <3>1, <3>2, <3>3, <3>4 DEF StopStep
  <2>. QED
    BY <1>1, <2>1, <2>2
<1>7. CASE CuStart \/ CuTake \/ CuBatch \/ CuSkip \/ CuUnavailable \/ CuGivesUpSession \/ CuBatchDone
             \/ CuFinish \/ CuPutBack \/ CuUnlink \/ CuAlert
  <2>1. UNCHANGED <<queue, waiting, wpc, wsession, impPc, batch, impNext>>
    BY <1>7, CatchUpLeaves DEF CatchUp
  <2>2. runs' = runs /\ cuPc' # "insert"
    BY <1>7 DEF CuStart, CuTake, CuBatch, CuSkip, CuUnavailable, CuGivesUpSession, CuBatchDone,
       CuFinish, CuPutBack, CuUnlink, CuAlert, PassOver, CuAtSession
  <2>. QED
    BY <2>1, <2>2 DEF RunsInv, NotByHoneypot, InQueue
<1>8. CASE CuCheck
  <2>1. UNCHANGED <<queue, waiting, wpc, wsession, impPc, batch, impNext>>
    BY <1>8, CatchUpLeaves DEF CatchUp
  <2>2. /\ runs' = runs /\ lines' = lines /\ cuPc = "session"
        /\ cuPc' = "insert" => next' = next /\ ~Stored(lines[next])
        /\ impPc = "insert" => batch[impNext] # lines[next]
    BY <1>8 DEF CuCheck, CuAtSession, LockedByImport
  <2>. QED
    BY <2>1, <2>2 DEF RunsInv, NotByHoneypot, InQueue, Stored
<1>9. CASE CuInsert \/ CuCommitLost
  <2> DEFINE s == lines[next]
  <2>1. UNCHANGED <<queue, waiting, wpc, wsession, impPc, batch, impNext>>
    BY <1>9, CatchUpLeaves DEF CatchUp
  <2>2. /\ runs' = [runs EXCEPT ![s] = Append(@, "catch-up")]
        /\ cuPc = "insert" /\ cuPc' # "insert"
    BY <1>9 DEF CuInsert, CuCommitLost, CuWrites
  <2>3. s \in Sessions /\ s \notin InMemory /\ runs[s] = <<>>
    BY <2>2, AtInsert DEF RunsInv, Stored
  <2>4. runs'[s] = <<"catch-up">> /\ \A t \in Sessions : t # s => runs'[t] = runs[t]
    BY <1>a, <2>2, <2>3, RunAppended
  <2>5. impPc = "insert" => batch[impNext] \in Sessions /\ batch[impNext] # s
    BY <2>2, AtInsert DEF RunsInv
  <2>6. \A t \in InQueue : t # s /\ t \in Sessions
    BY <1>c, <2>3
  <2>7. \A v \in Workers : wpc[v] = "store" => wsession[v] # s /\ wsession[v] \in Sessions
    BY <1>b, <2>3
  <2>8. \A t \in Sessions : runs'[t] \in RunHistories
    BY <2>4 DEF RunsInv, RunHistories
  <2>9. InQueue' = InQueue
    BY <2>1 DEF InQueue
  <2>. HIDE DEF s
  <2>. QED
    BY <2>1, <2>2, <2>4, <2>5, <2>6, <2>7, <2>8, <2>9 DEF RunsInv, NotByHoneypot
<1>10. CASE ImpStart \/ ImpBatch \/ ImpSkip \/ ImpFail \/ ImpBatchDone \/ ImpEof \/ ImpEnd
  <2>1. UNCHANGED <<queue, waiting, wpc, wsession, cuPc, lines, next>>
    BY <1>10, ImportLeaves DEF Import
  <2>2. runs' = runs /\ impPc' # "insert"
    BY <1>10 DEF ImpStart, ImpBatch, ImpSkip, ImpFail, ImpBatchDone, ImpEof, ImpEnd, ImpAtSession
  <2>. QED
    BY <2>1, <2>2 DEF RunsInv, NotByHoneypot, InQueue, Stored
<1>11. CASE ImpCheck
  <2>1. UNCHANGED <<queue, waiting, wpc, wsession, cuPc, lines, next>>
    BY <1>11, ImportLeaves DEF Import
  <2>2. /\ runs' = runs /\ batch' = batch /\ impPc = "session"
        /\ impPc' = "insert" => impNext' = impNext /\ runs[batch[impNext]] = <<>>
        /\ cuPc = "insert" => lines[next] # batch[impNext]
    BY <1>11 DEF ImpCheck, ImpAtSession, LockedByCatchUp, Stored
  <2>. QED
    BY <2>1, <2>2 DEF RunsInv, NotByHoneypot, InQueue, Stored
<1>12. CASE ImpInsert
  <2> DEFINE s == batch[impNext]
  <2>1. UNCHANGED <<queue, waiting, wpc, wsession, cuPc, lines, next>>
    BY <1>12, ImportLeaves DEF Import
  <2>2. /\ runs' = [runs EXCEPT ![s] = Append(@, "import")]
        /\ impPc = "insert" /\ impPc' # "insert"
    BY <1>12 DEF ImpInsert
  <2>3. s \in Sessions /\ runs[s] \in {<<>>, <<"worker">>}
    BY <2>2, AtInsert DEF RunsInv
  <2>4. /\ runs[s] = <<>> => runs'[s] = <<"import">>
        /\ runs[s] = <<"worker">> => runs'[s] = <<"worker", "import">>
        /\ \A t \in Sessions : t # s => runs'[t] = runs[t]
    BY <1>a, <2>2, <2>3, RunAppended
  <2>5. cuPc = "insert" => lines[next] \in Sessions /\ lines[next] # s
    BY <2>2, AtInsert DEF RunsInv
  <2>6. \A t \in Sessions : NotByHoneypot(t) => runs'[t] \in {<<>>, <<"import">>}
    BY <2>3, <2>4, RunsDiffer DEF NotByHoneypot
  <2>7. \A v \in Workers : wpc[v] = "store" => wsession[v] \in Sessions
    BY <1>b
  <2>8. \A t \in Sessions : runs'[t] \in RunHistories
    BY <2>3, <2>4 DEF RunsInv, RunHistories
  <2>9. InQueue' = InQueue
    BY <2>1 DEF InQueue
  <2>. HIDE DEF s
  <2>. QED
    BY <1>c, <2>1, <2>2, <2>4, <2>5, <2>6, <2>7, <2>8, <2>9 DEF RunsInv, NotByHoneypot, Stored
<1>13. CASE Crash \/ Exit
  <2>1. /\ UNCHANGED <<runs, impPc, batch, impNext>> /\ cuPc' = "idle"
        /\ queue' = <<>> /\ waiting' = <<>> /\ wpc' = [w \in Workers |-> "idle"]
    BY <1>13 DEF Crash, Exit, MemoryGone, PassOver, impVars
  <2>. QED
    BY <2>1, RangeEmpty DEF RunsInv, InQueue
<1>14. CASE DbChange \/ Start \/ UNCHANGED vars
  BY <1>1, <1>14, OthersLeave DEF InQueue
<1>. QED
  BY <1>2, <1>3, <1>4, <1>5, <1>6, <1>7, <1>8, <1>9, <1>10, <1>11, <1>12, <1>13, <1>14
     DEF Next, WorkerStep, StopStep, CatchUp, Import

(* A session is announced after it has left the memory, or by the pass     *)
(* that stored it.                                                         *)
AnnounceInv ==
    /\ AnnouncedOnce
    /\ \A s \in InMemory : alerted[s] = 0
    /\ \A s \in fresh : alerted[s] = 0 /\ Stored(s) /\ s \notin InMemory

(* Only a session that has just finished comes into memory.                *)
LEMMA NewInMemory ==
    ASSUME TypeOK, HandsInv, CatchUpInv, AlertInv, OnceInv, CompletedInv, [Next]_vars
    PROVE  \A s \in InMemory' : s \in InMemory \/ (s \in Sessions /\ ~Stored(s))
<1>1. Moves
  BY StepMoves
<1>2. \A s \in InMemory' : s \in InMemory \/ s \in Sessions \ completed
  BY <1>1 DEF Moves, Arrives, Leaves, Writes, Reports, Clears, Forgets, Stays
<1>. QED
  BY <1>2 DEF CompletedInv

(* Every step announces a session at most once.                            *)
LEMMA AnnounceStep ==
    ASSUME TypeOK, HandsInv, CatchUpInv, AlertInv, OnceInv, CompletedInv, RunsInv, AnnounceInv,
           [Next]_vars
    PROVE  AnnounceInv'
<1>a. /\ wsession \in [Workers -> Sessions \cup {NoSession}] /\ alerted \in [Sessions -> Nat]
      /\ fresh \subseteq Sessions
  BY DEF TypeOK
<1>b. \A s \in Sessions : Stored(s) => Stored(s)'
  BY RunsGrow
<1>c. \A s \in InMemory' : s \in InMemory \/ (s \in Sessions /\ ~Stored(s))
  BY NewInMemory
<1>d. InMemory \subseteq Sessions /\ InMemory' \subseteq Sessions
  BY DEF InMemory
<1>e. \A s \in Sessions : ~Stored(s) => alerted[s] = 0
  BY <1>a DEF AnnounceInv, AnnouncedOnce
(* Steps that announce nothing. *)
<1>1. CASE alerted' = alerted /\ fresh' \subseteq fresh
  BY <1>1, <1>a, <1>b, <1>c, <1>d, <1>e DEF AnnounceInv, AnnouncedOnce
<1>2. CASE CuInsert
  <2>1. alerted' = alerted /\ fresh' = fresh \cup {lines[next]} /\ cuPc = "insert"
        /\ runs' = [runs EXCEPT ![lines[next]] = Append(@, "catch-up")]
    BY <1>2 DEF CuInsert, CuWrites
  <2>2. lines[next] \in Sessions /\ lines[next] \notin InMemory /\ ~Stored(lines[next])
    BY <2>1, AtInsert DEF RunsInv
  <2>3. PICK s \in Sessions : s = lines[next]
    BY <2>2
  <2>4. runs'[s] # <<>>
    <3>1. runs \in [Sessions -> Seq({"worker", "catch-up", "import"})]
      BY DEF TypeOK
    <3>2. runs'[s] = <<"catch-up">>
      BY <2>1, <2>2, <2>3, <3>1, RunAppended DEF Stored
    <3>. QED
      BY <3>2
  <2>5. InMemory' = InMemory
    BY <1>2, CatchUpLeaves DEF CatchUp, InMemory
  <2>6. \A t \in fresh' : t \in fresh \/ t = s
    BY <2>1, <2>3
  <2>7. \A t \in fresh' : alerted[t] = 0 /\ Stored(t)' /\ t \notin InMemory
    BY <2>2, <2>3, <2>4, <2>6, <1>a, <1>b, <1>e DEF AnnounceInv, Stored
  <2>. QED
    BY <2>1, <2>5, <2>7, <1>b DEF AnnounceInv, AnnouncedOnce
<1>3. ASSUME NEW w \in Workers, WorkerAlert(w) PROVE AnnounceInv'
  <2> DEFINE s == wsession[w]
  <2>1. /\ alerted' = [alerted EXCEPT ![s] = @ + 1] /\ wpc[w] = "alert" /\ Done(w)
        /\ UNCHANGED <<queue, waiting, fresh, runs>>
    BY <1>3 DEF WorkerAlert, WorkerFrame, stopVars, cuVars
  <2>2. s \in Sessions /\ Stored(s)
    BY <1>a, <2>1 DEF HandsInv, AlertInv
  <2>3. InMemory' = InMemory \ {s} /\ s \in InMemory
    BY <2>1, <2>2, HandEmpties
  <2>4. alerted[s] = 0 /\ s \notin fresh
    BY <2>3 DEF AnnounceInv
  <2>5. alerted'[s] = 1 /\ \A t \in Sessions : t # s => alerted'[t] = alerted[t]
    BY <1>a, <2>1, <2>2, <2>4
  <2>6. \A t \in Sessions : Stored(t)' <=> Stored(t)
    BY <2>1 DEF Stored
  <2>. HIDE DEF s
  <2>7. AnnouncedOnce'
    BY <2>2, <2>5, <2>6 DEF AnnounceInv, AnnouncedOnce
  <2>8. \A t \in InMemory' : alerted'[t] = 0
    BY <1>d, <2>3, <2>5 DEF AnnounceInv
  <2>9. \A t \in fresh' : alerted'[t] = 0 /\ Stored(t)' /\ t \notin InMemory'
    BY <1>a, <2>1, <2>3, <2>4, <2>5, <2>6 DEF AnnounceInv
  <2>. QED
    BY <2>7, <2>8, <2>9 DEF AnnounceInv
<1>4. CASE CuAlert
  <2>1. /\ alerted' = [s \in Sessions |-> IF s \in fresh THEN alerted[s] + 1 ELSE alerted[s]]
        /\ fresh' = {} /\ runs' = runs
    BY <1>4 DEF CuAlert, PassOver
  <2>2. InMemory' = InMemory
    BY <1>4, CatchUpLeaves DEF CatchUp, InMemory
  <2>3. \A s \in Sessions : /\ s \in fresh => alerted'[s] = 1 /\ Stored(s) /\ s \notin InMemory
                            /\ s \notin fresh => alerted'[s] = alerted[s]
    BY <1>a, <2>1 DEF AnnounceInv
  <2>4. AnnouncedOnce'
    BY <2>1, <2>3 DEF AnnounceInv, AnnouncedOnce, Stored
  <2>5. \A s \in InMemory' : alerted'[s] = 0
    BY <1>d, <2>2, <2>3 DEF AnnounceInv
  <2>. QED
    BY <2>1, <2>4, <2>5 DEF AnnounceInv
<1>5. ASSUME NEW s \in Sessions, Complete(s) \/ InvalidRecord(s) PROVE AnnounceInv'
  BY <1>1, <1>5 DEF Complete, InvalidRecord, HandlerFrame, cuVars
<1>6. ASSUME NEW w \in Workers, WorkerStep(w), ~WorkerAlert(w) PROVE AnnounceInv'
  BY <1>1, <1>6, WorkerLeaves DEF WorkerStep, WorkerGet, WorkerSave, WorkerUnavailable,
     WorkerCommitLost, WorkerGivesUp, WorkerKeep
<1>7. CASE StopIntake \/ StopStep \/ Import \/ DbChange \/ Start \/ UNCHANGED vars
  BY <1>1, <1>7, StopLeaves, ImportLeaves, OthersLeave
<1>8. CASE CatchUp /\ ~CuInsert /\ ~CuAlert
  BY <1>1, <1>8 DEF CatchUp, CuStart, CuTake, CuBatch, CuSkip, CuCheck, CuUnavailable, CuCommitLost,
     CuGivesUpSession, CuBatchDone, CuFinish, CuPutBack, CuUnlink, PassOver
<1>9. CASE Crash \/ Exit
  BY <1>1, <1>9 DEF Crash, Exit, MemoryGone, PassOver
<1>. QED
  BY <1>2, <1>3, <1>4, <1>5, <1>6, <1>7, <1>8, <1>9 DEF Next

(* The sentinels that were put are on the queue or have stopped a worker.  *)
StoppedWorkers == {w \in Workers : wpc[w] = "stopped"}

SentinelInv ==
    /\ stopPc \in {"running", "keep", "join"} => sentinels = 0 /\ StoppedWorkers = {}
    /\ stopPc \in {"sentinels", "stopped"} =>
         sentinels = Cardinality(StoppedWorkers) + Len(queue)
    /\ sentinels <= Cardinality(Workers)

(* Every sentinel put is accounted for after every step.                   *)
LEMMA SentinelStep ==
    ASSUME TypeOK, HandsInv, OnceInv, SentinelInv, [Next]_vars
    PROVE  SentinelInv'
<1>a. /\ queue \in Seq(Sessions \cup {WorkerStop})
      /\ wpc \in [Workers -> {"idle", "store", "keep", "alert", "stopped"}]
      /\ stopPc \in {"running", "keep", "join", "sentinels", "stopped"} /\ sentinels \in Nat
      /\ WorkerStop \notin Sessions /\ IsFiniteSet(Workers)
  BY PipelineConstants DEF TypeOK
<1>b. IsFiniteSet(StoppedWorkers) /\ Cardinality(StoppedWorkers) \in Nat /\ Cardinality(Workers) \in Nat
  BY <1>a, FS_Subset, FS_CardinalityType DEF StoppedWorkers
(* Steps of a worker with its session in hand, and of the others. *)
<1>1. CASE /\ UNCHANGED <<stopPc, sentinels>> /\ StoppedWorkers' = StoppedWorkers
           /\ queue' = queue \/ stopPc = "running"
  BY <1>1 DEF SentinelInv
<1>2. ASSUME NEW s \in Sessions, Complete(s) \/ InvalidRecord(s) PROVE SentinelInv'
  BY <1>1, <1>2 DEF Complete, InvalidRecord, schedule_auto_classification, HandlerFrame, workerVars,
     stopVars, StoppedWorkers
<1>3. ASSUME NEW w \in Workers, WorkerGet(w) PROVE SentinelInv'
  <2>1. UNCHANGED <<stopPc, sentinels>> /\ queue # <<>> /\ queue' = Tail(queue) /\ wpc[w] = "idle"
    BY <1>3, WorkerLeaves DEF WorkerStep, WorkerGet
  <2>2. CASE Head(queue) = WorkerStop
    <3>1. wpc' = [wpc EXCEPT ![w] = "stopped"]
      BY <1>3, <2>2 DEF WorkerGet
    <3>2. StoppedWorkers' = StoppedWorkers \cup {w} /\ w \notin StoppedWorkers
      BY <1>a, <2>1, <3>1 DEF StoppedWorkers
    <3>3. Cardinality(StoppedWorkers') = Cardinality(StoppedWorkers) + 1
      BY <1>b, <3>2, FS_AddElement
    <3>4. Len(queue') = Len(queue) - 1 /\ Len(queue) \in Nat
      BY <1>a, <2>1
    <3>5. stopPc \in {"sentinels", "stopped"}
      <4>1. SUFFICES ASSUME queue \in Seq(Sessions) PROVE FALSE
        BY <1>a DEF HandsInv
      <4>. QED
        BY <1>a, <2>1, <2>2, <4>1, RangeTail
    <3>. QED
      BY <1>b, <2>1, <3>3, <3>4, <3>5 DEF SentinelInv
  <2>3. CASE Head(queue) # WorkerStop
    <3>1. stopPc = "running" /\ wpc' = [wpc EXCEPT ![w] = "store"]
      BY <1>3, <2>3, GetsWhileRunning DEF WorkerGet
    <3>2. StoppedWorkers' = StoppedWorkers
      BY <1>a, <2>1, <3>1 DEF StoppedWorkers
    <3>. QED
      BY <1>1, <2>1, <3>1, <3>2
  <2>. QED
    BY <2>2, <2>3
<1>4. ASSUME NEW w \in Workers, WorkerStep(w), ~WorkerGet(w) PROVE SentinelInv'
  <2>1. UNCHANGED <<stopPc, sentinels, queue>> /\ wpc[w] # "stopped"
        /\ \E pc \in {"idle", "keep", "alert"} : wpc' = [wpc EXCEPT ![w] = pc]
    BY <1>4, WorkerLeaves DEF WorkerStep, WorkerSave, WorkerUnavailable, WorkerCommitLost,
       WorkerGivesUp, WorkerKeep, WorkerAlert, Storing, Done
  <2>2. StoppedWorkers' = StoppedWorkers
    BY <1>a, <2>1 DEF StoppedWorkers
  <2>. QED
    BY <1>1, <2>1, <2>2
<1>5. CASE StopIntake \/ StopKeep
  <2>1. /\ stopPc \in {"running", "keep"} /\ stopPc' \in {"keep", "join"} /\ UNCHANGED <<sentinels, wpc>>
    BY <1>5, StopLeaves DEF StopStep, StopIntake, StopKeep
  <2>. QED
    BY <2>1 DEF SentinelInv, StoppedWorkers
<1>6. CASE StopJoin
  <2>1. stopPc = "join" /\ stopPc' = "sentinels" /\ queue' = <<>> /\ UNCHANGED <<sentinels, wpc>>
    BY <1>6, StopLeaves DEF StopStep, StopJoin
  <2>2. Cardinality(StoppedWorkers) = 0 /\ Len(queue') = 0 /\ StoppedWorkers' = StoppedWorkers
    BY <2>1, FS_EmptySet DEF SentinelInv, StoppedWorkers
  <2>. QED
    BY <2>1, <2>2 DEF SentinelInv
<1>7. CASE StopSentinel
  <2>1. /\ stopPc = "sentinels" /\ stopPc' = stopPc /\ sentinels' = sentinels + 1 /\ wpc' = wpc
        /\ sentinels < Cardinality(Workers) /\ queue' = Append(queue, WorkerStop)
    BY <1>7, StopLeaves DEF StopStep, StopSentinel
  <2>2. Len(queue') = Len(queue) + 1 /\ Len(queue) \in Nat /\ StoppedWorkers' = StoppedWorkers
    BY <1>a, <2>1 DEF StoppedWorkers
  <2>3. sentinels' = Cardinality(StoppedWorkers') + Len(queue')
    BY <1>a, <1>b, <2>1, <2>2 DEF SentinelInv
  <2>4. sentinels' <= Cardinality(Workers)
    BY <1>a, <1>b, <2>1
  <2>. QED
    BY <2>1, <2>3, <2>4 DEF SentinelInv
<1>8. CASE StopGather
  <2>1. stopPc = "sentinels" /\ stopPc' = "stopped" /\ UNCHANGED <<queue, sentinels, wpc>>
    BY <1>8, StopLeaves DEF StopStep, StopGather
  <2>. QED
    BY <2>1 DEF SentinelInv, StoppedWorkers
<1>9. CASE Crash \/ Exit
  <2>1. sentinels' = 0 /\ stopPc' = "running" /\ StoppedWorkers' = {}
    BY <1>9 DEF Crash, Exit, MemoryGone, StoppedWorkers
  <2>. QED
    BY <1>b, <2>1 DEF SentinelInv
<1>10. CASE CatchUp \/ Import \/ DbChange \/ Start \/ UNCHANGED vars
  BY <1>1, <1>10, CatchUpLeaves, ImportLeaves, OthersLeave DEF StoppedWorkers
<1>. QED
  BY <1>2, <1>3, <1>4, <1>5, <1>6, <1>7, <1>8, <1>9, <1>10 DEF Next, StopStep

(* A stop that is over has left nothing behind the sentinels.              *)
LEMMA StopIsClean ==
    ASSUME TypeOK, HandsInv, SentinelInv
    PROVE  StopLeavesNothing
<1>. SUFFICES ASSUME stopPc = "stopped" PROVE queue = <<>> /\ InMemory = {}
  BY DEF StopLeavesNothing
<1>1. StoppedWorkers = Workers
  BY DEF HandsInv, StoppedWorkers
<1>2. sentinels = Cardinality(Workers) + Len(queue) /\ sentinels <= Cardinality(Workers)
  BY <1>1 DEF SentinelInv
<1>3. Cardinality(Workers) \in Nat /\ queue \in Seq(Sessions \cup {WorkerStop}) /\ sentinels \in Nat
  BY PipelineConstants, FS_CardinalityType DEF TypeOK
<1>4. Len(queue) = 0
  BY <1>2, <1>3
<1>. QED
  BY <1>3, <1>4, StoppedIsEmpty

(* What an import has dealt with: the part of the log before its batch,    *)
(* and the sessions of the batch before impNext, are stored or counted as  *)
(* failed; the batch is the part of the log it read last.                  *)
Imported(s) == Stored(s) \/ s \in failed

ImportInv ==
    /\ impPos <= Len(log)
    /\ impPc = "idle" => impPos = 0
    /\ impPc \in {"batch", "done"} => \A i \in 1..impPos : Imported(log[i])
    /\ impPc \in {"session", "insert"} =>
          /\ Len(batch) <= impPos
          /\ \A i \in 1..Len(batch) : batch[i] = log[impPos - Len(batch) + i]
          /\ \A i \in 1..impPos : i < impPos - Len(batch) + impNext => Imported(log[i])
    /\ \A s \in impKnown : Stored(s)

(* The import has read the line of the batch that it is at.                *)
LEMMA ImportAdvances ==
    ASSUME TypeOK, ImportInv, impPc \in {"session", "insert"}, impNext <= Len(batch),
           \A s \in Sessions : Stored(s) => Stored(s)', failed \subseteq failed',
           Stored(batch[impNext]) \/ runs'[batch[impNext]] # <<>> \/ batch[impNext] \in failed',
           impNext' = impNext + 1, UNCHANGED <<log, batch, impPos, impKnown>>,
           impPc' \in {"session", "insert"}
    PROVE  ImportInv'
<1>a. /\ log \in Seq(Sessions) /\ batch \in Seq(Sessions) /\ impPos \in Nat
      /\ impNext \in Nat \ {0} /\ impKnown \subseteq Sessions
  BY DEF TypeOK
<1>b. Len(log) \in Nat /\ Len(batch) \in Nat /\ impPos <= Len(log)
  BY <1>a DEF ImportInv
<1>c. \A i \in 1..impPos : log[i] \in Sessions
  BY <1>a, <1>b
<1>1. PICK at \in Int : at = impPos - Len(batch) + impNext
  BY <1>a, <1>b
<1>2. impNext \in 1..Len(batch) /\ batch[impNext] = log[at] /\ at \in 1..impPos
  BY <1>a, <1>b, <1>1 DEF ImportInv
<1>3. Imported(log[at])'
  <2>1. log[at] \in Sessions /\ log' = log
    BY <1>c, <1>2
  <2>. QED
    BY <1>2, <2>1 DEF Imported, Stored
<1>4. ASSUME NEW i \in 1..impPos, i < impPos - Len(batch) + (impNext + 1) PROVE Imported(log[i])'
  <2>1. i = at \/ i < at
    BY <1>a, <1>b, <1>1, <1>4
  <2>2. CASE i < at
    BY <1>c, <1>1, <2>2 DEF ImportInv, Imported
  <2>. QED
    BY <1>3, <2>1, <2>2
<1>. QED
  BY <1>a, <1>4 DEF ImportInv

(* Every step of the import keeps account of what it has read; the log     *)
(* only grows under it, and what is stored stays stored.                   *)
LEMMA ImportStep ==
    ASSUME TypeOK, HandsInv, CatchUpInv, ImportInv, [Next]_vars
    PROVE  ImportInv'
<1>a. /\ log \in Seq(Sessions) /\ batch \in Seq(Sessions) /\ impPos \in Nat
      /\ impNext \in Nat \ {0} /\ impKnown \subseteq Sessions
      /\ runs \in [Sessions -> Seq({"worker", "catch-up", "import"})]
  BY DEF TypeOK
<1>b. Len(log) \in Nat /\ Len(batch) \in Nat /\ impPos <= Len(log)
  BY <1>a DEF ImportInv
<1>c. \A s \in Sessions : Stored(s) => Stored(s)'
  BY RunsGrow
<1>d. \A i \in 1..impPos : log[i] \in Sessions
  BY <1>a, <1>b
(* Steps of the others: the log may grow, and runs be written. *)
<1>1. CASE /\ UNCHANGED impVars
           /\ log' = log \/ \E s \in Sessions : log' = Append(log, s)
  <2>1. \A i \in 1..impPos : log'[i] = log[i]
    <3>1. \A s \in Sessions : \A i \in 1..Len(log) : Append(log, s)[i] = log[i]
      BY <1>a
    <3>2. \A i \in 1..impPos : i \in 1..Len(log)
      BY <1>a, <1>b
    <3>. QED
      BY <1>1, <3>1, <3>2
  <2>2. Len(log') >= Len(log) /\ Len(log') \in Nat
    BY <1>1, <1>a
  <2>3. impPos' <= Len(log')
    BY <1>1, <1>a, <1>b, <2>2 DEF impVars
  <2>4. \A i \in 1..impPos : Imported(log[i]) => Imported(log[i])'
    BY <1>1, <1>c, <1>d, <2>1 DEF Imported, impVars
  <2>5. impPc \in {"session", "insert"} =>
          \A i \in 1..Len(batch) : batch[i] = log'[impPos - Len(batch) + i]
    <3>. SUFFICES ASSUME impPc \in {"session", "insert"}, NEW i \in 1..Len(batch)
                  PROVE  batch[i] = log'[impPos - Len(batch) + i]
      OBVIOUS
    <3>1. Len(batch) <= impPos /\ batch[i] = log[impPos - Len(batch) + i]
      BY DEF ImportInv
    <3>2. impPos - Len(batch) + i \in 1..impPos
      BY <1>a, <1>b, <3>1
    <3>. QED
      BY <2>1, <3>1, <3>2
  <2>6. \A s \in impKnown : Stored(s)'
    BY <1>a, <1>c DEF ImportInv
  <2>. QED
    BY <1>1, <2>3, <2>4, <2>5, <2>6 DEF ImportInv, impVars
<1>2. CASE ImpStart
  BY <1>2, <1>b DEF ImpStart, ImpFrame, ImportInv, Stored
<1>3. CASE ImpBatch
  <2> DEFINE end == BatchEnd(log, impPos)
  <2>1. /\ impPc = "batch" /\ impPos < Len(log) /\ impPos' = end
        /\ batch' = SubSeq(log, impPos + 1, end) /\ impPc' = "session" /\ impNext' = 1
        /\ impKnown' = {s \in Sessions : Stored(s)} /\ UNCHANGED <<failed, runs, log>>
    BY <1>3 DEF ImpBatch, ImpFrame
  <2>2. end \in Nat /\ impPos + 1 <= end /\ end <= Len(log)
    BY <1>a, <1>b, <2>1, PipelineConstants DEF BatchEnd
  <2>. HIDE DEF end
  <2>3. /\ batch' \in Seq(Sessions) /\ DOMAIN batch' = 1 .. (end - (impPos + 1) + 1)
        /\ \A i \in 1 .. (end - (impPos + 1) + 1) : batch'[i] = log[impPos + 1 + i - 1]
    <3> DEFINE from == impPos + 1
    <3>1. from \in Nat \ {0} /\ from <= end /\ batch' = SubSeq(log, from, end)
      BY <1>a, <2>1, <2>2
    <3>. HIDE DEF from
    <3>2. /\ SubSeq(log, from, end) \in Seq(Sessions)
          /\ DOMAIN SubSeq(log, from, end) = 1 .. (IF from <= end THEN end - from + 1 ELSE 0)
          /\ \A i \in 1 .. (end - from + 1) : SubSeq(log, from, end)[i] = log[from + i - 1]
      BY <1>a, <2>2, <3>1, SubSeqIsSeq
    <3>3. /\ batch' \in Seq(Sessions) /\ DOMAIN batch' = 1 .. (end - from + 1)
          /\ \A i \in 1 .. (end - from + 1) : batch'[i] = log[from + i - 1]
      BY <3>1, <3>2
    <3>. QED
      BY <3>3 DEF from
  <2>4. Len(batch') = end - impPos
    <3>1. Len(batch') \in Nat /\ DOMAIN batch' = 1 .. Len(batch')
      BY <2>3
    <3>2. end - (impPos + 1) + 1 = end - impPos /\ end - impPos \in Nat
      BY <1>a, <2>2
    <3>. QED
      BY <2>3, <3>1, <3>2
  <2>5. \A i \in 1 .. Len(batch') : batch'[i] = log[end - Len(batch') + i]
    <3>. TAKE i \in 1 .. Len(batch')
    <3>1. impPos + 1 + i - 1 = end - Len(batch') + i /\ i \in 1 .. (end - (impPos + 1) + 1)
      BY <1>a, <2>2, <2>4
    <3>. QED
      BY <2>3, <3>1
  <2>6. \A i \in 1 .. end : i < end - Len(batch') + 1 => i \in 1 .. impPos
    BY <1>a, <2>2, <2>4
  <2>7. \A i \in 1 .. impPos : Imported(log[i])'
    BY <2>1 DEF ImportInv, Imported, Stored
  <2>8. Len(batch') <= end
    BY <1>a, <2>2, <2>4
  <2>9. \A s \in impKnown' : Stored(s)'
    BY <2>1 DEF Stored
  <2>10. \A i \in 1 .. impPos' : i < impPos' - Len(batch') + impNext' => Imported(log[i])'
    BY <2>1, <2>6, <2>7
  <2>11. Len(batch') <= impPos' /\ impPos' <= Len(log')
    BY <2>1, <2>2, <2>8
  <2>12. \A i \in 1 .. Len(batch') : batch'[i] = log'[impPos' - Len(batch') + i]
    BY <2>1, <2>5
  <2>. QED
    BY <2>1, <2>9, <2>10, <2>11, <2>12 DEF ImportInv
<1>4. CASE ImpSkip
  <2>1. /\ impPc = "session" /\ impNext <= Len(batch) /\ impNext' = impNext + 1
        /\ Stored(batch[impNext]) /\ UNCHANGED <<log, batch, impPc, impPos, impKnown, failed>>
    BY <1>4 DEF ImpSkip, ImpAtSession, ImpFrame, ImportInv
  <2>. QED
    BY <1>c, <2>1, ImportAdvances
<1>5. CASE ImpCheck
  <2>1. /\ impPc = "session" /\ impNext <= Len(batch)
        /\ UNCHANGED <<log, batch, impPos, impKnown, failed, runs>>
        /\ \/ Stored(batch[impNext]) /\ impNext' = impNext + 1 /\ impPc' = impPc
           \/ impPc' = "insert" /\ impNext' = impNext
    BY <1>5 DEF ImpCheck, ImpAtSession, ImpFrame
  <2>2. CASE Stored(batch[impNext]) /\ impNext' = impNext + 1 /\ impPc' = impPc
    BY <1>c, <2>1, <2>2, ImportAdvances
  <2>3. CASE impPc' = "insert" /\ impNext' = impNext
    BY <2>1, <2>3 DEF ImportInv, Imported, Stored
  <2>. QED
    BY <2>1, <2>2, <2>3
<1>6. CASE ImpInsert
  <2>1. /\ impPc = "insert" /\ impNext' = impNext + 1 /\ impPc' = "session"
        /\ runs' = [runs EXCEPT ![batch[impNext]] = Append(@, "import")]
        /\ UNCHANGED <<log, batch, impPos, impKnown, failed>>
    BY <1>6 DEF ImpInsert, ImpFrame
  <2>2. impNext <= Len(batch) /\ batch[impNext] \in Sessions
    BY <1>a, <2>1 DEF HandsInv
  <2>3. runs'[batch[impNext]] # <<>>
    <3>1. runs[batch[impNext]] \in Seq({"worker", "catch-up", "import"})
      BY <1>a, <2>2
    <3>2. "import" \in {"worker", "catch-up", "import"}
      OBVIOUS
    <3>3. Append(runs[batch[impNext]], "import") # <<>>
      BY <3>1, <3>2, RangeAppend, RangeEmpty
    <3>. QED
      BY <1>a, <2>1, <2>2, <3>3
  <2>. QED
    BY <1>c, <2>1, <2>2, <2>3, ImportAdvances
<1>7. CASE ImpFail
  <2>1. /\ impPc \in {"session", "insert"} /\ impNext' = impNext + 1 /\ impPc' = "session"
        /\ failed' = failed \cup {batch[impNext]} /\ UNCHANGED <<log, batch, impPos, impKnown>>
    BY <1>7 DEF ImpFail, ImpTrying, ImpAtSession, ImpFrame
  <2>2. impNext <= Len(batch)
    BY <1>7, <1>a DEF ImpFail, ImpTrying, ImpAtSession, HandsInv
  <2>. QED
    BY <1>c, <2>1, <2>2, ImportAdvances
<1>8. CASE ImpBatchDone
  <2>1. /\ impPc = "session" /\ impNext > Len(batch) /\ impPc' \in {"batch", "done"}
        /\ UNCHANGED <<log, batch, impPos, impNext, impKnown, failed, runs>>
    BY <1>8 DEF ImpBatchDone, ImpFrame
  <2>2. \A i \in 1..impPos : i < impPos - Len(batch) + impNext
    BY <1>a, <1>b, <2>1
  <2>3. \A i \in 1..impPos : Imported(log[i])
    BY <2>1, <2>2 DEF ImportInv
  <2>. QED
    BY <2>1, <2>3 DEF ImportInv, Imported, Stored
<1>9. CASE ImpEof
  BY <1>9 DEF ImpEof, ImpFrame, ImportInv, Imported, Stored
<1>10. CASE ImpEnd
  <2>1. impPc' = "idle" /\ impPos' = 0 /\ impKnown' = {} /\ log' = log
    BY <1>10 DEF ImpEnd, ImpFrame
  <2>2. \A i \in 1..0 : FALSE
    OBVIOUS
  <2>. QED
    BY <1>b, <2>1, <2>2 DEF ImportInv
<1>11. ASSUME NEW s \in Sessions, Complete(s) \/ InvalidRecord(s) PROVE ImportInv'
  <2>1. UNCHANGED impVars /\ (log' = log \/ log' = Append(log, s))
    BY <1>11 DEF Complete, InvalidRecord, HandlerFrame
  <2>. QED
    BY <1>1, <2>1
<1>12. CASE (\E w \in Workers : WorkerStep(w)) \/ StopIntake \/ StopStep \/ CatchUp
  BY <1>1, <1>12, WorkerLeaves, StopLeaves, CatchUpLeaves DEF impVars
<1>13. CASE DbChange \/ Start \/ UNCHANGED vars
  BY <1>1, <1>13, OthersLeave DEF impVars
<1>14. CASE Crash \/ Exit
  BY <1>1, <1>14 DEF Crash, Exit, MemoryGone
<1>. QED
  BY <1>2, <1>3, <1>4, <1>5, <1>6, <1>7, <1>8, <1>9, <1>10, <1>11, <1>12, <1>13, <1>14 DEF Next, Import

(* The whole invariant.                                                    *)
CustodyInv ==
    PipelineInv /\ OnceInv /\ CompletedInv /\ RunsInv /\ AnnounceInv /\ SentinelInv /\ ImportInv

(* Where a session is, in the words of the contract.                       *)
LEMMA CustodyOf ==
    ASSUME OnceInv, CompletedInv, NEW s \in Sessions
    PROVE  /\ Stored(s) => custody[s] = "stored"
           /\ ~Stored(s) /\ s \in OnDisk => custody[s] = "disk"
           /\ ~Stored(s) /\ s \in InMemory => custody[s] = "memory"
           /\ s \in completed \ (InMemory \cup OnDisk) /\ ~Stored(s) => custody[s] = "dropped"
           /\ s \notin completed => custody[s] = "open"
           /\ custody[s] = "open" => s \notin completed
           /\ custody[s] = "memory" => ~Stored(s) /\ s \in InMemory
BY DEF custody, OnceInv, CompletedInv

(* The same for the next state, which need not be known to satisfy the     *)
(* invariant.                                                              *)
LEMMA CustodyNext ==
    custody' = [s \in Sessions |->
                  IF Stored(s)' THEN "stored"
                  ELSE IF s \in OnDisk' THEN "disk"
                  ELSE IF s \in InMemory' THEN "memory"
                  ELSE IF s \in completed' THEN "dropped" ELSE "open"]
BY DEF custody

(* Every step of the pipeline is a step of the contract or a stutter.      *)
LEMMA MoveImplementsContract ==
    ASSUME TypeOK, HandsInv, CatchUpInv, AlertInv, OnceInv, CompletedInv, [Next]_vars
    PROVE  [Contract!Next]_(Contract!vars)
<1>a. Moves
  BY StepMoves
<1>b. /\ runs \in [Sessions -> Seq({"worker", "catch-up", "import"})] /\ completed \subseteq Sessions
      /\ custody = [s \in Sessions |-> custody[s]]
  BY DEF TypeOK, custody
<1>c. InMemory \subseteq completed /\ OnDisk \subseteq completed /\ InMemory \cap OnDisk = {}
  BY DEF CompletedInv, OnceInv
<1>d. ASSUME runs' = runs PROVE \A s : Stored(s)' <=> Stored(s)
  BY <1>d DEF Stored
<1>1. ASSUME NEW s \in Sessions, Arrives(s) PROVE Contract!Accept(s) \/ Contract!Refuse(s)
  <2>1. s \notin completed /\ completed' = completed \cup {s} /\ OnDisk' = OnDisk /\ runs' = runs
    BY <1>1 DEF Arrives
  <2>2. custody[s] = "open" /\ ~Stored(s) /\ s \notin InMemory \cup OnDisk
    BY <1>c, <2>1, CustodyOf DEF CompletedInv
  <2>3. CASE InMemory' = InMemory \cup {s} /\ givenUp' = givenUp
    <3>1. Contract!Move({s}, "memory")
      BY <1>d, <2>1, <2>2, <2>3, CustodyNext DEF Contract!Move, custody
    <3>. QED
      BY <2>2, <2>3, <3>1 DEF Contract!Accept, Contract!In
  <2>4. CASE InMemory' = InMemory /\ givenUp' = givenUp \cup {s}
    <3>1. Contract!Move({s}, "dropped")
      BY <1>d, <2>1, <2>2, <2>4, CustodyNext DEF Contract!Move, custody
    <3>. QED
      BY <2>2, <2>4, <3>1 DEF Contract!Refuse, Contract!In
  <2>. QED
    BY <1>1, <2>3, <2>4 DEF Arrives
<1>2. ASSUME NEW s \in Sessions, Reports(s) PROVE Contract!Report({s})
  <2>1. custody' = custody
    BY <1>2, <1>d, CustodyNext DEF Reports, custody
  <2>2. custody[s] # "open"
    BY <1>2, CustodyOf DEF Reports
  <2>. QED
    BY <1>2, <2>1, <2>2 DEF Reports, Contract!Report, Contract!In
<1>3. ASSUME NEW S \in SUBSET Sessions, Leaves(S)
      PROVE  Contract!Keep(S \cap Contract!In("memory")) \/ Contract!GiveUp(S)
             \/ UNCHANGED Contract!vars
  <2>1. /\ S \subseteq InMemory /\ InMemory' = InMemory \ S /\ completed' = completed
        /\ \A s : Stored(s)' <=> Stored(s)
    BY <1>3, <1>d DEF Leaves
  <2>2. \A s \in S : s \in completed /\ s \notin OnDisk
    BY <1>c, <2>1
  <2>3. \A s \in S : s \in Contract!In("memory") <=> ~Stored(s)
    BY <2>1, CustodyOf DEF Contract!In
  <2>4. CASE OnDisk' = OnDisk \cup S /\ givenUp' = givenUp
    <3>1. Contract!Move(S \cap Contract!In("memory"), "disk")
      BY <2>1, <2>2, <2>3, <2>4, CustodyNext DEF Contract!Move, custody
    <3>. QED
      BY <2>4, <3>1 DEF Contract!Keep
  <2>5. CASE OnDisk' = OnDisk /\ givenUp' = givenUp \cup S
    <3>1. Contract!Move(S \cap Contract!In("memory"), "dropped")
      BY <2>1, <2>2, <2>3, <2>5, CustodyNext DEF Contract!Move, custody
    <3>2. S \subseteq Contract!In("memory") \cup Contract!In("stored")
      BY <2>3, CustodyOf DEF Contract!In
    <3>. QED
      BY <2>5, <3>1, <3>2 DEF Contract!GiveUp
  <2>6. CASE OnDisk' = OnDisk /\ givenUp' = givenUp /\ \A s \in S : Stored(s)
    <3>1. custody' = custody
      BY <2>1, <2>2, <2>6, CustodyNext DEF custody
    <3>. QED
      BY <2>6, <3>1 DEF Contract!vars
  <2>. QED
    BY <1>3, <2>4, <2>5, <2>6 DEF Leaves
<1>4. ASSUME NEW s \in Sessions, NEW who \in {"worker", "catch-up", "import"}, Writes(s, who)
      PROVE  Contract!Store(s) \/ UNCHANGED Contract!vars
  <2>1. /\ s \in completed /\ runs' = [runs EXCEPT ![s] = Append(@, who)]
        /\ InMemory' = InMemory /\ OnDisk' = OnDisk /\ completed' = completed /\ givenUp' = givenUp
    BY <1>4 DEF Writes
  <2>2. Stored(s)' /\ \A t \in Sessions : t # s => (Stored(t)' <=> Stored(t))
    <3>1. runs[s] \in Seq({"worker", "catch-up", "import"})
      BY <1>b
    <3>2. Append(runs[s], who) # <<>>
      BY <3>1, RangeAppend, RangeEmpty
    <3>. QED
      BY <1>b, <2>1, <3>2 DEF Stored
  <2>3. Contract!Move({s}, "stored")
    BY <2>1, <2>2, CustodyNext DEF Contract!Move, custody
  <2>4. CASE Stored(s)
    <3>1. custody' = custody
      BY <1>b, <2>3, <2>4, CustodyOf DEF Contract!Move
    <3>. QED
      BY <2>1, <3>1 DEF Contract!vars
  <2>5. CASE ~Stored(s)
    BY <2>1, <2>3, <2>5, CustodyOf DEF Contract!Store, Contract!In
  <2>. QED
    BY <2>4, <2>5
<1>5. CASE Clears
  <2> DEFINE S == {s \in OnDisk \ OnDisk' : ~Stored(s)}
  <2>1. /\ OnDisk' \subseteq OnDisk /\ InMemory' = InMemory /\ completed' = completed
        /\ givenUp' = givenUp /\ \A s : Stored(s)' <=> Stored(s)
        /\ S \subseteq givenUp
    BY <1>5, <1>d DEF Clears, Settled
  <2>2. S \subseteq Sessions /\ S \subseteq completed /\ S \cap InMemory = {}
    BY <1>b, <1>c
  <2>3. S \subseteq Contract!In("disk")
    BY <2>2, CustodyOf DEF Contract!In
  <2>4. Contract!Move(S, "dropped")
    BY <2>1, <2>2, CustodyNext DEF Contract!Move, custody
  <2>5. Contract!Retire(S)
    BY <2>1, <2>3, <2>4 DEF Contract!Retire
  <2>. QED
    BY <2>2, <2>5 DEF Contract!Next
<1>6. CASE Forgets
  <2>1. /\ InMemory' = {} /\ OnDisk' = OnDisk /\ completed' = completed /\ givenUp' = givenUp
        /\ \A s : Stored(s)' <=> Stored(s)
    BY <1>6, <1>d DEF Forgets
  <2>2. \A s \in Sessions : s \in Contract!In("memory") <=> ~Stored(s) /\ s \in InMemory
    BY CustodyOf DEF Contract!In
  <2>3. Contract!Move(Contract!In("memory"), "dropped")
    BY <1>c, <2>1, <2>2, CustodyNext DEF Contract!Move, custody
  <2>. QED
    BY <2>1, <2>3 DEF Contract!Kill, Contract!Next
<1>7. CASE Stays
  <2>1. custody' = custody
    BY <1>7, <1>d, CustodyNext DEF Stays, custody
  <2>. QED
    BY <1>7, <2>1 DEF Stays, Contract!vars
<1>8. ASSUME NEW s \in Sessions, Arrives(s) \/ Reports(s)
      PROVE  Contract!Next \/ UNCHANGED Contract!vars
  BY <1>1, <1>2, <1>8 DEF Contract!Next
<1>9. ASSUME NEW S \in SUBSET Sessions, Leaves(S)
      PROVE  Contract!Next \/ UNCHANGED Contract!vars
  <2>1. S \cap Contract!In("memory") \in SUBSET Sessions
    OBVIOUS
  <2>. QED
    BY <1>3, <1>9, <2>1 DEF Contract!Next
<1>10. ASSUME NEW s \in Sessions, NEW who \in {"worker", "catch-up", "import"}, Writes(s, who)
       PROVE  Contract!Next \/ UNCHANGED Contract!vars
  BY <1>4, <1>10 DEF Contract!Next
<1>. QED
  BY <1>a, <1>5, <1>6, <1>7, <1>8, <1>9, <1>10 DEF Moves

(* The two items of a sequence of two. *)
LEMMA RangeOfPair ==
    \A a, b : Len(<<a, b>>) = 2 /\ Range(<<a, b>>) = {a, b}
<1>. SUFFICES ASSUME NEW a, NEW b PROVE Len(<<a, b>>) = 2 /\ Range(<<a, b>>) = {a, b}
  OBVIOUS
<1>1. Len(<<a, b>>) = 2 /\ DOMAIN <<a, b>> = {1, 2} /\ <<a, b>>[1] = a /\ <<a, b>>[2] = b
  OBVIOUS
<1>. QED
  BY <1>1 DEF Range

(* The pipeline starts as the contract does.                               *)
LEMMA InitContract == Init => Contract!Init
<1>. SUFFICES ASSUME Init PROVE Contract!Init
  OBVIOUS
<1>1. InMemory = {} /\ OnDisk = {}
  <2>1. Range(queue) = {} /\ Range(waiting) = {} /\ Range(pending) = {} /\ Range(working) = {}
    BY RangeEmpty DEF Init
  <2>2. Range(wsession) \subseteq {NoSession} /\ NoSession \notin Sessions
    BY PipelineConstants DEF Init, Range
  <2>. QED
    BY <2>1, <2>2 DEF InMemory, OnDisk
<1>2. completed = {} /\ givenUp = {} /\ \A s \in Sessions : ~Stored(s)
  BY DEF Init, Stored
<1>. QED
  BY <1>1, <1>2 DEF custody, Contract!Init

(* The whole invariant holds of a honeypot that has just been started.     *)
LEMMA InitCustodyInv == Init => CustodyInv
<1>. SUFFICES ASSUME Init PROVE CustodyInv
  OBVIOUS
<1>a. /\ Range(queue) = {} /\ Range(waiting) = {} /\ Range(pending) = {} /\ Range(working) = {}
      /\ Range(log) = {} /\ Range(batch) = {} /\ Len(batch) = 0 /\ Len(log) = 0 /\ Len(queue) = 0
  BY RangeEmpty DEF Init
<1>b. Range(wsession) \subseteq {NoSession} /\ NoSession \notin Sessions
  BY PipelineConstants DEF Init, Range
<1>c. InMemory = {} /\ OnDisk = {} /\ InQueue = {}
  BY <1>a, <1>b DEF InMemory, OnDisk, InQueue
<1>1. OnceInv
  BY <1>c DEF Init, OnceInv, IsInjective
<1>2. CompletedInv
  BY <1>a, <1>c DEF Init, CompletedInv, Stored
<1>3. RunsInv
  BY <1>c DEF Init, RunsInv, RunHistories, NotByHoneypot
<1>4. AnnounceInv
  BY <1>c DEF Init, AnnounceInv, AnnouncedOnce
<1>5. SentinelInv
  <2>1. sentinels = 0 /\ StoppedWorkers = {} /\ stopPc = "running"
    BY DEF Init, StoppedWorkers
  <2>2. Cardinality(Workers) \in Nat
    BY PipelineConstants, FS_CardinalityType
  <2>. QED
    BY <2>1, <2>2 DEF SentinelInv
<1>6. ImportInv
  BY <1>a DEF Init, ImportInv
<1>. QED
  BY <1>1, <1>2, <1>3, <1>4, <1>5, <1>6, InitInv DEF CustodyInv

(* The invariant is inductive.                                             *)
LEMMA CustodyStep == CustodyInv /\ [Next]_vars => CustodyInv'
<1>. SUFFICES ASSUME CustodyInv, [Next]_vars PROVE CustodyInv'
  OBVIOUS
<1>1. PipelineInv /\ TypeOK /\ HandsInv /\ CatchUpInv /\ AlertInv
  BY DEF CustodyInv, PipelineInv
<1>2. OnceInv /\ CompletedInv /\ RunsInv /\ AnnounceInv /\ SentinelInv /\ ImportInv
  BY DEF CustodyInv
<1>3. PipelineInv'
  BY <1>1, PipelineStep
<1>4. OnceInv' /\ CompletedInv'
  BY <1>1, <1>2, OnceStep, CompletedStep
<1>5. RunsInv' /\ AnnounceInv'
  BY <1>1, <1>2, RunsStep, AnnounceStep
<1>6. SentinelInv' /\ ImportInv'
  BY <1>1, <1>2, SentinelStep, ImportStep
<1>. QED
  BY <1>3, <1>4, <1>5, <1>6 DEF CustodyInv

(* What the invariant says of the states TLC checks.                       *)
LEMMA CustodyImplies ==
    CustodyInv => TwoRunsOnlyByLiveImport /\ AnnouncedOnce /\ StopLeavesNothing /\ ImportComplete
<1>. SUFFICES ASSUME CustodyInv
              PROVE  TwoRunsOnlyByLiveImport /\ AnnouncedOnce /\ StopLeavesNothing /\ ImportComplete
  OBVIOUS
<1>1. TypeOK /\ HandsInv /\ RunsInv /\ AnnounceInv /\ SentinelInv /\ ImportInv
  BY DEF CustodyInv, PipelineInv
<1>2. TwoRunsOnlyByLiveImport
  <2>. SUFFICES ASSUME NEW s \in Sessions, Len(runs[s]) > 1
                PROVE  Len(runs[s]) = 2 /\ Range(runs[s]) = {"worker", "import"}
    BY DEF TwoRunsOnlyByLiveImport
  <2>1. runs[s] \in RunHistories
    BY <1>1 DEF RunsInv
  <2>2. /\ Len(<<>>) = 0 /\ Len(<<"worker">>) = 1 /\ Len(<<"catch-up">>) = 1
        /\ Len(<<"import">>) = 1
    OBVIOUS
  <2>3. runs[s] = <<"worker", "import">> \/ runs[s] = <<"import", "worker">>
    <3>1. Len(runs[s]) # 0 /\ Len(runs[s]) # 1
      <4>1. runs[s] \in Seq({"worker", "catch-up", "import"})
        BY <1>1 DEF TypeOK
      <4>2. Len(runs[s]) \in Nat
        BY <4>1
      <4>3. \A n \in Nat : n > 1 => n # 0 /\ n # 1
        OBVIOUS
      <4>. QED
        BY <4>2, <4>3, Zenon
    <3>2. runs[s] \notin {<<>>, <<"worker">>, <<"catch-up">>, <<"import">>}
      BY <2>2, <3>1, Zenon
    <3>. QED
      BY <2>1, <3>2, Zenon DEF RunHistories
  <2>4. /\ Len(<<"worker", "import">>) = 2 /\ Range(<<"worker", "import">>) = {"worker", "import"}
        /\ Len(<<"import", "worker">>) = 2 /\ Range(<<"import", "worker">>) = {"import", "worker"}
    BY RangeOfPair
  <2>. QED
    BY <2>3, <2>4
<1>3. AnnouncedOnce
  BY <1>1 DEF AnnounceInv
<1>4. StopLeavesNothing
  BY <1>1, StopIsClean
<1>5. ImportComplete
  BY <1>1 DEF ImportInv, ImportComplete, Imported
<1>. QED
  BY <1>2, <1>3, <1>4, <1>5

(* A live worker and an import may both write a run, but no retry, copy of *)
(* a line or pass repeated after a crash writes a second one of its kind.  *)
THEOREM NoRetryStoresTwice == Spec => []TwoRunsOnlyByLiveImport
BY InitCustodyInv, CustodyStep, CustodyImplies, PTL DEF Spec

(* A session is announced at most once, by its worker or in a catch-up     *)
(* summary, and only when it is stored.                                    *)
THEOREM AnnouncedAtMostOnce == Spec => []AnnouncedOnce
BY InitCustodyInv, CustodyStep, CustodyImplies, PTL DEF Spec

(* An orderly stop leaves no session and no sentinel on the queue, however *)
(* many workers there are and however short the queue is.                  *)
THEOREM StopLeavesNothingBehind == Spec => []StopLeavesNothing
BY InitCustodyInv, CustodyStep, CustodyImplies, PTL DEF Spec

(* An import that returns accounts for every line of the log it read.      *)
THEOREM ImportLeavesNothingOut == Spec => []ImportComplete
BY InitCustodyInv, CustodyStep, CustodyImplies, PTL DEF Spec

(* The pipeline implements the contract of SessionCustody: every step is   *)
(* one of its moves, or changes nothing the contract sees.                 *)
THEOREM PipelineKeepsCustody == Spec => KeepsCustody
<1>1. CustodyInv /\ [Next]_vars => [Contract!Next]_(Contract!vars)
  BY MoveImplementsContract DEF CustodyInv, PipelineInv
<1>. QED
  BY <1>1, InitContract, InitCustodyInv, CustodyStep, PTL DEF Spec, KeepsCustody, Contract!Spec
==============================================================================
