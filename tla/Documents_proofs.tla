-------------------------- MODULE Documents_proofs --------------------------
(***************************************************************************)
(* Proofs about Documents, for any number of uploads, contents, searches   *)
(* and failures.  The inductive invariant IInv falls into three parts:     *)
(* the types, what the stores hold, and what is cached or about to be.     *)
(* One lemma for each part shows that every step keeps it; the last needs  *)
(* of the second only what the handlers know.                              *)
(***************************************************************************)
EXTENDS Documents, TLAPS

Stores ==
    /\ HandlersKnow
    /\ ObjectsFollowRows /\ ProcessingIsAttended
    /\ FailedUploadLeavesNothing /\ NoStrayCopy

Results == CacheIsCurrent /\ SearchesAreCurrent

-----------------------------------------------------------------------------
(* Goto moves an upload and leaves the rest of its state.                  *)
LEMMA GotoType ==
    ASSUME TypeOK, NEW i \in Files, NEW p \in UpStates, Goto(i, p)
    PROVE  up' \in [Files -> UpStates] /\ UNCHANGED <<content, found, broken>>
BY DEF Goto, TypeOK

(* Failures stay within their bound.                                       *)
LEMMA FaultType == ASSUME TypeOK, Fault PROVE faults' \in 0..MaxFaults
BY DocumentsAssumption DEF Fault, TypeOK

(* Removing a local copy keeps the type of the upload directory.           *)
LEMMA UnlinkType ==
    ASSUME TypeOK, NEW i \in Files, Unlink(i)
    PROVE  local' \in [Files -> BOOLEAN]
BY DEF Unlink, TypeOK

(* Clearing the cache, or failing to, keeps the types of what it changes.  *)
LEMMA ClearType ==
    ASSUME TypeOK, NEW i \in Files,
           (ClearsCache /\ UNCHANGED faults) \/ ClearFails(i)
    PROVE  /\ cached' \in [hit : BOOLEAN, docs : SUBSET Files, fresh : BOOLEAN]
           /\ fresh' \in [Searchers -> BOOLEAN] /\ lost' \subseteq Files
           /\ faults' \in 0..MaxFaults
<1>1. CASE ClearsCache /\ UNCHANGED faults
      BY <1>1 DEF ClearsCache, NoResult, TypeOK
<1>2. CASE ClearFails(i)
      BY <1>2, FaultType DEF ClearFails, TypeOK
<1> QED
      BY <1>1, <1>2

-----------------------------------------------------------------------------
(* Every step keeps the types.                                             *)
LEMMA TypesKept ==
    ASSUME TypeOK, [Next]_vars
    PROVE  TypeOK'
<1> USE DEF TypeOK, database, disks, upload, search, clearing
<1>1. ASSUME NEW i \in Files, NEW c \in Contents \cup {"plain"}, Begin(i, c)
      PROVE  TypeOK'
      BY <1>1 DEF Begin, UpStates
<1>2. ASSUME NEW i \in Files, PutObject(i) PROVE TypeOK'
      BY <1>2 DEF PutObject, Goto, UpStates
<1>3. ASSUME NEW i \in Files, PutFails(i) PROVE TypeOK'
  <2>1. local' \in [Files -> BOOLEAN]
        BY <1>3, UnlinkType DEF PutFails, Refuse
  <2>2. up' \in [Files -> UpStates] /\ UNCHANGED <<content, found, broken>>
        BY <1>3, GotoType DEF PutFails, Refuse, UpStates
  <2>3. faults' \in 0..MaxFaults
        BY <1>3, FaultType DEF PutFails
  <2>4. object' \in [Files -> BOOLEAN]
        BY <1>3, DocumentsAssumption DEF PutFails
  <2> QED
        BY <1>3, <2>1, <2>2, <2>3, <2>4 DEF PutFails
<1>4. ASSUME NEW i \in Files, CommitRow(i) PROVE TypeOK'
  <2>1. CASE content[i] = "plain"
    <3>1. Goto(i, "ok") /\ Unlink(i)
          BY <1>4, <2>1 DEF CommitRow
    <3> QED
          BY <1>4, <3>1, GotoType, UnlinkType DEF CommitRow, UpStates
  <2>2. CASE content[i] # "plain"
        BY <1>4, <2>2, GotoType DEF CommitRow, UpStates
  <2> QED
        BY <2>1, <2>2
<1>5. ASSUME NEW i \in Files, RowFails(i) PROVE TypeOK'
      BY <1>5, GotoType, FaultType DEF RowFails, UpStates
<1>6. ASSUME NEW i \in Files, Unput(i) PROVE TypeOK'
  <2>1. local' \in [Files -> BOOLEAN]
        BY <1>6, UnlinkType DEF Unput, Refuse
  <2>2. up' \in [Files -> UpStates] /\ UNCHANGED <<content, found, broken>>
        BY <1>6, GotoType DEF Unput, Refuse, UpStates
  <2>3. faults' \in 0..MaxFaults
        BY <1>6, FaultType DEF Unput
  <2>4. object' \in [Files -> BOOLEAN]
        BY <1>6, DocumentsAssumption DEF Unput
  <2> QED
        BY <1>6, <2>1, <2>2, <2>3, <2>4 DEF Unput
<1>7. ASSUME NEW i \in Files, FindNone(i) PROVE TypeOK'
      BY <1>7 DEF FindNone, Goto, UpStates
<1>8. ASSUME NEW i \in Files, NEW e \in Files, FindFailed(i, e)
      PROVE  TypeOK'
      BY <1>8 DEF FindFailed, Goto, UpStates
<1>9. ASSUME NEW i \in Files, NEW e \in Files, FindSame(i, e)
      PROVE  TypeOK'
      BY <1>9 DEF FindSame, Goto, Unlink, UpStates, Live
<1>10. ASSUME NEW i \in Files, Replace(i) PROVE TypeOK'
      BY <1>10 DEF Replace, Goto, Unlink, UpStates, Live
<1>11. ASSUME NEW i \in Files, Insert(i) PROVE TypeOK'
      BY <1>11 DEF Insert, Goto, Unlink, UpStates, Live
<1>12. ASSUME NEW i \in Files, InsertConflict(i) PROVE TypeOK'
      BY <1>12 DEF InsertConflict, Break, Unlink, UpStates
<1>13. ASSUME NEW i \in Files, CommitReady(i) PROVE TypeOK'
      BY <1>13 DEF CommitReady, Goto, Unlink, UpStates, Live
<1>14. ASSUME NEW i \in Files, LoadFails(i) PROVE TypeOK'
      BY <1>14 DEF LoadFails, Goto, UpStates
<1>15. ASSUME NEW i \in Files, MarkFailed(i) PROVE TypeOK'
      BY <1>15 DEF MarkFailed, Goto, Unlink, UpStates, Live
<1>16. ASSUME NEW i \in Files, UpdateStale(i) PROVE TypeOK'
      BY <1>16 DEF UpdateStale, Break, Unlink, UpStates
<1>17. ASSUME NEW i \in Files, UploadClears(i) PROVE TypeOK'
  <2>1. up' \in [Files -> UpStates] /\ UNCHANGED <<content, found, broken>>
        BY <1>17, GotoType DEF UploadClears, UpStates
  <2> QED
        BY <1>17, <2>1, ClearType DEF UploadClears
<1>18. ASSUME NEW i \in Files, Answer(i) PROVE TypeOK'
  <2>1. local' \in [Files -> BOOLEAN]
        BY <1>18, UnlinkType DEF Answer, Refuse
  <2>2. up' \in [Files -> UpStates] /\ UNCHANGED <<content, found, broken>>
        BY <1>18, GotoType DEF Answer, Refuse, UpStates
  <2> QED
        BY <1>18, <2>1, <2>2 DEF Answer
<1>19. ASSUME NEW i \in Files, DeleteDuplicate(i) PROVE TypeOK'
  <2>1. up' \in [Files -> UpStates] /\ UNCHANGED <<content, found, broken>>
        BY <1>19, GotoType DEF DeleteDuplicate, Refuse, UpStates
  <2>2. faults' \in 0..MaxFaults
        BY <1>19, FaultType DEF DeleteDuplicate
  <2>3. object' \in [Files -> BOOLEAN]
        BY <1>19, DocumentsAssumption DEF DeleteDuplicate
  <2> QED
        BY <1>19, <2>1, <2>2, <2>3 DEF DeleteDuplicate
<1>20. ASSUME NEW i \in Files, CommitDuplicate(i) PROVE TypeOK'
      BY <1>20, GotoType DEF CommitDuplicate, UpStates
<1>21. ASSUME NEW i \in Files, CleanObject(i) PROVE TypeOK'
  <2>1. local' \in [Files -> BOOLEAN]
        BY <1>21, UnlinkType DEF CleanObject, Refuse
  <2>2. up' \in [Files -> UpStates] /\ UNCHANGED <<content, found, broken>>
        BY <1>21, GotoType DEF CleanObject, Refuse, UpStates
  <2>3. faults' \in 0..MaxFaults
        BY <1>21, FaultType DEF CleanObject
  <2>4. object' \in [Files -> BOOLEAN]
        BY <1>21, DocumentsAssumption DEF CleanObject
  <2> QED
        BY <1>21, <2>1, <2>2, <2>3, <2>4 DEF CleanObject
<1>22. ASSUME NEW i \in Files, CleanRow(i) PROVE TypeOK'
      BY <1>22, GotoType, UnlinkType DEF CleanRow, Refuse, UpStates
<1>23. ASSUME NEW i \in Files, DatabaseFails(i) PROVE TypeOK'
  <2>1. local' \in [Files -> BOOLEAN]
        BY <1>23, UnlinkType DEF DatabaseFails, Refuse
  <2>2. up' \in [Files -> UpStates] /\ UNCHANGED <<content, found, broken>>
        BY <1>23, GotoType DEF DatabaseFails, Refuse, UpStates
  <2>3. faults' \in 0..MaxFaults
        BY <1>23, FaultType DEF DatabaseFails
  <2> QED
        BY <1>23, <2>1, <2>2, <2>3 DEF DatabaseFails
<1>24. ASSUME NEW i \in Files, Crash(i) PROVE TypeOK'
      BY <1>24, GotoType, FaultType DEF Crash, UpStates
<1>25. ASSUME NEW i \in Files, RemoveRead(i) PROVE TypeOK'
      BY <1>25 DEF RemoveRead
<1>26. ASSUME NEW i \in Files, RemoveObject(i) PROVE TypeOK'
      BY <1>26 DEF RemoveObject
<1>27. ASSUME NEW i \in Files, RemoveRow(i) PROVE TypeOK'
      BY <1>27 DEF RemoveRow
<1>28. ASSUME NEW i \in Files, RemoveFails(i) PROVE TypeOK'
      BY <1>28, FaultType DEF RemoveFails
<1>29. ASSUME NEW i \in Files, DeleteRead(i) PROVE TypeOK'
      BY <1>29 DEF DeleteRead
<1>30. ASSUME NEW i \in Files, DeleteCommit(i) PROVE TypeOK'
      BY <1>30 DEF DeleteCommit
<1>31. ASSUME NEW i \in Files, DeleteClears(i) PROVE TypeOK'
      BY <1>31, ClearType, UnlinkType DEF DeleteClears
<1>32. ASSUME NEW i \in Files, DeleteFails(i) PROVE TypeOK'
      BY <1>32, FaultType DEF DeleteFails
<1>33. ASSUME NEW s \in Searchers, Miss(s) PROVE TypeOK'
      BY <1>33, FaultType DEF Miss
<1>34. ASSUME NEW s \in Searchers, HitAfterMiss(s) PROVE TypeOK'
      BY <1>34 DEF HitAfterMiss
<1>35. ASSUME NEW s \in Searchers, Query(s) PROVE TypeOK'
      BY <1>35 DEF Query, Ready
<1>36. ASSUME NEW s \in Searchers, StoreResult(s) PROVE TypeOK'
  <2>1. got[s] \in SUBSET Files /\ fresh[s] \in BOOLEAN
        OBVIOUS
  <2>2. CASE cached' = [hit |-> TRUE, docs |-> got[s], fresh |-> fresh[s]]
        BY <1>36, <2>1, <2>2 DEF StoreResult
  <2>3. CASE cached' = cached
        BY <1>36, <2>3 DEF StoreResult
  <2> QED
        BY <1>36, <2>2, <2>3 DEF StoreResult
<1>37. ASSUME ResultExpires PROVE TypeOK'
      BY <1>37 DEF ResultExpires, NoResult
<1>38. ASSUME UNCHANGED vars PROVE TypeOK'
      BY <1>38 DEF vars
<1> QED
      BY <1>1, <1>2, <1>3, <1>4, <1>5, <1>6, <1>7, <1>8, <1>9, <1>10, <1>11,
         <1>12, <1>13, <1>14, <1>15, <1>16, <1>17, <1>18, <1>19, <1>20, <1>21,
         <1>22, <1>23, <1>24, <1>25, <1>26, <1>27, <1>28, <1>29, <1>30, <1>31,
         <1>32, <1>33, <1>34, <1>35, <1>36, <1>37, <1>38 DEF Next, Upload,
         Remove, Delete, Search

(* Every step keeps rows, objects, documents and local copies together.    *)
(* Where a step of one handler disturbs a fact of another's, HandlersKnow  *)
(* says that the other is past the point, or has not come to it.           *)
LEMMA StoresKept ==
    ASSUME TypeOK, Stores, [Next]_vars
    PROVE  Stores'
<1> USE DocumentsAssumption DEF TypeOK, Stores, HandlersKnow,
   ObjectsFollowRows, ProcessingIsAttended, FailedUploadLeavesNothing,
   NoStrayCopy, Fault, Goto, Unlink, Refuse, Break, Same, ClearsCache,
   ClearFails, Over, Live, database, disks, upload, search, clearing
<1>1. ASSUME NEW i \in Files, NEW c \in Contents \cup {"plain"}, Begin(i, c)
      PROVE  Stores'
      BY <1>1 DEF Begin
<1>2. ASSUME NEW i \in Files, PutObject(i) PROVE Stores'
      BY <1>2 DEF PutObject
<1>3. ASSUME NEW i \in Files, PutFails(i) PROVE Stores'
      BY <1>3 DEF PutFails
<1>4. ASSUME NEW i \in Files, CommitRow(i) PROVE Stores'
      BY <1>4 DEF CommitRow
<1>5. ASSUME NEW i \in Files, RowFails(i) PROVE Stores'
      BY <1>5 DEF RowFails
<1>6. ASSUME NEW i \in Files, Unput(i) PROVE Stores'
      BY <1>6 DEF Unput
<1>7. ASSUME NEW i \in Files, FindNone(i) PROVE Stores'
      BY <1>7 DEF FindNone
<1>8. ASSUME NEW i \in Files, NEW e \in Files, FindFailed(i, e)
      PROVE  Stores'
  <2>1. UNCHANGED <<row, doc, object, local, rm, del, broken, faults>>
        BY <1>8 DEF FindFailed
  <2>2. up'[i] = "replace" /\ found'[i] = e /\ e # 0 /\ doc[e] = "failed"
        BY <1>8 DEF FindFailed, Files
  <2>3. ASSUME NEW j \in Files, j # i PROVE up'[j] = up[j] /\ found'[j] = found[j]
        BY <1>8, <2>3 DEF FindFailed
  <2>4. up[i] = "find"
        BY <1>8 DEF FindFailed
  <2>5. HandlersKnow'
        BY <2>1, <2>2, <2>3, <2>4
  <2>6. ObjectsFollowRows' /\ ProcessingIsAttended'
        BY <2>1, <2>2, <2>3, <2>4
  <2>7. FailedUploadLeavesNothing' /\ NoStrayCopy'
        BY <2>1, <2>2, <2>3, <2>4
  <2> QED
        BY <2>5, <2>6, <2>7
<1>9. ASSUME NEW i \in Files, NEW e \in Files, FindSame(i, e)
      PROVE  Stores'
      BY <1>9 DEF FindSame
<1>10. ASSUME NEW i \in Files, Replace(i) PROVE Stores'
      BY <1>10 DEF Replace
<1>11. ASSUME NEW i \in Files, Insert(i) PROVE Stores'
      BY <1>11 DEF Insert
<1>12. ASSUME NEW i \in Files, InsertConflict(i) PROVE Stores'
      BY <1>12 DEF InsertConflict
<1>13. ASSUME NEW i \in Files, CommitReady(i) PROVE Stores'
      BY <1>13 DEF CommitReady
<1>14. ASSUME NEW i \in Files, LoadFails(i) PROVE Stores'
      BY <1>14 DEF LoadFails
<1>15. ASSUME NEW i \in Files, MarkFailed(i) PROVE Stores'
      BY <1>15 DEF MarkFailed
<1>16. ASSUME NEW i \in Files, UpdateStale(i) PROVE Stores'
      BY <1>16 DEF UpdateStale
<1>17. ASSUME NEW i \in Files, UploadClears(i) PROVE Stores'
      BY <1>17 DEF UploadClears
<1>18. ASSUME NEW i \in Files, Answer(i) PROVE Stores'
      BY <1>18 DEF Answer
<1>19. ASSUME NEW i \in Files, DeleteDuplicate(i) PROVE Stores'
      BY <1>19 DEF DeleteDuplicate
<1>20. ASSUME NEW i \in Files, CommitDuplicate(i) PROVE Stores'
      BY <1>20 DEF CommitDuplicate
<1>21. ASSUME NEW i \in Files, CleanObject(i) PROVE Stores'
      BY <1>21 DEF CleanObject
<1>22. ASSUME NEW i \in Files, CleanRow(i) PROVE Stores'
      BY <1>22 DEF CleanRow
<1>23. ASSUME NEW i \in Files, DatabaseFails(i) PROVE Stores'
      BY <1>23 DEF DatabaseFails
<1>24. ASSUME NEW i \in Files, Crash(i) PROVE Stores'
      BY <1>24 DEF Crash
<1>25. ASSUME NEW i \in Files, RemoveRead(i) PROVE Stores'
      BY <1>25 DEF RemoveRead
<1>26. ASSUME NEW i \in Files, RemoveObject(i) PROVE Stores'
      BY <1>26 DEF RemoveObject
<1>27. ASSUME NEW i \in Files, RemoveRow(i) PROVE Stores'
      BY <1>27 DEF RemoveRow
<1>28. ASSUME NEW i \in Files, RemoveFails(i) PROVE Stores'
      BY <1>28 DEF RemoveFails
<1>29. ASSUME NEW i \in Files, DeleteRead(i) PROVE Stores'
      BY <1>29 DEF DeleteRead
<1>30. ASSUME NEW i \in Files, DeleteCommit(i) PROVE Stores'
      BY <1>30 DEF DeleteCommit
<1>31. ASSUME NEW i \in Files, DeleteClears(i) PROVE Stores'
      BY <1>31 DEF DeleteClears
<1>32. ASSUME NEW i \in Files, DeleteFails(i) PROVE Stores'
      BY <1>32 DEF DeleteFails
<1>33. ASSUME NEW s \in Searchers, Miss(s) PROVE Stores'
      BY <1>33 DEF Miss
<1>34. ASSUME NEW s \in Searchers, HitAfterMiss(s) PROVE Stores'
      BY <1>34 DEF HitAfterMiss
<1>35. ASSUME NEW s \in Searchers, Query(s) PROVE Stores'
      BY <1>35 DEF Query
<1>36. ASSUME NEW s \in Searchers, StoreResult(s) PROVE Stores'
      BY <1>36 DEF StoreResult
<1>37. ASSUME ResultExpires PROVE Stores'
      BY <1>37 DEF ResultExpires
<1>38. ASSUME UNCHANGED vars PROVE Stores'
      BY <1>38 DEF vars
<1> QED
      BY <1>1, <1>2, <1>3, <1>4, <1>5, <1>6, <1>7, <1>8, <1>9, <1>10, <1>11,
         <1>12, <1>13, <1>14, <1>15, <1>16, <1>17, <1>18, <1>19, <1>20, <1>21,
         <1>22, <1>23, <1>24, <1>25, <1>26, <1>27, <1>28, <1>29, <1>30, <1>31,
         <1>32, <1>33, <1>34, <1>35, <1>36, <1>37, <1>38 DEF Next, Upload,
         Remove, Delete, Search

(* Every step keeps what is cached, or about to be, current: a step that   *)
(* changes which documents are ready leaves its handler about to clear the *)
(* cache, and a handler that gets past that point has cleared it, with the *)
(* freshness of all searches, or is recorded as lost.                      *)
LEMMA ResultsKept ==
    ASSUME TypeOK, HandlersKnow, Results, [Next]_vars
    PROVE  Results'
<1> USE DEF TypeOK, HandlersKnow, Results, CacheIsCurrent, SearchesAreCurrent,
   Current, Unannounced, Fault, Goto, Unlink, Refuse, Break, Same, ClearsCache,
   ClearFails, Over, Live, NoResult, Ready, database, disks, upload, search,
   clearing
<1>1. ASSUME NEW i \in Files, NEW c \in Contents \cup {"plain"}, Begin(i, c)
      PROVE  Results'
      BY <1>1 DEF Begin
<1>2. ASSUME NEW i \in Files, PutObject(i) PROVE Results'
      BY <1>2 DEF PutObject
<1>3. ASSUME NEW i \in Files, PutFails(i) PROVE Results'
      BY <1>3 DEF PutFails
<1>4. ASSUME NEW i \in Files, CommitRow(i) PROVE Results'
      BY <1>4 DEF CommitRow
<1>5. ASSUME NEW i \in Files, RowFails(i) PROVE Results'
      BY <1>5 DEF RowFails
<1>6. ASSUME NEW i \in Files, Unput(i) PROVE Results'
      BY <1>6 DEF Unput
<1>7. ASSUME NEW i \in Files, FindNone(i) PROVE Results'
      BY <1>7 DEF FindNone
<1>8. ASSUME NEW i \in Files, NEW e \in Files, FindFailed(i, e)
      PROVE  Results'
      BY <1>8 DEF FindFailed
<1>9. ASSUME NEW i \in Files, NEW e \in Files, FindSame(i, e)
      PROVE  Results'
      BY <1>9 DEF FindSame
<1>10. ASSUME NEW i \in Files, Replace(i) PROVE Results'
      BY <1>10 DEF Replace
<1>11. ASSUME NEW i \in Files, Insert(i) PROVE Results'
      BY <1>11 DEF Insert
<1>12. ASSUME NEW i \in Files, InsertConflict(i) PROVE Results'
      BY <1>12 DEF InsertConflict
<1>13. ASSUME NEW i \in Files, CommitReady(i) PROVE Results'
      BY <1>13 DEF CommitReady
<1>14. ASSUME NEW i \in Files, LoadFails(i) PROVE Results'
      BY <1>14 DEF LoadFails
<1>15. ASSUME NEW i \in Files, MarkFailed(i) PROVE Results'
      BY <1>15 DEF MarkFailed
<1>16. ASSUME NEW i \in Files, UpdateStale(i) PROVE Results'
      BY <1>16 DEF UpdateStale
<1>17. ASSUME NEW i \in Files, UploadClears(i) PROVE Results'
      BY <1>17 DEF UploadClears
<1>18. ASSUME NEW i \in Files, Answer(i) PROVE Results'
      BY <1>18 DEF Answer
<1>19. ASSUME NEW i \in Files, DeleteDuplicate(i) PROVE Results'
      BY <1>19 DEF DeleteDuplicate
<1>20. ASSUME NEW i \in Files, CommitDuplicate(i) PROVE Results'
      BY <1>20 DEF CommitDuplicate
<1>21. ASSUME NEW i \in Files, CleanObject(i) PROVE Results'
      BY <1>21 DEF CleanObject
<1>22. ASSUME NEW i \in Files, CleanRow(i) PROVE Results'
      BY <1>22 DEF CleanRow
<1>23. ASSUME NEW i \in Files, DatabaseFails(i) PROVE Results'
      BY <1>23 DEF DatabaseFails
<1>24. ASSUME NEW i \in Files, Crash(i) PROVE Results'
      BY <1>24 DEF Crash
<1>25. ASSUME NEW i \in Files, RemoveRead(i) PROVE Results'
      BY <1>25 DEF RemoveRead
<1>26. ASSUME NEW i \in Files, RemoveObject(i) PROVE Results'
      BY <1>26 DEF RemoveObject
<1>27. ASSUME NEW i \in Files, RemoveRow(i) PROVE Results'
      BY <1>27 DEF RemoveRow
<1>28. ASSUME NEW i \in Files, RemoveFails(i) PROVE Results'
      BY <1>28 DEF RemoveFails
<1>29. ASSUME NEW i \in Files, DeleteRead(i) PROVE Results'
      BY <1>29 DEF DeleteRead
<1>30. ASSUME NEW i \in Files, DeleteCommit(i) PROVE Results'
      BY <1>30 DEF DeleteCommit
<1>31. ASSUME NEW i \in Files, DeleteClears(i) PROVE Results'
      BY <1>31 DEF DeleteClears
<1>32. ASSUME NEW i \in Files, DeleteFails(i) PROVE Results'
      BY <1>32 DEF DeleteFails
<1>33. ASSUME NEW s \in Searchers, Miss(s) PROVE Results'
      BY <1>33 DEF Miss
<1>34. ASSUME NEW s \in Searchers, HitAfterMiss(s) PROVE Results'
      BY <1>34 DEF HitAfterMiss
<1>35. ASSUME NEW s \in Searchers, Query(s) PROVE Results'
      BY <1>35 DEF Query
<1>36. ASSUME NEW s \in Searchers, StoreResult(s) PROVE Results'
      BY <1>36 DEF StoreResult
<1>37. ASSUME ResultExpires PROVE Results'
      BY <1>37 DEF ResultExpires
<1>38. ASSUME UNCHANGED vars PROVE Results'
      BY <1>38 DEF vars
<1> QED
      BY <1>1, <1>2, <1>3, <1>4, <1>5, <1>6, <1>7, <1>8, <1>9, <1>10, <1>11,
         <1>12, <1>13, <1>14, <1>15, <1>16, <1>17, <1>18, <1>19, <1>20, <1>21,
         <1>22, <1>23, <1>24, <1>25, <1>26, <1>27, <1>28, <1>29, <1>30, <1>31,
         <1>32, <1>33, <1>34, <1>35, <1>36, <1>37, <1>38 DEF Next, Upload,
         Remove, Delete, Search

-----------------------------------------------------------------------------
(* The inductive invariant holds initially.                                *)
LEMMA Initially == Init => IInv
<1> SUFFICES ASSUME Init PROVE IInv
    OBVIOUS
<1>1. TypeOK
      BY DocumentsAssumption DEF Init, TypeOK, UpStates, NoResult
<1>2. HandlersKnow /\ ObjectsFollowRows /\ ProcessingIsAttended
      BY DEF Init, HandlersKnow, ObjectsFollowRows, ProcessingIsAttended
<1>3. FailedUploadLeavesNothing /\ NoStrayCopy
      BY DEF Init, FailedUploadLeavesNothing, NoStrayCopy
<1>4. CacheIsCurrent /\ SearchesAreCurrent
      BY DEF Init, CacheIsCurrent, SearchesAreCurrent, NoResult
<1> QED
      BY <1>1, <1>2, <1>3, <1>4 DEF IInv

(* The stores, the handlers and the cache agree in every reachable state:  *)
(* ingest_file, create_from_path, delete, delete_document and search, in   *)
(* any interleaving, with failures of every store.                         *)
THEOREM DocumentInvariant == Spec => []IInv
<1>1. IInv /\ [Next]_vars => IInv'
  <2> SUFFICES ASSUME IInv, [Next]_vars PROVE IInv'
      OBVIOUS
  <2>1. TypeOK'
        BY TypesKept DEF IInv
  <2>2. Stores'
        BY StoresKept DEF IInv, Stores
  <2>3. Results'
        BY ResultsKept DEF IInv, Results
  <2> QED
        BY <2>1, <2>2, <2>3 DEF IInv, Stores, Results
<1> QED
      BY Initially, <1>1, PTL DEF Spec

(* FileService keeps stored objects and their rows together, but for the   *)
(* failures that it does not compensate.                                   *)
THEOREM FilesStayWhole == Spec => []ObjectsFollowRows
<1>1. IInv => ObjectsFollowRows
      BY DEF IInv
<1> QED
      BY DocumentInvariant, <1>1, PTL

(* ingest_file leaves no document in processing, unless something fails    *)
(* that it does not catch.                                                 *)
THEOREM ProcessingEnds == Spec => []ProcessingIsAttended
<1>1. IInv => ProcessingIsAttended
      BY DEF IInv
<1> QED
      BY DocumentInvariant, <1>1, PTL

(* upload_document leaves no stored file when it answers with an error,    *)
(* unless it has lost a race for the document.                             *)
THEOREM FailuresCleanUp == Spec => []FailedUploadLeavesNothing
<1>1. IInv => FailedUploadLeavesNothing
      BY DEF IInv
<1> QED
      BY DocumentInvariant, <1>1, PTL

(* A file in the upload directory belongs to an upload or to a document.   *)
THEOREM CopiesAreOwned == Spec => []NoStrayCopy
<1>1. IInv => NoStrayCopy
      BY DEF IInv
<1> QED
      BY DocumentInvariant, <1>1, PTL

(* What search reads after delete_pattern has cleared the cache, and       *)
(* stores, is what it would read now, but for changes about to clear it.   *)
THEOREM CacheStaysCurrent == Spec => []CacheIsCurrent
<1>1. IInv => CacheIsCurrent
      BY DEF IInv
<1> QED
      BY DocumentInvariant, <1>1, PTL
=============================================================================
