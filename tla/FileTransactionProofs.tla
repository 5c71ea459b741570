----------------------- MODULE FileTransactionProofs -----------------------
(* What FileTransaction guarantees for every number of files, every mix of  *)
(* creations and replacements and every set of contended destinations.      *)
EXTENDS FileTransaction, TLAPS

\* Rollback leaves nothing of item i.
Undone(i) == i \notin installed /\ backup[i] = "none" /\ stage[i] # "whole"

\* While the journal is not whole nothing has been moved or installed.
JournalInv ==
  /\ pc \in Installing \cup Finishing \cup {"journalId"} => journal = "whole"
  /\ pc \in Preparing => \A i \in Items : i \notin installed /\ backup[i] = "none"
  /\ journal # "whole" /\ pc # "success" =>
       \A i \in Items : i \notin installed /\ backup[i] = "none"

\* item.installed against the destination.
InstalledInv ==
  /\ \A i \in Items : dest[i] = "staged" => i \in installed
  /\ \A i \in Items : i \in installed => dest[i] # "original"
  /\ \A i \in Items : backup[i] # "staged"
  /\ \A i \in Items \ Touched : i \in installed => dest[i] = "staged"
  /\ pc \in Finishing \cup {"success"} => installed = Items

\* How far the installation loop is.
InstallingInv ==
  /\ pc \in Installing =>
       \A j \in Items : /\ j > k => j \notin installed /\ backup[j] = "none"
                        /\ j < k => j \in installed
  /\ pc \in {"check", "backup"} => backup[k] = "none"
  /\ pc \in {"check", "backup", "backupId", "link"} => k \notin installed
  /\ pc \in {"backup", "backupId"} => k \in Replaces
  /\ pc = "backupId" => backup[k] # "none" /\ dest[k] # "original"
  /\ pc = "link" /\ k \in Replaces => backup[k] # "none"
  /\ pc = "linkId" => k \in installed

\* A backup holds the original once it is recorded, and until the commit is
\* complete every installed replacement has one.
BackupInv ==
  /\ \A i \in Items : backup[i] # "none" => i \in Replaces
  /\ \A i \in Items : "backup" \in seen[i] => backup[i] # "foreign"
  /\ \A i \in Items \ Touched : backup[i] \in {"none", "original"}
  /\ \A i \in Items \ Touched :
       i \notin installed /\ backup[i] = "none" => dest[i] = Expected(i)
  /\ pc \in Preparing \cup Installing \cup RollingBack =>
       \A i \in Replaces : i \in installed => backup[i] # "none"
  /\ pc \in Installing \cup Finishing =>
       \A i \in Items :
         /\ backup[i] # "none" /\ ~(pc = "backupId" /\ i = k) => "backup" \in seen[i]
         /\ "backup" \in seen[i] => Intact(i, "original") /\ dest[i] # "original"
  /\ pc \in Preparing => \A i \in Items : "backup" \notin seen[i]
  /\ pc \in {"check", "backup", "backupId"} => "backup" \notin seen[k]
  /\ pc \in Installing => \A j \in Items : j > k => "backup" \notin seen[j]

\* How far the reverse loop of rollback is.
RollbackInv ==
  /\ pc \in RollingBack => failed \/ \A j \in Items : j > k => Undone(j)
  /\ pc \in {"rbRestore", "rbVerify", "rbUnbackup", "rbUnstage"} => k \notin installed
  /\ pc \in {"rbVerify", "rbUnbackup"} => "backup" \in seen[k] /\ backup[k] # "none"
  /\ pc = "rbRemove" => k \in installed
  /\ pc = "rbUnbackup" /\ k \notin Touched => dest[k] = "original"
  /\ pc = "rbUnstage" => backup[k] = "none"
  /\ pc = "rbJournal" => failed \/ \A j \in Items : Undone(j)
  /\ pc = "error" => (\A j \in Items : Undone(j)) /\ journal # "whole"

\* How far the cleanup after the commit is.
FinishingInv ==
  /\ pc = "unstage" => \A j \in Items : j < k => stage[j] = "none"
  /\ pc \in {"outputCheck", "unbackup", "unjournal", "success"} =>
       \A j \in Items : stage[j] = "none"
  /\ pc \in {"outputCheck", "unbackup"} => \A j \in Items : j < k => backup[j] = "none"
  /\ pc \in {"unjournal", "success"} => \A j \in Items : backup[j] = "none"
  /\ pc = "success" => journal = "none"
  /\ pc = "verify" => journal = "none" /\ \A j \in Items : stage[j] = "none"

IInv ==
  /\ TypeOK /\ JournalInv /\ InstalledInv /\ InstallingInv
  /\ BackupInv /\ RollbackInv /\ FinishingInv

-----------------------------------------------------------------------------
\* Every step keeps the variables in their types.
LEMMA TypeOKStep == TypeOK /\ [Next]_vars => TypeOK'
<1> SUFFICES ASSUME TypeOK, [Next]_vars PROVE TypeOK'
  OBVIOUS
<1> USE NAssumption, ReplacesAssumption, TouchedAssumption
<1> USE DEF TypeOK, Items, EachItem, Goto, PreviousItem, StartRollback,
     Preparing, Installing, Finishing, RollingBack, Outcomes, disk, memory
<1>1. CASE Verify
  BY <1>1 DEF Verify
<1>2. CASE Refuse
  BY <1>2 DEF Refuse
<1>3. CASE Stage
  BY <1>3 DEF Stage
<1>4. CASE StageIdentity
  BY <1>4 DEF StageIdentity
<1>5. CASE WriteJournal
  BY <1>5 DEF WriteJournal
<1>6. CASE JournalIdentity
  BY <1>6 DEF JournalIdentity
<1>7. CASE CheckDestination
  BY <1>7 DEF CheckDestination
<1>8. CASE Backup
  BY <1>8 DEF Backup
<1>9. CASE BackupIdentity
  BY <1>9 DEF BackupIdentity
<1>10. CASE Link
  BY <1>10 DEF Link
<1>11. CASE LinkIdentity
  BY <1>11 DEF LinkIdentity
<1>12. CASE VerifyOutput
  BY <1>12 DEF VerifyOutput
<1>13. CASE Unstage
  BY <1>13 DEF Unstage
<1>14. CASE RecheckOutput
  BY <1>14 DEF RecheckOutput
<1>15. CASE Unbackup
  BY <1>15 DEF Unbackup
<1>16. CASE Succeed
  BY <1>16 DEF Succeed
<1>17. CASE FinishFails
  BY <1>17 DEF FinishFails
<1>18. CASE Throw
  BY <1>18 DEF Throw
<1>19. CASE TornWrite
  BY <1>19 DEF TornWrite
<1>20. CASE ParentChanged
  BY <1>20 DEF ParentChanged
<1>21. CASE RbCheck
  BY <1>21 DEF RbCheck
<1>22. CASE RbRemove
  BY <1>22 DEF RbRemove
<1>23. CASE RbRestore
  BY <1>23 DEF RbRestore
<1>24. CASE RbVerify
  BY <1>24 DEF RbVerify
<1>25. CASE RbUnbackup
  BY <1>25 DEF RbUnbackup
<1>26. CASE RbUnstage
  BY <1>26 DEF RbUnstage
<1>27. CASE RbItemFails
  BY <1>27 DEF RbItemFails
<1>28. CASE RbFinish
  BY <1>28 DEF RbFinish
<1>29. CASE RbGiveUp
  BY <1>29 DEF RbGiveUp
<1>30. CASE Crash
  BY <1>30 DEF Crash, Running
<1>31. ASSUME NEW i \in Touched, ForeignWrite(i) PROVE TypeOK'
  BY <1>31 DEF ForeignWrite, Running
<1>32. CASE UNCHANGED vars
  BY <1>32 DEF vars
<1>33. QED
  BY <1>1, <1>2, <1>3, <1>4, <1>5, <1>6, <1>7, <1>8, <1>9, <1>10, <1>11, <1>12, <1>13, <1>14, <1>15, <1>16, <1>17, <1>18, <1>19, <1>20, <1>21, <1>22, <1>23, <1>24, <1>25, <1>26, <1>27, <1>28, <1>29, <1>30, <1>31, <1>32
     DEF Next, Transaction, Prepare, Install, Finish, RollBack

\* Every step keeps the journal where a later rollback or reader needs it.
LEMMA JournalInvStep == IInv /\ [Next]_vars => JournalInv'
<1> SUFFICES ASSUME IInv, [Next]_vars PROVE JournalInv'
  OBVIOUS
<1> USE NAssumption, ReplacesAssumption, TouchedAssumption
<1> USE DEF IInv, TypeOK, JournalInv, InstalledInv, InstallingInv, BackupInv,
     RollbackInv, FinishingInv, Undone, Items, EachItem, Goto, PreviousItem,
     StartRollback, Preparing, Installing, Finishing, RollingBack, Outcomes,
     Recorded, Intact, Expected, disk, memory
<1>1. CASE Verify
  BY <1>1 DEF Verify
<1>2. CASE Refuse
  BY <1>2 DEF Refuse
<1>3. CASE Stage
  BY <1>3 DEF Stage
<1>4. CASE StageIdentity
  BY <1>4 DEF StageIdentity
<1>5. CASE WriteJournal
  BY <1>5 DEF WriteJournal
<1>6. CASE JournalIdentity
  BY <1>6 DEF JournalIdentity
<1>7. CASE CheckDestination
  BY <1>7 DEF CheckDestination
<1>8. CASE Backup
  BY <1>8 DEF Backup
<1>9. CASE BackupIdentity
  BY <1>9 DEF BackupIdentity
<1>10. CASE Link
  BY <1>10 DEF Link
<1>11. CASE LinkIdentity
  BY <1>11 DEF LinkIdentity
<1>12. CASE VerifyOutput
  BY <1>12 DEF VerifyOutput
<1>13. CASE Unstage
  BY <1>13 DEF Unstage
<1>14. CASE RecheckOutput
  BY <1>14 DEF RecheckOutput
<1>15. CASE Unbackup
  BY <1>15 DEF Unbackup
<1>16. CASE Succeed
  BY <1>16 DEF Succeed
<1>17. CASE FinishFails
  BY <1>17 DEF FinishFails
<1>18. CASE Throw
  BY <1>18 DEF Throw
<1>19. CASE TornWrite
  BY <1>19 DEF TornWrite
<1>20. CASE ParentChanged
  BY <1>20 DEF ParentChanged
<1>21. CASE RbCheck
  BY <1>21 DEF RbCheck
<1>22. CASE RbRemove
  BY <1>22 DEF RbRemove
<1>23. CASE RbRestore
  BY <1>23 DEF RbRestore
<1>24. CASE RbVerify
  BY <1>24 DEF RbVerify
<1>25. CASE RbUnbackup
  BY <1>25 DEF RbUnbackup
<1>26. CASE RbUnstage
  BY <1>26 DEF RbUnstage
<1>27. CASE RbItemFails
  BY <1>27 DEF RbItemFails
<1>28. CASE RbFinish
  BY <1>28 DEF RbFinish
<1>29. CASE RbGiveUp
  BY <1>29 DEF RbGiveUp
<1>30. CASE Crash
  BY <1>30 DEF Crash, Running
<1>31. ASSUME NEW i \in Touched, ForeignWrite(i) PROVE JournalInv'
  BY <1>31 DEF ForeignWrite, Running
<1>32. CASE UNCHANGED vars
  BY <1>32 DEF vars
<1>33. QED
  BY <1>1, <1>2, <1>3, <1>4, <1>5, <1>6, <1>7, <1>8, <1>9, <1>10, <1>11, <1>12, <1>13, <1>14, <1>15, <1>16, <1>17, <1>18, <1>19, <1>20, <1>21, <1>22, <1>23, <1>24, <1>25, <1>26, <1>27, <1>28, <1>29, <1>30, <1>31, <1>32
     DEF Next, Transaction, Prepare, Install, Finish, RollBack

\* Every step keeps what is known of the items that count as installed.
LEMMA InstalledInvStep == IInv /\ [Next]_vars => InstalledInv'
<1> SUFFICES ASSUME IInv, [Next]_vars PROVE InstalledInv'
  OBVIOUS
<1> USE NAssumption, ReplacesAssumption, TouchedAssumption
<1> USE DEF IInv, TypeOK, JournalInv, InstalledInv, InstallingInv, BackupInv,
     RollbackInv, FinishingInv, Undone, Items, EachItem, Goto, PreviousItem,
     StartRollback, Preparing, Installing, Finishing, RollingBack, Outcomes,
     Recorded, Intact, Expected, disk, memory
<1>1. CASE Verify
  BY <1>1 DEF Verify
<1>2. CASE Refuse
  BY <1>2 DEF Refuse
<1>3. CASE Stage
  BY <1>3 DEF Stage
<1>4. CASE StageIdentity
  BY <1>4 DEF StageIdentity
<1>5. CASE WriteJournal
  BY <1>5 DEF WriteJournal
<1>6. CASE JournalIdentity
  BY <1>6 DEF JournalIdentity
<1>7. CASE CheckDestination
  BY <1>7 DEF CheckDestination
<1>8. CASE Backup
  BY <1>8 DEF Backup
<1>9. CASE BackupIdentity
  BY <1>9 DEF BackupIdentity
<1>10. CASE Link
  BY <1>10 DEF Link
<1>11. CASE LinkIdentity
  <2>1. pc = "linkId" /\ UNCHANGED <<dest, backup, installed>>
    BY <1>11 DEF LinkIdentity
  <2>2. pc' \in Finishing \cup {"success"} => k = N
    BY <1>11 DEF LinkIdentity
  <2>3. k = N => \A j \in Items : j \in installed
    BY <2>1
  <2>4. k = N => installed = Items
    BY <2>3
  <2>. QED
    BY <2>1, <2>2, <2>4
<1>12. CASE VerifyOutput
  BY <1>12 DEF VerifyOutput
<1>13. CASE Unstage
  BY <1>13 DEF Unstage
<1>14. CASE RecheckOutput
  BY <1>14 DEF RecheckOutput
<1>15. CASE Unbackup
  BY <1>15 DEF Unbackup
<1>16. CASE Succeed
  BY <1>16 DEF Succeed
<1>17. CASE FinishFails
  BY <1>17 DEF FinishFails
<1>18. CASE Throw
  BY <1>18 DEF Throw
<1>19. CASE TornWrite
  BY <1>19 DEF TornWrite
<1>20. CASE ParentChanged
  BY <1>20 DEF ParentChanged
<1>21. CASE RbCheck
  BY <1>21 DEF RbCheck
<1>22. CASE RbRemove
  BY <1>22 DEF RbRemove
<1>23. CASE RbRestore
  BY <1>23 DEF RbRestore
<1>24. CASE RbVerify
  BY <1>24 DEF RbVerify
<1>25. CASE RbUnbackup
  BY <1>25 DEF RbUnbackup
<1>26. CASE RbUnstage
  BY <1>26 DEF RbUnstage
<1>27. CASE RbItemFails
  BY <1>27 DEF RbItemFails
<1>28. CASE RbFinish
  BY <1>28 DEF RbFinish
<1>29. CASE RbGiveUp
  BY <1>29 DEF RbGiveUp
<1>30. CASE Crash
  BY <1>30 DEF Crash, Running
<1>31. ASSUME NEW i \in Touched, ForeignWrite(i) PROVE InstalledInv'
  BY <1>31 DEF ForeignWrite, Running
<1>32. CASE UNCHANGED vars
  BY <1>32 DEF vars
<1>33. QED
  BY <1>1, <1>2, <1>3, <1>4, <1>5, <1>6, <1>7, <1>8, <1>9, <1>10, <1>11, <1>12, <1>13, <1>14, <1>15, <1>16, <1>17, <1>18, <1>19, <1>20, <1>21, <1>22, <1>23, <1>24, <1>25, <1>26, <1>27, <1>28, <1>29, <1>30, <1>31, <1>32
     DEF Next, Transaction, Prepare, Install, Finish, RollBack

\* Every step keeps the order of installation: the items before k are done, the
\* later ones untouched.
LEMMA InstallingInvStep == IInv /\ [Next]_vars => InstallingInv'
<1> SUFFICES ASSUME IInv, [Next]_vars PROVE InstallingInv'
  OBVIOUS
<1> USE NAssumption, ReplacesAssumption, TouchedAssumption
<1> USE DEF IInv, TypeOK, JournalInv, InstalledInv, InstallingInv, BackupInv,
     RollbackInv, FinishingInv, Undone, Items, EachItem, Goto, PreviousItem,
     StartRollback, Preparing, Installing, Finishing, RollingBack, Outcomes,
     Recorded, Intact, Expected, disk, memory
<1>1. CASE Verify
  BY <1>1 DEF Verify
<1>2. CASE Refuse
  BY <1>2 DEF Refuse
<1>3. CASE Stage
  BY <1>3 DEF Stage
<1>4. CASE StageIdentity
  BY <1>4 DEF StageIdentity
<1>5. CASE WriteJournal
  BY <1>5 DEF WriteJournal
<1>6. CASE JournalIdentity
  BY <1>6 DEF JournalIdentity
<1>7. CASE CheckDestination
  BY <1>7 DEF CheckDestination
<1>8. CASE Backup
  BY <1>8 DEF Backup
<1>9. CASE BackupIdentity
  BY <1>9 DEF BackupIdentity
<1>10. CASE Link
  BY <1>10 DEF Link
<1>11. CASE LinkIdentity
  BY <1>11 DEF LinkIdentity
<1>12. CASE VerifyOutput
  BY <1>12 DEF VerifyOutput
<1>13. CASE Unstage
  BY <1>13 DEF Unstage
<1>14. CASE RecheckOutput
  BY <1>14 DEF RecheckOutput
<1>15. CASE Unbackup
  BY <1>15 DEF Unbackup
<1>16. CASE Succeed
  BY <1>16 DEF Succeed
<1>17. CASE FinishFails
  BY <1>17 DEF FinishFails
<1>18. CASE Throw
  BY <1>18 DEF Throw
<1>19. CASE TornWrite
  BY <1>19 DEF TornWrite
<1>20. CASE ParentChanged
  BY <1>20 DEF ParentChanged
<1>21. CASE RbCheck
  BY <1>21 DEF RbCheck
<1>22. CASE RbRemove
  BY <1>22 DEF RbRemove
<1>23. CASE RbRestore
  BY <1>23 DEF RbRestore
<1>24. CASE RbVerify
  BY <1>24 DEF RbVerify
<1>25. CASE RbUnbackup
  BY <1>25 DEF RbUnbackup
<1>26. CASE RbUnstage
  BY <1>26 DEF RbUnstage
<1>27. CASE RbItemFails
  BY <1>27 DEF RbItemFails
<1>28. CASE RbFinish
  BY <1>28 DEF RbFinish
<1>29. CASE RbGiveUp
  BY <1>29 DEF RbGiveUp
<1>30. CASE Crash
  BY <1>30 DEF Crash, Running
<1>31. ASSUME NEW i \in Touched, ForeignWrite(i) PROVE InstallingInv'
  BY <1>31 DEF ForeignWrite, Running
<1>32. CASE UNCHANGED vars
  BY <1>32 DEF vars
<1>33. QED
  BY <1>1, <1>2, <1>3, <1>4, <1>5, <1>6, <1>7, <1>8, <1>9, <1>10, <1>11, <1>12, <1>13, <1>14, <1>15, <1>16, <1>17, <1>18, <1>19, <1>20, <1>21, <1>22, <1>23, <1>24, <1>25, <1>26, <1>27, <1>28, <1>29, <1>30, <1>31, <1>32
     DEF Next, Transaction, Prepare, Install, Finish, RollBack

\* Every step keeps what is known of each backup name.
LEMMA BackupInvStep == IInv /\ [Next]_vars => BackupInv'
<1> SUFFICES ASSUME IInv, [Next]_vars PROVE BackupInv'
  OBVIOUS
<1> USE NAssumption, ReplacesAssumption, TouchedAssumption
<1> USE DEF IInv, TypeOK, JournalInv, InstalledInv, InstallingInv, BackupInv,
     RollbackInv, FinishingInv, Undone, Items, EachItem, Goto, PreviousItem,
     StartRollback, Preparing, Installing, Finishing, RollingBack, Outcomes,
     Recorded, Intact, Expected, disk, memory
<1>1. CASE Verify
  BY <1>1 DEF Verify
<1>2. CASE Refuse
  BY <1>2 DEF Refuse
<1>3. CASE Stage
  BY <1>3 DEF Stage
<1>4. CASE StageIdentity
  BY <1>4 DEF StageIdentity
<1>5. CASE WriteJournal
  BY <1>5 DEF WriteJournal
<1>6. CASE JournalIdentity
  BY <1>6 DEF JournalIdentity
<1>7. CASE CheckDestination
  BY <1>7 DEF CheckDestination
<1>8. CASE Backup
  BY <1>8 DEF Backup
<1>9. CASE BackupIdentity
  <2>1. /\ pc = "backupId" /\ pc' = "link" /\ k' = k /\ k \in Items
        /\ UNCHANGED <<dest, backup, edited, installed>>
    BY <1>9 DEF BackupIdentity
  <2>2. \A i \in Items : "backup" \in seen'[i] <=> "backup" \in seen[i] \/ i = k
    BY <1>9 DEF BackupIdentity
  <2>3. backup[k] = "original" /\ Intact(k, "original") /\ dest[k] # "original"
    BY <1>9, <2>1 DEF BackupIdentity
  <2>4. \A i \in Items : Intact(i, "original")' <=> Intact(i, "original")
    BY <2>1
  <2>. QED
    BY <2>1, <2>2, <2>3, <2>4
<1>10. CASE Link
  BY <1>10 DEF Link
<1>11. CASE LinkIdentity
  BY <1>11 DEF LinkIdentity
<1>12. CASE VerifyOutput
  BY <1>12 DEF VerifyOutput
<1>13. CASE Unstage
  BY <1>13 DEF Unstage
<1>14. CASE RecheckOutput
  BY <1>14 DEF RecheckOutput
<1>15. CASE Unbackup
  BY <1>15 DEF Unbackup
<1>16. CASE Succeed
  BY <1>16 DEF Succeed
<1>17. CASE FinishFails
  BY <1>17 DEF FinishFails
<1>18. CASE Throw
  BY <1>18 DEF Throw
<1>19. CASE TornWrite
  BY <1>19 DEF TornWrite
<1>20. CASE ParentChanged
  BY <1>20 DEF ParentChanged
<1>21. CASE RbCheck
  BY <1>21 DEF RbCheck
<1>22. CASE RbRemove
  BY <1>22 DEF RbRemove
<1>23. CASE RbRestore
  BY <1>23 DEF RbRestore
<1>24. CASE RbVerify
  BY <1>24 DEF RbVerify
<1>25. CASE RbUnbackup
  BY <1>25 DEF RbUnbackup
<1>26. CASE RbUnstage
  BY <1>26 DEF RbUnstage
<1>27. CASE RbItemFails
  BY <1>27 DEF RbItemFails
<1>28. CASE RbFinish
  BY <1>28 DEF RbFinish
<1>29. CASE RbGiveUp
  BY <1>29 DEF RbGiveUp
<1>30. CASE Crash
  BY <1>30 DEF Crash, Running
<1>31. ASSUME NEW i \in Touched, ForeignWrite(i) PROVE BackupInv'
  BY <1>31 DEF ForeignWrite, Running
<1>32. CASE UNCHANGED vars
  BY <1>32 DEF vars
<1>33. QED
  BY <1>1, <1>2, <1>3, <1>4, <1>5, <1>6, <1>7, <1>8, <1>9, <1>10, <1>11, <1>12, <1>13, <1>14, <1>15, <1>16, <1>17, <1>18, <1>19, <1>20, <1>21, <1>22, <1>23, <1>24, <1>25, <1>26, <1>27, <1>28, <1>29, <1>30, <1>31, <1>32
     DEF Next, Transaction, Prepare, Install, Finish, RollBack

\* Every step keeps what rollback has undone: the items after k are back.
LEMMA RollbackInvStep == IInv /\ [Next]_vars => RollbackInv'
<1> SUFFICES ASSUME IInv, [Next]_vars PROVE RollbackInv'
  OBVIOUS
<1> USE NAssumption, ReplacesAssumption, TouchedAssumption
<1> USE DEF IInv, TypeOK, JournalInv, InstalledInv, InstallingInv, BackupInv,
     RollbackInv, FinishingInv, Undone, Items, EachItem, Goto, PreviousItem,
     StartRollback, Preparing, Installing, Finishing, RollingBack, Outcomes,
     Recorded, Intact, Expected, disk, memory
<1>1. CASE Verify
  BY <1>1 DEF Verify
<1>2. CASE Refuse
  BY <1>2 DEF Refuse
<1>3. CASE Stage
  BY <1>3 DEF Stage
<1>4. CASE StageIdentity
  BY <1>4 DEF StageIdentity
<1>5. CASE WriteJournal
  BY <1>5 DEF WriteJournal
<1>6. CASE JournalIdentity
  BY <1>6 DEF JournalIdentity
<1>7. CASE CheckDestination
  BY <1>7 DEF CheckDestination
<1>8. CASE Backup
  BY <1>8 DEF Backup
<1>9. CASE BackupIdentity
  BY <1>9 DEF BackupIdentity
<1>10. CASE Link
  BY <1>10 DEF Link
<1>11. CASE LinkIdentity
  BY <1>11 DEF LinkIdentity
<1>12. CASE VerifyOutput
  BY <1>12 DEF VerifyOutput
<1>13. CASE Unstage
  BY <1>13 DEF Unstage
<1>14. CASE RecheckOutput
  BY <1>14 DEF RecheckOutput
<1>15. CASE Unbackup
  BY <1>15 DEF Unbackup
<1>16. CASE Succeed
  BY <1>16 DEF Succeed
<1>17. CASE FinishFails
  BY <1>17 DEF FinishFails
<1>18. CASE Throw
  BY <1>18 DEF Throw
<1>19. CASE TornWrite
  BY <1>19 DEF TornWrite
<1>20. CASE ParentChanged
  BY <1>20 DEF ParentChanged
<1>21. CASE RbCheck
  BY <1>21 DEF RbCheck
<1>22. CASE RbRemove
  BY <1>22 DEF RbRemove
<1>23. CASE RbRestore
  BY <1>23 DEF RbRestore
<1>24. CASE RbVerify
  BY <1>24 DEF RbVerify
<1>25. CASE RbUnbackup
  BY <1>25 DEF RbUnbackup
<1>26. CASE RbUnstage
  BY <1>26 DEF RbUnstage
<1>27. CASE RbItemFails
  BY <1>27 DEF RbItemFails
<1>28. CASE RbFinish
  BY <1>28 DEF RbFinish
<1>29. CASE RbGiveUp
  BY <1>29 DEF RbGiveUp
<1>30. CASE Crash
  BY <1>30 DEF Crash, Running
<1>31. ASSUME NEW i \in Touched, ForeignWrite(i) PROVE RollbackInv'
  BY <1>31 DEF ForeignWrite, Running
<1>32. CASE UNCHANGED vars
  BY <1>32 DEF vars
<1>33. QED
  BY <1>1, <1>2, <1>3, <1>4, <1>5, <1>6, <1>7, <1>8, <1>9, <1>10, <1>11, <1>12, <1>13, <1>14, <1>15, <1>16, <1>17, <1>18, <1>19, <1>20, <1>21, <1>22, <1>23, <1>24, <1>25, <1>26, <1>27, <1>28, <1>29, <1>30, <1>31, <1>32
     DEF Next, Transaction, Prepare, Install, Finish, RollBack

\* Every step keeps what holds once the commit is complete.
LEMMA FinishingInvStep == IInv /\ [Next]_vars => FinishingInv'
<1> SUFFICES ASSUME IInv, [Next]_vars PROVE FinishingInv'
  OBVIOUS
<1> USE NAssumption, ReplacesAssumption, TouchedAssumption
<1> USE DEF IInv, TypeOK, JournalInv, InstalledInv, InstallingInv, BackupInv,
     RollbackInv, FinishingInv, Undone, Items, EachItem, Goto, PreviousItem,
     StartRollback, Preparing, Installing, Finishing, RollingBack, Outcomes,
     Recorded, Intact, Expected, disk, memory
<1>1. CASE Verify
  BY <1>1 DEF Verify
<1>2. CASE Refuse
  BY <1>2 DEF Refuse
<1>3. CASE Stage
  BY <1>3 DEF Stage
<1>4. CASE StageIdentity
  BY <1>4 DEF StageIdentity
<1>5. CASE WriteJournal
  BY <1>5 DEF WriteJournal
<1>6. CASE JournalIdentity
  BY <1>6 DEF JournalIdentity
<1>7. CASE CheckDestination
  BY <1>7 DEF CheckDestination
<1>8. CASE Backup
  BY <1>8 DEF Backup
<1>9. CASE BackupIdentity
  BY <1>9 DEF BackupIdentity
<1>10. CASE Link
  BY <1>10 DEF Link
<1>11. CASE LinkIdentity
  BY <1>11 DEF LinkIdentity
<1>12. CASE VerifyOutput
  BY <1>12 DEF VerifyOutput
<1>13. CASE Unstage
  BY <1>13 DEF Unstage
<1>14. CASE RecheckOutput
  BY <1>14 DEF RecheckOutput
<1>15. CASE Unbackup
  BY <1>15 DEF Unbackup
<1>16. CASE Succeed
  BY <1>16 DEF Succeed
<1>17. CASE FinishFails
  BY <1>17 DEF FinishFails
<1>18. CASE Throw
  BY <1>18 DEF Throw
<1>19. CASE TornWrite
  BY <1>19 DEF TornWrite
<1>20. CASE ParentChanged
  BY <1>20 DEF ParentChanged
<1>21. CASE RbCheck
  BY <1>21 DEF RbCheck
<1>22. CASE RbRemove
  BY <1>22 DEF RbRemove
<1>23. CASE RbRestore
  BY <1>23 DEF RbRestore
<1>24. CASE RbVerify
  BY <1>24 DEF RbVerify
<1>25. CASE RbUnbackup
  BY <1>25 DEF RbUnbackup
<1>26. CASE RbUnstage
  BY <1>26 DEF RbUnstage
<1>27. CASE RbItemFails
  BY <1>27 DEF RbItemFails
<1>28. CASE RbFinish
  BY <1>28 DEF RbFinish
<1>29. CASE RbGiveUp
  BY <1>29 DEF RbGiveUp
<1>30. CASE Crash
  BY <1>30 DEF Crash, Running
<1>31. ASSUME NEW i \in Touched, ForeignWrite(i) PROVE FinishingInv'
  BY <1>31 DEF ForeignWrite, Running
<1>32. CASE UNCHANGED vars
  BY <1>32 DEF vars
<1>33. QED
  BY <1>1, <1>2, <1>3, <1>4, <1>5, <1>6, <1>7, <1>8, <1>9, <1>10, <1>11, <1>12, <1>13, <1>14, <1>15, <1>16, <1>17, <1>18, <1>19, <1>20, <1>21, <1>22, <1>23, <1>24, <1>25, <1>26, <1>27, <1>28, <1>29, <1>30, <1>31, <1>32
     DEF Next, Transaction, Prepare, Install, Finish, RollBack

\* The first state satisfies the invariant.
LEMMA InitInv == Init => IInv
<1> SUFFICES ASSUME Init PROVE IInv
  OBVIOUS
<1> USE NAssumption, ReplacesAssumption, TouchedAssumption
<1> USE DEF Init, Items, Expected, Preparing, Installing, Finishing, RollingBack,
     Outcomes
<1>1. TypeOK
  <2>1. k \in Items /\ installed \subseteq Items /\ edited \subseteq Items \X {"original", "staged"}
    OBVIOUS
  <2>2. dest \in [Items -> {"none", "original", "staged", "foreign"}]
    OBVIOUS
  <2>. QED
    BY <2>1, <2>2 DEF TypeOK
<1>2. JournalInv /\ InstalledInv /\ InstallingInv
  BY DEF JournalInv, InstalledInv, InstallingInv
<1>3. BackupInv
  BY DEF BackupInv
<1>4. RollbackInv /\ FinishingInv
  BY DEF RollbackInv, FinishingInv
<1>. QED
  BY <1>1, <1>2, <1>3, <1>4 DEF IInv

\* The inductive invariant of commitFileTransaction: where each file of each
\* item is, for every point the transaction can be at.
THEOREM Invariance == Spec => []IInv
<1>1. IInv /\ [Next]_vars => IInv'
  <2> SUFFICES ASSUME IInv, [Next]_vars PROVE IInv'
    OBVIOUS
  <2>1. TypeOK'
    BY TypeOKStep DEF IInv
  <2>2. JournalInv' /\ InstalledInv' /\ InstallingInv'
    BY JournalInvStep, InstalledInvStep, InstallingInvStep
  <2>3. BackupInv' /\ RollbackInv' /\ FinishingInv'
    BY BackupInvStep, RollbackInvStep, FinishingInvStep
  <2>. QED
    BY <2>1, <2>2, <2>3 DEF IInv
<1>. QED
  BY InitInv, <1>1, PTL DEF Spec

\* Every variable keeps its type, for every N, Replaces and Touched.
THEOREM TypeCorrect == Spec => []TypeOK
<1>1. IInv => TypeOK
  BY DEF IInv
<1>. QED
  BY Invariance, <1>1, PTL

\* A workspace the transaction has changed holds the whole journal, at every
\* moment it can crash or give up (ChangesAreJournalled).
THEOREM JournalledAlways == Spec => []ChangesAreJournalled
<1>1. IInv => ChangesAreJournalled
  BY DEF IInv, JournalInv, InstalledInv, ChangesAreJournalled
<1>. QED
  BY Invariance, <1>1, PTL

\* An ordinary error reports a workspace that was put back (ErrorMeansUndone).
THEOREM ErrorIsUndone == Spec => []ErrorMeansUndone
<1>1. IInv => ErrorMeansUndone
  BY DEF IInv, RollbackInv, InstalledInv, BackupInv, Undone, ErrorMeansUndone
<1>. QED
  BY Invariance, <1>1, PTL

\* Success reports a workspace with everything installed and nothing left over
\* (SuccessMeansInstalled).
THEOREM SuccessIsInstalled == Spec => []SuccessMeansInstalled
<1>1. IInv => SuccessMeansInstalled
  BY DEF IInv, FinishingInv, InstalledInv, SuccessMeansInstalled
<1>. QED
  BY Invariance, <1>1, PTL

-----------------------------------------------------------------------------
(* What one step may do to the names of a file.                             *)

\* Steps that change neither a destination nor a backup.
NamesKept == dest' = dest /\ backup' = backup

Renames ==
  Backup \/ Link \/ Unbackup \/ RbRemove \/ RbRestore \/ RbUnbackup

\* Only six calls of the transaction, and other programs, change the names.
LEMMA OnlyRenames ==
  ASSUME [Next]_vars
  PROVE  NamesKept \/ Renames \/ \E i \in Touched : ForeignWrite(i)
<1> USE DEF NamesKept, disk, memory
<1>1. CASE Prepare
  BY <1>1 DEF Prepare, Verify, Refuse, Stage, StageIdentity, WriteJournal,
     JournalIdentity
<1>2. CASE Install
  BY <1>2 DEF Install, Renames, CheckDestination, BackupIdentity, LinkIdentity
<1>3. CASE Finish
  BY <1>3 DEF Finish, Renames, VerifyOutput, Unstage, RecheckOutput, Succeed,
     FinishFails
<1>4. CASE Throw \/ TornWrite \/ ParentChanged \/ Crash
  BY <1>4 DEF Throw, TornWrite, ParentChanged, Crash
<1>5. CASE RollBack
  BY <1>5 DEF RollBack, Renames, RbCheck, RbVerify, RbUnstage, RbItemFails,
     RbFinish, RbGiveUp
<1>6. CASE UNCHANGED vars
  BY <1>6 DEF vars
<1>. QED
  BY <1>1, <1>2, <1>3, <1>4, <1>5, <1>6 DEF Next, Transaction

\* No step of the transaction removes the last name of a file it replaces
\* before every destination is installed, whatever N, Replaces and Touched are.
THEOREM OriginalsOutlive == Spec => OriginalsOutliveInstall
<1> DEFINE Kept ==
      \A i \in Items : Unlinks(i, "original")
        => \/ /\ pc = "unbackup"
              /\ \A j \in Items \ Touched : dest[j] = "staged"
           \/ pc = "rbUnbackup" /\ i \in Touched
<1>1. IInv /\ [Next]_vars => Kept
  <2> SUFFICES ASSUME IInv, [Next]_vars, NEW i \in Items, Unlinks(i, "original")
               PROVE  \/ /\ pc = "unbackup"
                         /\ \A j \in Items \ Touched : dest[j] = "staged"
                      \/ pc = "rbUnbackup" /\ i \in Touched
    OBVIOUS
  <2> USE DEF Unlinks, Linked, IInv, TypeOK, disk, memory, Goto
  <2>1. CASE NamesKept
    BY <2>1 DEF NamesKept
  <2>2. CASE Backup
    BY <2>2 DEF Backup, InstallingInv, InstalledInv
  <2>3. CASE Link
    BY <2>3 DEF Link
  <2>4. CASE Unbackup
    BY <2>4 DEF Unbackup, InstalledInv, Finishing
  <2>5. CASE RbRemove
    BY <2>5 DEF RbRemove, RollbackInv, InstalledInv
  <2>6. CASE RbRestore
    BY <2>6 DEF RbRestore
  <2>7. CASE RbUnbackup
    BY <2>7 DEF RbUnbackup, RollbackInv
  <2>8. ASSUME NEW j \in Touched, ForeignWrite(j) PROVE FALSE
    BY <2>8 DEF ForeignWrite
  <2>. QED
    BY OnlyRenames, <2>1, <2>2, <2>3, <2>4, <2>5, <2>6, <2>7, <2>8 DEF Renames
<1>. QED
  BY Invariance, <1>1, PTL DEF Spec, OriginalsOutliveInstall

\* The transaction destroys another program's file or edit only in rollback's
\* last unlink window (ForeignWorkKept).
THEOREM ForeignWorkIsKept == Spec => ForeignWorkKept
<1> DEFINE Kept(i) ==
      /\ Unlinks(i, "foreign") => pc = "rbRemove" /\ i = k
      /\ Unlinks(i, "original") => Intact(i, "original") \/ pc = "rbUnbackup"
<1>1. IInv /\ [Next]_vars => \A i \in Items : Kept(i)
  <2> SUFFICES ASSUME IInv, [Next]_vars, NEW i \in Items PROVE Kept(i)
    OBVIOUS
  <2> USE DEF Unlinks, Linked, IInv, TypeOK, disk, memory, Goto
  <2>1. CASE NamesKept
    BY <2>1 DEF NamesKept
  <2>2. CASE Backup
    BY <2>2 DEF Backup, InstallingInv, InstalledInv
  <2>3. CASE Link
    BY <2>3 DEF Link
  <2>4. CASE Unbackup
    BY <2>4 DEF Unbackup, BackupInv, Finishing, Intact
  <2>5. CASE RbRemove
    BY <2>5 DEF RbRemove, RollbackInv, InstalledInv
  <2>6. CASE RbRestore
    BY <2>6 DEF RbRestore
  <2>7. CASE RbUnbackup
    BY <2>7 DEF RbUnbackup, RollbackInv, BackupInv
  <2>8. ASSUME NEW j \in Touched, ForeignWrite(j) PROVE Kept(i)
    BY <2>8 DEF ForeignWrite
  <2>. QED
    BY OnlyRenames, <2>1, <2>2, <2>3, <2>4, <2>5, <2>6, <2>7, <2>8 DEF Renames
<1>. QED
  BY Invariance, <1>1, PTL DEF Spec, ForeignWorkKept

-----------------------------------------------------------------------------
(* The transaction implements AtomicReplacement.                            *)

OldKept == \A i \in Untouched \cap Replaces : Linked(i, "original")
NewInstalled == \A i \in Untouched : dest[i] = "staged"

\* Until the commit is complete the old files are all there; from then on the
\* new ones are.
LEMMA OneImageWhole ==
  ASSUME IInv, Running
  PROVE  /\ pc \in Finishing => NewInstalled
         /\ pc \notin Finishing => OldKept
<1>1. pc \in Finishing => NewInstalled
  BY DEF IInv, InstalledInv, NewInstalled, Untouched
<1>2. ASSUME pc \notin Finishing, NEW i \in Untouched \cap Replaces
      PROVE  Linked(i, "original")
  <2>1. pc \in Preparing \cup Installing \cup RollingBack /\ i \in Items \ Touched
    BY <1>2 DEF IInv, TypeOK, Running, Untouched
  <2>2. CASE backup[i] = "none"
    BY <2>1, <2>2 DEF IInv, BackupInv, Linked, Expected
  <2>3. CASE backup[i] # "none"
    BY <2>1, <2>3 DEF IInv, BackupInv, Linked
  <2>. QED
    BY <2>2, <2>3
<1>. QED
  BY <1>1, <1>2 DEF OldKept

\* The steps that end the transaction change no name; the others keep running.
LEMMA Endings ==
  ASSUME IInv, [Next]_vars, Running, ~Running'
  PROVE  /\ NamesKept
         /\ pc' = "success" => pc = "unjournal"
         /\ pc' = "error" => pc = "verify" \/ (pc = "rbJournal" /\ ~failed)
<1> USE DEF Running, Outcomes, NamesKept, disk, memory, Goto, EachItem, IInv, TypeOK,
     StartRollback, PreviousItem
<1>1. CASE Prepare
  BY <1>1 DEF Prepare, Verify, Refuse, Stage, StageIdentity, WriteJournal,
     JournalIdentity
<1>2. CASE Install
  BY <1>2 DEF Install, CheckDestination, Backup, BackupIdentity, Link, LinkIdentity
<1>3. CASE Finish
  BY <1>3 DEF Finish, VerifyOutput, Unstage, RecheckOutput, Unbackup, Succeed,
     FinishFails
<1>4. CASE Throw \/ TornWrite \/ ParentChanged \/ Crash
  BY <1>4 DEF Throw, TornWrite, ParentChanged, Crash
<1>5. CASE RollBack
  BY <1>5 DEF RollBack, RbCheck, RbRemove, RbRestore, RbVerify, RbUnbackup,
     RbUnstage, RbItemFails, RbFinish, RbGiveUp
<1>6. ASSUME NEW i \in Touched, ForeignWrite(i) PROVE FALSE
  BY <1>6 DEF ForeignWrite
<1>7. CASE UNCHANGED vars
  BY <1>7 DEF vars
<1>. QED
  BY <1>1, <1>2, <1>3, <1>4, <1>5, <1>6, <1>7 DEF Next, Transaction

\* No step brings a lost original back.
LEMMA OldNotRegained ==
  ASSUME IInv, [Next]_vars, OldKept'
  PROVE  OldKept
<1> SUFFICES ASSUME NEW i \in Untouched \cap Replaces PROVE Linked(i, "original")
  BY DEF OldKept
<1>0. Linked(i, "original")' /\ i \in Items /\ i \notin Touched
  BY DEF OldKept, Untouched
<1> USE DEF Linked, IInv, TypeOK, disk, memory
<1>1. CASE NamesKept
  BY <1>0, <1>1 DEF NamesKept
<1>2. CASE Backup \/ Link \/ Unbackup
  BY <1>0, <1>2 DEF Backup, Link, Unbackup
<1>3. CASE RbRemove \/ RbRestore \/ RbUnbackup
  BY <1>0, <1>3 DEF RbRemove, RbRestore, RbUnbackup
<1>4. ASSUME NEW j \in Touched, ForeignWrite(j) PROVE Linked(i, "original")
  BY <1>0, <1>4 DEF ForeignWrite
<1>. QED
  BY OnlyRenames, <1>1, <1>2, <1>3, <1>4 DEF Renames

\* A transaction that has ended stays as it is.
LEMMA EndedStays ==
  ASSUME IInv, [Next]_vars, ~Running
  PROVE  UNCHANGED vars
<1> USE DEF Running, Outcomes, Preparing, Installing, Finishing
<1>1. CASE Prepare
  BY <1>1 DEF Prepare, Verify, Refuse, Stage, StageIdentity, WriteJournal,
     JournalIdentity
<1>2. CASE Install
  BY <1>2 DEF Install, CheckDestination, Backup, BackupIdentity, Link, LinkIdentity
<1>3. CASE Finish
  BY <1>3 DEF Finish, VerifyOutput, Unstage, RecheckOutput, Unbackup, Succeed,
     FinishFails
<1>4. CASE Throw \/ TornWrite \/ ParentChanged \/ Crash
  BY <1>4 DEF Throw, TornWrite, ParentChanged, Crash
<1>5. CASE RollBack
  BY <1>5 DEF RollBack, RbCheck, RbRemove, RbRestore, RbVerify, RbUnbackup,
     RbUnstage, RbItemFails, RbFinish, RbGiveUp
<1>6. ASSUME NEW i \in Touched, ForeignWrite(i) PROVE FALSE
  BY <1>6 DEF ForeignWrite
<1>. QED
  BY <1>1, <1>2, <1>3, <1>4, <1>5, <1>6 DEF Next, Transaction

\* commitFileTransaction implements AtomicReplacement on the destinations nobody
\* else writes, provided there is one (AllOrNothing).
THEOREM Refinement ==
  ASSUME Untouched # {}
  PROVE  Spec => AllOrNothing
<1>1. Init => Atomic!Init
  <2> SUFFICES ASSUME Init PROVE Atomic!Init
    OBVIOUS
  <2>1. OldKept
    BY DEF Init, OldKept, Linked, Expected, Untouched
  <2>2. ~NewInstalled
    BY DEF Init, NewInstalled, Expected, Untouched
  <2>3. Running
    BY DEF Init, Running, Outcomes
  <2>. QED
    BY <2>1, <2>2, <2>3 DEF Atomic!Init, OldKept, NewInstalled
<1>2. IInv /\ IInv' /\ [Next]_vars => [Atomic!Next]_Atomic!vars
  <2> SUFFICES ASSUME IInv, IInv', [Next]_vars PROVE [Atomic!Next]_Atomic!vars
    OBVIOUS
  <2>1. CASE ~Running
    <3>1. UNCHANGED vars
      BY <2>1, EndedStays
    <3>. QED
      BY <3>1 DEF vars, disk, memory, Atomic!vars, Running, Linked
  <2>2. CASE Running /\ Running'
    <3>1. OldKept' => OldKept
      BY OldNotRegained
    <3>2. OldKept' \/ NewInstalled'
      <4>1. (pc \in Finishing => NewInstalled)' /\ (pc \notin Finishing => OldKept)'
        BY <2>2, OneImageWhole, PTL
      <4>. QED
        BY <4>1
    <3>. QED
      BY <2>2, <3>1, <3>2 DEF Atomic!Next, Atomic!Work, OldKept, NewInstalled
  <2>3. CASE Running /\ ~Running'
    <3>1. NamesKept
      BY <2>3, Endings
    <3>2. OldKept' = OldKept /\ NewInstalled' = NewInstalled
      BY <3>1 DEF NamesKept, OldKept, NewInstalled, Linked
    <3>3. CASE pc' = "success"
      <4>1. NewInstalled
        BY <2>3, <3>3, Endings, OneImageWhole DEF Finishing
      <4>. QED
        BY <2>3, <3>2, <3>3, <4>1
           DEF Atomic!Next, Atomic!Succeed, OldKept, NewInstalled
    <3>4. CASE pc' = "error"
      <4>1. OldKept
        BY <2>3, <3>4, Endings, OneImageWhole DEF Finishing
      <4>2. ~NewInstalled
        BY <3>1, <3>4 DEF NamesKept, NewInstalled, IInv, RollbackInv, Undone,
           InstalledInv, Untouched
      <4>. QED
        BY <2>3, <3>2, <3>4, <4>1, <4>2
           DEF Atomic!Next, Atomic!Fail, OldKept, NewInstalled
    <3>5. CASE pc' \in {"recovery", "crashed"}
      BY <2>3, <3>2, <3>5 DEF Atomic!Next, Atomic!Stop, OldKept, NewInstalled
    <3>. QED
      BY <2>3, <3>3, <3>4, <3>5 DEF Running, Outcomes
  <2>. QED
    BY <2>1, <2>2, <2>3 DEF Running
<1>. QED
  BY Invariance, <1>1, <1>2, PTL DEF Spec, AllOrNothing, Atomic!Spec
=============================================================================
