------------------------ MODULE ProviderStoreProofs ------------------------
(***************************************************************************)
(* The provider's store is safe for any number of callers, any candidates  *)
(* and any number of attempts, and implements AssignmentRegister.          *)
(***************************************************************************)
EXTENDS ProviderStore, TLAPS

(* A call still trying for the lock has an attempt left.                   *)
AttemptsLeft == \A c \in Callers : pc[c] = "opening" => attempts[c] < MaxAttempts

(* What a call that is about to write knows: it is a send, and nothing in  *)
(* the file shares its key or its operation.                               *)
WriterKnows ==
    \A c \in Callers :
        /\ pc[c] # "idle" => request[c] \in Requests
        /\ pc[c] \in {"writing", "renaming"}
             => /\ request[c] \in SendRequest
                /\ Priors(file, request[c].record) = {}

Inv == /\ TypeOK
       /\ AttemptsLeft
       /\ HolderUndisturbed
       /\ AnswersStand
       /\ CreatedOnce
       /\ WellFormed(file)
       /\ WriterKnows

(* Initially there is no file, no lock and no call.                        *)
LEMMA InitInv == Init => Inv
<1> SUFFICES ASSUME Init PROVE Inv
  OBVIOUS
<1>1. TypeOK
  <2>1. attempts \in [Callers -> 0 .. MaxAttempts]
    BY AttemptsAssumption DEF Init
  <2>2. answer \in [Callers -> [result : Results, record : Candidates \cup {None}]]
    BY DEF Init, Answer, Results
  <2> QED BY <2>1, <2>2 DEF Init, TypeOK, PCs, HoldingPCs
<1>2. AttemptsLeft /\ HolderUndisturbed /\ WellFormed(file) /\ WriterKnows
  BY DEF Init, AttemptsLeft, HolderUndisturbed, Holding, HoldingPCs, WellFormed, WriterKnows
<1>3. AnswersStand /\ CreatedOnce
  BY DEF Init, AnswersStand, CreatedOnce, Answer
<1> QED BY <1>1, <1>2, <1>3 DEF Inv

-----------------------------------------------------------------------------
(* Types.                                                                  *)
LEMMA TypeStep ==
  ASSUME TypeOK, AttemptsLeft, WriterKnows, [Next]_vars
  PROVE  TypeOK'
<1> USE AttemptsAssumption DEF TypeOK, PCs, HoldingPCs, Results, Answer, Goto, Conclude, Failed
<1>1. CASE UNCHANGED vars
  BY <1>1 DEF vars
<1>2. ASSUME NEW c \in Callers, Begin(c) PROVE TypeOK'
  BY <1>2 DEF Begin
<1>3. ASSUME NEW c \in Callers, Crash(c) PROVE TypeOK'
  BY <1>3 DEF Crash
<1>4. ASSUME NEW c \in Callers, OpenLock(c) PROVE TypeOK'
  BY <1>4 DEF OpenLock
<1>5. ASSUME NEW c \in Callers, LockBusy(c) PROVE TypeOK'
  <2>1. attempts[c] + 1 \in 0 .. MaxAttempts
    BY <1>5 DEF LockBusy, AttemptsLeft
  <2>2. attempts' \in [Callers -> 0 .. MaxAttempts]
    BY <1>5, <2>1 DEF LockBusy
  <2>3. pc' \in [Callers -> PCs]
    BY <1>5 DEF LockBusy
  <2>4. answer' \in [Callers -> [result : Results, record : Candidates \cup {None}]]
    BY <1>5 DEF LockBusy
  <2> QED BY <1>5, <2>2, <2>3, <2>4 DEF LockBusy
<1>6. ASSUME NEW c \in Callers, ReadNew(c) PROVE TypeOK'
  BY <1>6 DEF ReadNew
<1>7. ASSUME NEW c \in Callers, ReadPrior(c) PROVE TypeOK'
  BY <1>7 DEF ReadPrior, Priors
<1>8. ASSUME NEW c \in Callers, ReadConflict(c) PROVE TypeOK'
  BY <1>8 DEF ReadConflict
<1>9. ASSUME NEW c \in Callers, ReadFind(c) PROVE TypeOK'
  BY <1>9 DEF ReadFind, Asked
<1>10. ASSUME NEW c \in Callers, ReadFails(c) PROVE TypeOK'
  BY <1>10 DEF ReadFails
<1>11. ASSUME NEW c \in Callers, WriteTemporary(c) PROVE TypeOK'
  BY <1>11 DEF WriteTemporary
<1>12. ASSUME NEW c \in Callers, WriteFails(c) PROVE TypeOK'
  BY <1>12 DEF WriteFails
<1>13. ASSUME NEW c \in Callers, Rename(c) PROVE TypeOK'
  <2>1. request[c].record \in Candidates
    BY <1>13 DEF Rename, WriterKnows, SendRequest
  <2> QED BY <1>13, <2>1 DEF Rename
<1>14. ASSUME NEW c \in Callers, RenameFails(c) PROVE TypeOK'
  BY <1>14 DEF RenameFails
<1>15. ASSUME NEW c \in Callers, Close(c) PROVE TypeOK'
  BY <1>15 DEF Close
<1>16. ASSUME NEW c \in Callers, CloseFails(c) PROVE TypeOK'
  BY <1>16 DEF CloseFails
<1>17. ASSUME NEW c \in Callers, Unlink(c) PROVE TypeOK'
  BY <1>17 DEF Unlink
<1>18. ASSUME NEW c \in Callers, UnlinkFails(c) PROVE TypeOK'
  BY <1>18 DEF UnlinkFails
<1> QED
  BY <1>1, <1>2, <1>3, <1>4, <1>5, <1>6, <1>7, <1>8, <1>9, <1>10, <1>11, <1>12, <1>13, <1>14, <1>15, <1>16, <1>17, <1>18
     DEF Next, Step

-----------------------------------------------------------------------------
(* The last attempt ends the call.                                         *)
LEMMA AttemptsStep ==
  ASSUME TypeOK, AttemptsLeft, [Next]_vars
  PROVE  AttemptsLeft'
<1> USE AttemptsAssumption DEF TypeOK, AttemptsLeft, Goto, Conclude
<1>1. CASE UNCHANGED vars
  BY <1>1 DEF vars
<1>2. ASSUME NEW c \in Callers, Begin(c) PROVE AttemptsLeft'
  BY <1>2 DEF Begin
<1>3. ASSUME NEW c \in Callers, Crash(c) PROVE AttemptsLeft'
  BY <1>3 DEF Crash
<1>4. ASSUME NEW c \in Callers, OpenLock(c) PROVE AttemptsLeft'
  BY <1>4 DEF OpenLock
<1>5. ASSUME NEW c \in Callers, LockBusy(c) PROVE AttemptsLeft'
  BY <1>5 DEF LockBusy
<1>6. ASSUME NEW c \in Callers, ReadNew(c) PROVE AttemptsLeft'
  BY <1>6 DEF ReadNew
<1>7. ASSUME NEW c \in Callers, ReadPrior(c) PROVE AttemptsLeft'
  BY <1>7 DEF ReadPrior
<1>8. ASSUME NEW c \in Callers, ReadConflict(c) PROVE AttemptsLeft'
  BY <1>8 DEF ReadConflict
<1>9. ASSUME NEW c \in Callers, ReadFind(c) PROVE AttemptsLeft'
  BY <1>9 DEF ReadFind
<1>10. ASSUME NEW c \in Callers, ReadFails(c) PROVE AttemptsLeft'
  BY <1>10 DEF ReadFails
<1>11. ASSUME NEW c \in Callers, WriteTemporary(c) PROVE AttemptsLeft'
  BY <1>11 DEF WriteTemporary
<1>12. ASSUME NEW c \in Callers, WriteFails(c) PROVE AttemptsLeft'
  BY <1>12 DEF WriteFails
<1>13. ASSUME NEW c \in Callers, Rename(c) PROVE AttemptsLeft'
  BY <1>13 DEF Rename
<1>14. ASSUME NEW c \in Callers, RenameFails(c) PROVE AttemptsLeft'
  BY <1>14 DEF RenameFails
<1>15. ASSUME NEW c \in Callers, Close(c) PROVE AttemptsLeft'
  BY <1>15 DEF Close
<1>16. ASSUME NEW c \in Callers, CloseFails(c) PROVE AttemptsLeft'
  BY <1>16 DEF CloseFails
<1>17. ASSUME NEW c \in Callers, Unlink(c) PROVE AttemptsLeft'
  BY <1>17 DEF Unlink
<1>18. ASSUME NEW c \in Callers, UnlinkFails(c) PROVE AttemptsLeft'
  BY <1>18 DEF UnlinkFails
<1> QED
  BY <1>1, <1>2, <1>3, <1>4, <1>5, <1>6, <1>7, <1>8, <1>9, <1>10, <1>11, <1>12, <1>13, <1>14, <1>15, <1>16, <1>17, <1>18
     DEF Next, Step

-----------------------------------------------------------------------------
(* One holder, and what it has read stays: only the holder moves on, and a *)
(* lock is only created where there is none.                               *)
LEMMA HolderStep ==
  ASSUME TypeOK, HolderUndisturbed, [Next]_vars
  PROVE  HolderUndisturbed'
<1> USE DEF TypeOK, HolderUndisturbed, Holding, HoldingPCs, Goto, Conclude
<1>1. CASE UNCHANGED vars
  BY <1>1 DEF vars
<1>2. ASSUME NEW c \in Callers, Begin(c) PROVE HolderUndisturbed'
  BY <1>2 DEF Begin
<1>3. ASSUME NEW c \in Callers, Crash(c) PROVE HolderUndisturbed'
  BY <1>3 DEF Crash
<1>4. ASSUME NEW c \in Callers, OpenLock(c) PROVE HolderUndisturbed'
  BY <1>4 DEF OpenLock
<1>5. ASSUME NEW c \in Callers, LockBusy(c) PROVE HolderUndisturbed'
  BY <1>5 DEF LockBusy
<1>6. ASSUME NEW c \in Callers, ReadNew(c) PROVE HolderUndisturbed'
  BY <1>6 DEF ReadNew
<1>7. ASSUME NEW c \in Callers, ReadPrior(c) PROVE HolderUndisturbed'
  BY <1>7 DEF ReadPrior
<1>8. ASSUME NEW c \in Callers, ReadConflict(c) PROVE HolderUndisturbed'
  BY <1>8 DEF ReadConflict
<1>9. ASSUME NEW c \in Callers, ReadFind(c) PROVE HolderUndisturbed'
  BY <1>9 DEF ReadFind
<1>10. ASSUME NEW c \in Callers, ReadFails(c) PROVE HolderUndisturbed'
  BY <1>10 DEF ReadFails
<1>11. ASSUME NEW c \in Callers, WriteTemporary(c) PROVE HolderUndisturbed'
  BY <1>11 DEF WriteTemporary
<1>12. ASSUME NEW c \in Callers, WriteFails(c) PROVE HolderUndisturbed'
  BY <1>12 DEF WriteFails
<1>13. ASSUME NEW c \in Callers, Rename(c) PROVE HolderUndisturbed'
  BY <1>13 DEF Rename
<1>14. ASSUME NEW c \in Callers, RenameFails(c) PROVE HolderUndisturbed'
  BY <1>14 DEF RenameFails
<1>15. ASSUME NEW c \in Callers, Close(c) PROVE HolderUndisturbed'
  BY <1>15 DEF Close
<1>16. ASSUME NEW c \in Callers, CloseFails(c) PROVE HolderUndisturbed'
  BY <1>16 DEF CloseFails
<1>17. ASSUME NEW c \in Callers, Unlink(c) PROVE HolderUndisturbed'
  BY <1>17 DEF Unlink
<1>18. ASSUME NEW c \in Callers, UnlinkFails(c) PROVE HolderUndisturbed'
  BY <1>18 DEF UnlinkFails
<1> QED
  BY <1>1, <1>2, <1>3, <1>4, <1>5, <1>6, <1>7, <1>8, <1>9, <1>10, <1>11, <1>12, <1>13, <1>14, <1>15, <1>16, <1>17, <1>18
     DEF Next, Step

-----------------------------------------------------------------------------
(* An answer names a record of the file, and the file only grows.          *)
LEMMA AnswersStep ==
  ASSUME TypeOK, HolderUndisturbed, AnswersStand, [Next]_vars
  PROVE  AnswersStand'
<1> USE DEF TypeOK, AnswersStand, Conclude, Goto, Answer, Failed
<1>1. CASE UNCHANGED vars
  BY <1>1 DEF vars
<1>2. ASSUME NEW c \in Callers, Begin(c) PROVE AnswersStand'
  BY <1>2 DEF Begin
<1>3. ASSUME NEW c \in Callers, Crash(c) PROVE AnswersStand'
  BY <1>3 DEF Crash
<1>4. ASSUME NEW c \in Callers, OpenLock(c) PROVE AnswersStand'
  BY <1>4 DEF OpenLock
<1>5. ASSUME NEW c \in Callers, LockBusy(c) PROVE AnswersStand'
  BY <1>5 DEF LockBusy
<1>6. ASSUME NEW c \in Callers, ReadNew(c) PROVE AnswersStand'
  BY <1>6 DEF ReadNew
<1>7. ASSUME NEW c \in Callers, ReadPrior(c) PROVE AnswersStand'
  BY <1>7 DEF ReadPrior, Priors
<1>8. ASSUME NEW c \in Callers, ReadConflict(c) PROVE AnswersStand'
  BY <1>8 DEF ReadConflict
<1>9. ASSUME NEW c \in Callers, ReadFind(c) PROVE AnswersStand'
  BY <1>9 DEF ReadFind, Asked
<1>10. ASSUME NEW c \in Callers, ReadFails(c) PROVE AnswersStand'
  BY <1>10 DEF ReadFails
<1>11. ASSUME NEW c \in Callers, WriteTemporary(c) PROVE AnswersStand'
  BY <1>11 DEF WriteTemporary
<1>12. ASSUME NEW c \in Callers, WriteFails(c) PROVE AnswersStand'
  BY <1>12 DEF WriteFails
<1>13. ASSUME NEW c \in Callers, Rename(c) PROVE AnswersStand'
  <2>1. /\ pc[c] = "renaming" /\ pc' = [pc EXCEPT ![c] = "closing"]
        /\ file' = file \cup {request[c].record}
        /\ answer' = [answer EXCEPT ![c] = Answer("created", request[c].record)]
        /\ request' = request
    BY <1>13 DEF Rename, HolderUndisturbed, Goto, Conclude
  <2> QED BY <2>1
<1>14. ASSUME NEW c \in Callers, RenameFails(c) PROVE AnswersStand'
  BY <1>14 DEF RenameFails
<1>15. ASSUME NEW c \in Callers, Close(c) PROVE AnswersStand'
  BY <1>15 DEF Close
<1>16. ASSUME NEW c \in Callers, CloseFails(c) PROVE AnswersStand'
  BY <1>16 DEF CloseFails
<1>17. ASSUME NEW c \in Callers, Unlink(c) PROVE AnswersStand'
  BY <1>17 DEF Unlink
<1>18. ASSUME NEW c \in Callers, UnlinkFails(c) PROVE AnswersStand'
  BY <1>18 DEF UnlinkFails
<1> QED
  BY <1>1, <1>2, <1>3, <1>4, <1>5, <1>6, <1>7, <1>8, <1>9, <1>10, <1>11, <1>12, <1>13, <1>14, <1>15, <1>16, <1>17, <1>18
     DEF Next, Step

-----------------------------------------------------------------------------
(* The record that is added shares no key and no operation.                *)
LEMMA FileStep ==
  ASSUME TypeOK, HolderUndisturbed, WriterKnows, WellFormed(file), [Next]_vars
  PROVE  WellFormed(file)'
<1> USE DEF WellFormed
<1>1. CASE UNCHANGED vars
  BY <1>1 DEF vars
<1>2. ASSUME NEW c \in Callers, Begin(c) PROVE WellFormed(file)'
  BY <1>2 DEF Begin
<1>3. ASSUME NEW c \in Callers, Crash(c) PROVE WellFormed(file)'
  BY <1>3 DEF Crash
<1>4. ASSUME NEW c \in Callers, OpenLock(c) PROVE WellFormed(file)'
  BY <1>4 DEF OpenLock
<1>5. ASSUME NEW c \in Callers, LockBusy(c) PROVE WellFormed(file)'
  BY <1>5 DEF LockBusy
<1>6. ASSUME NEW c \in Callers, ReadNew(c) PROVE WellFormed(file)'
  BY <1>6 DEF ReadNew
<1>7. ASSUME NEW c \in Callers, ReadPrior(c) PROVE WellFormed(file)'
  BY <1>7 DEF ReadPrior
<1>8. ASSUME NEW c \in Callers, ReadConflict(c) PROVE WellFormed(file)'
  BY <1>8 DEF ReadConflict
<1>9. ASSUME NEW c \in Callers, ReadFind(c) PROVE WellFormed(file)'
  BY <1>9 DEF ReadFind
<1>10. ASSUME NEW c \in Callers, ReadFails(c) PROVE WellFormed(file)'
  BY <1>10 DEF ReadFails
<1>11. ASSUME NEW c \in Callers, WriteTemporary(c) PROVE WellFormed(file)'
  BY <1>11 DEF WriteTemporary
<1>12. ASSUME NEW c \in Callers, WriteFails(c) PROVE WellFormed(file)'
  BY <1>12 DEF WriteFails
<1>13. ASSUME NEW c \in Callers, Rename(c) PROVE WellFormed(file)'
  <2>1. /\ pc[c] = "renaming" /\ pc' = [pc EXCEPT ![c] = "closing"]
        /\ file' = file \cup {request[c].record}
        /\ answer' = [answer EXCEPT ![c] = Answer("created", request[c].record)]
        /\ request' = request
    BY <1>13 DEF Rename, HolderUndisturbed, Goto, Conclude
  <2>2. Priors(file, request[c].record) = {}
    BY <2>1 DEF WriterKnows
  <2> QED BY <2>1, <2>2 DEF Priors
<1>14. ASSUME NEW c \in Callers, RenameFails(c) PROVE WellFormed(file)'
  BY <1>14 DEF RenameFails
<1>15. ASSUME NEW c \in Callers, Close(c) PROVE WellFormed(file)'
  BY <1>15 DEF Close
<1>16. ASSUME NEW c \in Callers, CloseFails(c) PROVE WellFormed(file)'
  BY <1>16 DEF CloseFails
<1>17. ASSUME NEW c \in Callers, Unlink(c) PROVE WellFormed(file)'
  BY <1>17 DEF Unlink
<1>18. ASSUME NEW c \in Callers, UnlinkFails(c) PROVE WellFormed(file)'
  BY <1>18 DEF UnlinkFails
<1> QED
  BY <1>1, <1>2, <1>3, <1>4, <1>5, <1>6, <1>7, <1>8, <1>9, <1>10, <1>11, <1>12, <1>13, <1>14, <1>15, <1>16, <1>17, <1>18
     DEF Next, Step

-----------------------------------------------------------------------------
(* Nobody else writes while one is about to.                               *)
LEMMA WriterStep ==
  ASSUME TypeOK, HolderUndisturbed, WriterKnows, [Next]_vars
  PROVE  WriterKnows'
<1> USE DEF TypeOK, WriterKnows, Goto, Conclude
<1>1. CASE UNCHANGED vars
  BY <1>1 DEF vars
<1>2. ASSUME NEW c \in Callers, Begin(c) PROVE WriterKnows'
  BY <1>2 DEF Begin
<1>3. ASSUME NEW c \in Callers, Crash(c) PROVE WriterKnows'
  BY <1>3 DEF Crash
<1>4. ASSUME NEW c \in Callers, OpenLock(c) PROVE WriterKnows'
  BY <1>4 DEF OpenLock
<1>5. ASSUME NEW c \in Callers, LockBusy(c) PROVE WriterKnows'
  BY <1>5 DEF LockBusy
<1>6. ASSUME NEW c \in Callers, ReadNew(c) PROVE WriterKnows'
  BY <1>6 DEF ReadNew
<1>7. ASSUME NEW c \in Callers, ReadPrior(c) PROVE WriterKnows'
  BY <1>7 DEF ReadPrior
<1>8. ASSUME NEW c \in Callers, ReadConflict(c) PROVE WriterKnows'
  BY <1>8 DEF ReadConflict
<1>9. ASSUME NEW c \in Callers, ReadFind(c) PROVE WriterKnows'
  BY <1>9 DEF ReadFind
<1>10. ASSUME NEW c \in Callers, ReadFails(c) PROVE WriterKnows'
  BY <1>10 DEF ReadFails
<1>11. ASSUME NEW c \in Callers, WriteTemporary(c) PROVE WriterKnows'
  BY <1>11 DEF WriteTemporary
<1>12. ASSUME NEW c \in Callers, WriteFails(c) PROVE WriterKnows'
  BY <1>12 DEF WriteFails
<1>13. ASSUME NEW c \in Callers, Rename(c) PROVE WriterKnows'
  <2>1. /\ pc[c] = "renaming" /\ pc' = [pc EXCEPT ![c] = "closing"]
        /\ file' = file \cup {request[c].record}
        /\ answer' = [answer EXCEPT ![c] = Answer("created", request[c].record)]
        /\ request' = request
    BY <1>13 DEF Rename, HolderUndisturbed, Goto, Conclude
  <2>2. \A d \in Callers \ {c} : pc[d] \notin {"writing", "renaming"}
    BY <2>1 DEF HolderUndisturbed, Holding, HoldingPCs
  <2> QED BY <2>1, <2>2
<1>14. ASSUME NEW c \in Callers, RenameFails(c) PROVE WriterKnows'
  BY <1>14 DEF RenameFails
<1>15. ASSUME NEW c \in Callers, Close(c) PROVE WriterKnows'
  BY <1>15 DEF Close
<1>16. ASSUME NEW c \in Callers, CloseFails(c) PROVE WriterKnows'
  BY <1>16 DEF CloseFails
<1>17. ASSUME NEW c \in Callers, Unlink(c) PROVE WriterKnows'
  BY <1>17 DEF Unlink
<1>18. ASSUME NEW c \in Callers, UnlinkFails(c) PROVE WriterKnows'
  BY <1>18 DEF UnlinkFails
<1> QED
  BY <1>1, <1>2, <1>3, <1>4, <1>5, <1>6, <1>7, <1>8, <1>9, <1>10, <1>11, <1>12, <1>13, <1>14, <1>15, <1>16, <1>17, <1>18
     DEF Next, Step

-----------------------------------------------------------------------------
(* A record told as created is in the file, where the next writer looked.  *)
LEMMA CreatedStep ==
  ASSUME TypeOK, HolderUndisturbed, AnswersStand, CreatedOnce, WriterKnows, [Next]_vars
  PROVE  CreatedOnce'
<1> USE DEF TypeOK, CreatedOnce, Conclude, Goto, Answer, Failed
<1>1. CASE UNCHANGED vars
  BY <1>1 DEF vars
<1>2. ASSUME NEW c \in Callers, Begin(c) PROVE CreatedOnce'
  BY <1>2 DEF Begin
<1>3. ASSUME NEW c \in Callers, Crash(c) PROVE CreatedOnce'
  BY <1>3 DEF Crash
<1>4. ASSUME NEW c \in Callers, OpenLock(c) PROVE CreatedOnce'
  BY <1>4 DEF OpenLock
<1>5. ASSUME NEW c \in Callers, LockBusy(c) PROVE CreatedOnce'
  BY <1>5 DEF LockBusy
<1>6. ASSUME NEW c \in Callers, ReadNew(c) PROVE CreatedOnce'
  BY <1>6 DEF ReadNew
<1>7. ASSUME NEW c \in Callers, ReadPrior(c) PROVE CreatedOnce'
  BY <1>7 DEF ReadPrior, Priors
<1>8. ASSUME NEW c \in Callers, ReadConflict(c) PROVE CreatedOnce'
  BY <1>8 DEF ReadConflict
<1>9. ASSUME NEW c \in Callers, ReadFind(c) PROVE CreatedOnce'
  BY <1>9 DEF ReadFind, Asked
<1>10. ASSUME NEW c \in Callers, ReadFails(c) PROVE CreatedOnce'
  BY <1>10 DEF ReadFails
<1>11. ASSUME NEW c \in Callers, WriteTemporary(c) PROVE CreatedOnce'
  BY <1>11 DEF WriteTemporary
<1>12. ASSUME NEW c \in Callers, WriteFails(c) PROVE CreatedOnce'
  BY <1>12 DEF WriteFails
<1>13. ASSUME NEW c \in Callers, Rename(c) PROVE CreatedOnce'
  <2>1. /\ pc[c] = "renaming" /\ pc' = [pc EXCEPT ![c] = "closing"]
        /\ file' = file \cup {request[c].record}
        /\ answer' = [answer EXCEPT ![c] = Answer("created", request[c].record)]
        /\ request' = request
    BY <1>13 DEF Rename, HolderUndisturbed, Goto, Conclude
  <2>2. Priors(file, request[c].record) = {}
    BY <2>1 DEF WriterKnows
  <2>3. \A d \in Callers : answer[d].result = "created"
          => /\ answer[d].record.key # request[c].record.key
             /\ answer[d].record.operation # request[c].record.operation
    BY <2>2 DEF AnswersStand, Priors
  <2> QED BY <2>1, <2>3
<1>14. ASSUME NEW c \in Callers, RenameFails(c) PROVE CreatedOnce'
  BY <1>14 DEF RenameFails
<1>15. ASSUME NEW c \in Callers, Close(c) PROVE CreatedOnce'
  BY <1>15 DEF Close
<1>16. ASSUME NEW c \in Callers, CloseFails(c) PROVE CreatedOnce'
  BY <1>16 DEF CloseFails
<1>17. ASSUME NEW c \in Callers, Unlink(c) PROVE CreatedOnce'
  BY <1>17 DEF Unlink
<1>18. ASSUME NEW c \in Callers, UnlinkFails(c) PROVE CreatedOnce'
  BY <1>18 DEF UnlinkFails
<1> QED
  BY <1>1, <1>2, <1>3, <1>4, <1>5, <1>6, <1>7, <1>8, <1>9, <1>10, <1>11, <1>12, <1>13, <1>14, <1>15, <1>16, <1>17, <1>18
     DEF Next, Step

-----------------------------------------------------------------------------
(* The invariant holds of every behaviour.                                 *)
LEMMA Inductive == Inv /\ [Next]_vars => Inv'
  BY TypeStep, AttemptsStep, HolderStep, AnswersStep, FileStep, WriterStep, CreatedStep
     DEF Inv

LEMMA Invariance == Spec => []Inv
  BY InitInv, Inductive, PTL DEF Spec

(* Every variable keeps its type; a call never makes more than MaxAttempts *)
(* attempts at the lock.                                                   *)
THEOREM TypeCorrect == Spec => []TypeOK
<1>1. Inv => TypeOK
  BY DEF Inv
<1> QED BY <1>1, Invariance, PTL

(* The lock file keeps its promise: one holder, whose document is the      *)
(* file, whoever dies and whatever fails.                                  *)
THEOREM LockHolds == Spec => []HolderUndisturbed
<1>1. Inv => HolderUndisturbed
  BY DEF Inv
<1> QED BY <1>1, Invariance, PTL

(* No assignment that a caller was told of ever disappears or changes.     *)
THEOREM AnswersStayTrue == Spec => []AnswersStand
<1>1. Inv => AnswersStand
  BY DEF Inv
<1> QED BY <1>1, Invariance, PTL

(* One assignment for each key and each operation is told as new once.     *)
THEOREM ToldOnce == Spec => []CreatedOnce
<1>1. Inv => CreatedOnce
  BY DEF Inv
<1> QED BY <1>1, Invariance, PTL

-----------------------------------------------------------------------------
(* A step from a state with an orphaned lock: nobody holds it, and only    *)
(* holders write, answer or unlink.                                        *)
LEMMA OrphanStep ==
  ASSUME TypeOK, Orphaned, [Next]_vars
  PROVE  OrphanKept
<1> USE DEF TypeOK, OrphanKept, Orphaned, Holding, HoldingPCs, Goto, Conclude, Answer, Failed
<1>1. CASE UNCHANGED vars
  BY <1>1 DEF vars
<1>2. ASSUME NEW c \in Callers, Begin(c) PROVE OrphanKept
  BY <1>2 DEF Begin
<1>3. ASSUME NEW c \in Callers, Crash(c) PROVE OrphanKept
  BY <1>3 DEF Crash
<1>4. ASSUME NEW c \in Callers, OpenLock(c) PROVE OrphanKept
  BY <1>4 DEF OpenLock
<1>5. ASSUME NEW c \in Callers, LockBusy(c) PROVE OrphanKept
  BY <1>5 DEF LockBusy
<1>6. ASSUME NEW c \in Callers, ReadNew(c) PROVE OrphanKept
  BY <1>6 DEF ReadNew
<1>7. ASSUME NEW c \in Callers, ReadPrior(c) PROVE OrphanKept
  BY <1>7 DEF ReadPrior
<1>8. ASSUME NEW c \in Callers, ReadConflict(c) PROVE OrphanKept
  BY <1>8 DEF ReadConflict
<1>9. ASSUME NEW c \in Callers, ReadFind(c) PROVE OrphanKept
  BY <1>9 DEF ReadFind
<1>10. ASSUME NEW c \in Callers, ReadFails(c) PROVE OrphanKept
  BY <1>10 DEF ReadFails
<1>11. ASSUME NEW c \in Callers, WriteTemporary(c) PROVE OrphanKept
  BY <1>11 DEF WriteTemporary
<1>12. ASSUME NEW c \in Callers, WriteFails(c) PROVE OrphanKept
  BY <1>12 DEF WriteFails
<1>13. ASSUME NEW c \in Callers, Rename(c) PROVE OrphanKept
  BY <1>13 DEF Rename
<1>14. ASSUME NEW c \in Callers, RenameFails(c) PROVE OrphanKept
  BY <1>14 DEF RenameFails
<1>15. ASSUME NEW c \in Callers, Close(c) PROVE OrphanKept
  BY <1>15 DEF Close
<1>16. ASSUME NEW c \in Callers, CloseFails(c) PROVE OrphanKept
  BY <1>16 DEF CloseFails
<1>17. ASSUME NEW c \in Callers, Unlink(c) PROVE OrphanKept
  BY <1>17 DEF Unlink
<1>18. ASSUME NEW c \in Callers, UnlinkFails(c) PROVE OrphanKept
  BY <1>18 DEF UnlinkFails
<1> QED
  BY <1>1, <1>2, <1>3, <1>4, <1>5, <1>6, <1>7, <1>8, <1>9, <1>10, <1>11, <1>12, <1>13, <1>14, <1>15, <1>16, <1>17, <1>18
     DEF Next, Step

(* An orphaned lock file stops the store for good, and harms nothing.      *)
THEOREM OrphansFailSafe == Spec => OrphanFailsSafe
<1>1. Inv /\ [Next]_vars => [Orphaned => OrphanKept]_vars
  BY OrphanStep DEF Inv
<1> QED BY <1>1, Invariance, PTL DEF Spec, OrphanFailsSafe

-----------------------------------------------------------------------------
(* The refinement: the read decides, except for a new assignment, which    *)
(* the rename makes.                                                       *)

(* How the mapped variables follow the steps of a call.                    *)
LEMMA PhaseMoves ==
  ASSUME TypeOK, NEW c \in Callers, NEW to \in PCs, pc' = [pc EXCEPT ![c] = to]
  PROVE  Phase' = [Phase EXCEPT ![c] =
                      IF to = "idle" THEN "idle"
                      ELSE IF to \in {"closing", "unlinking"} THEN "done" ELSE "pending"]
  BY DEF TypeOK, Phase

LEMMA PhaseStays ==
  ASSUME TypeOK, NEW c \in Callers, NEW to \in {"locked", "writing", "renaming", "unlinking"},
         pc' = [pc EXCEPT ![c] = to],
         pc[c] # "idle",
         to = "unlinking" <=> pc[c] \in {"closing", "unlinking"}
  PROVE  Phase' = Phase
  BY DEF TypeOK, Phase

LEMMA ToldMoves ==
  ASSUME TypeOK, NEW c \in Callers, NEW a, a.result # "timed_out",
         answer' = [answer EXCEPT ![c] = a]
  PROVE  Told' = [Told EXCEPT ![c] = a]
  BY DEF TypeOK, Told

LEMMA ToldStays ==
  ASSUME answer' = answer
  PROVE  Told' = Told
  BY DEF Told

(* A call that concludes decides: one instant, one answer.                 *)
LEMMA ConcludeDecides ==
  ASSUME TypeOK, NEW c \in Callers, NEW a, a.result # "timed_out",
         NEW from \in {"locked", "writing", "renaming"},
         Conclude(c, from, a), request' = request
  PROVE  Register!Decide(c, a)
<1>1. pc[c] = from /\ pc' = [pc EXCEPT ![c] = "closing"]
  BY DEF Conclude, Goto
<1>2. Phase' = [Phase EXCEPT ![c] = "done"]
  BY <1>1, PhaseMoves DEF PCs, HoldingPCs
<1>3. Phase[c] = "pending"
  BY <1>1 DEF Phase
<1>4. Told' = [Told EXCEPT ![c] = a]
  BY ToldMoves DEF Conclude
<1> QED BY <1>2, <1>3, <1>4 DEF Register!Decide

(* A call that ends without a result, whatever it had done, is cut off.    *)
LEMMA EndsCutOff ==
  ASSUME TypeOK, NEW c \in Callers, pc[c] # "idle", pc' = [pc EXCEPT ![c] = "idle"],
         NEW result \in {"failed", "timed_out"},
         answer' = [answer EXCEPT ![c] = Answer(result, None)],
         UNCHANGED <<file, request>>
  PROVE  Register!CutOff(c)
<1>1. Phase' = [Phase EXCEPT ![c] = "idle"]
  BY PhaseMoves DEF PCs
<1>2. Phase[c] # "idle"
  BY DEF Phase
<1>3. Told' = [Told EXCEPT ![c] = Failed]
  BY DEF TypeOK, Told, Answer, Failed
<1> QED BY <1>1, <1>2, <1>3 DEF Register!CutOff, Register!Answer, Failed, Answer

LEMMA InitRefines == Init => Register!Init
  BY DEF Init, Register!Init, Register!Answer, Answer, Phase, Told

LEMMA StepRefines ==
  ASSUME Inv, [Next]_vars
  PROVE  [Register!Next]_(Register!vars)
<1> USE DEF Inv
<1>1. CASE UNCHANGED vars
  BY <1>1 DEF vars, Register!vars, Phase, Told
<1> SUFFICES ASSUME NEW c \in Callers, Begin(c) \/ Step(c) \/ Crash(c)
             PROVE  [Register!Next]_(Register!vars)
  BY <1>1 DEF Next
<1> USE DEF Register!Next
<1>2. CASE Begin(c)
  <2>1. Phase' = [Phase EXCEPT ![c] = "pending"] /\ Phase[c] = "idle"
    <3>1. pc[c] = "idle" /\ pc' = [pc EXCEPT ![c] = "opening"]
      BY <1>2 DEF Begin, Goto
    <3>2. Phase' = [Phase EXCEPT ![c] = "pending"]
      BY <3>1 DEF TypeOK, Phase
    <3> QED BY <3>1, <3>2 DEF Phase
  <2>2. Told' = [Told EXCEPT ![c] = Answer("none", None)]
    BY <1>2, ToldMoves DEF Begin, Answer
  <2>3. Register!Begin(c)
    BY <1>2, <2>1, <2>2
       DEF Begin, Register!Begin, Register!Answer, Answer, Requests, SendRequest,
           KeyRequest, OperationRequest, Register!Requests
  <2> QED BY <2>3
<1>3. CASE Crash(c)
  <2>1. Register!CutOff(c)
    BY <1>3, EndsCutOff DEF Crash, Failed
  <2> QED BY <2>1
<1>4. CASE OpenLock(c) \/ ReadNew(c) \/ WriteTemporary(c) \/ Close(c)
  <2>1. PICK to \in {"locked", "writing", "renaming", "unlinking"} :
            /\ pc' = [pc EXCEPT ![c] = to]
            /\ pc[c] # "idle"
            /\ to = "unlinking" <=> pc[c] \in {"closing", "unlinking"}
    BY <1>4 DEF OpenLock, ReadNew, WriteTemporary, Close, Goto
  <2>2. UNCHANGED <<file, request, answer>>
    BY <1>4 DEF OpenLock, ReadNew, WriteTemporary, Close
  <2>3. Phase' = Phase
    BY <2>1, PhaseStays
  <2> QED BY <2>2, <2>3, ToldStays DEF Register!vars
<1>5. CASE LockBusy(c)
  <2>1. CASE attempts[c] + 1 = MaxAttempts
    <3>1. Register!CutOff(c)
      BY <1>5, <2>1, EndsCutOff DEF LockBusy
    <3> QED BY <3>1
  <2>2. CASE attempts[c] + 1 # MaxAttempts
    <3>1. UNCHANGED <<file, pc, request, answer>>
      BY <1>5, <2>2 DEF LockBusy
    <3> QED BY <3>1 DEF Register!vars, Phase, Told
  <2> QED BY <2>1, <2>2
<1>6. CASE ReadPrior(c)
  <2>1. PICK r \in Priors(file, request[c].record) :
            Conclude(c, "locked", Answer("found", r))
    BY <1>6 DEF ReadPrior
  <2>2. Register!Decide(c, Answer("found", r))
    BY <1>6, <2>1, ConcludeDecides DEF ReadPrior, Answer
  <2>3. r \in file /\ SameBinding(r, request[c].record) /\ request[c] \in SendRequest
    BY <1>6 DEF ReadPrior, Priors, Conflicts
  <2>4. Register!Wanted(r, request[c])
    BY <2>3 DEF Register!Wanted, Register!Matches, SameBinding, SendRequest
  <2>5. Register!Find(c)
    BY <1>6, <2>2, <2>3, <2>4 DEF ReadPrior, Register!Find, Register!Answer, Answer
  <2> QED BY <2>5
<1>7. CASE ReadConflict(c)
  <2>1. Register!Decide(c, Answer("conflict", None))
    BY <1>7, ConcludeDecides DEF ReadConflict, Answer
  <2>2. \E r \in file : Register!AtOdds(r, request[c].record)
    BY <1>7 DEF ReadConflict, Conflicts, SameBinding, Register!AtOdds
  <2>3. Register!Refuse(c)
    BY <1>7, <2>1, <2>2
       DEF ReadConflict, SendRequest, Register!Refuse, Register!Answer, Answer
  <2> QED BY <2>3
<1>8. CASE ReadFind(c)
  <2>1. CASE \E r \in Asked(file, request[c]) :
                 Conclude(c, "locked", Answer("found", r))
    <3>1. PICK r \in Asked(file, request[c]) : Conclude(c, "locked", Answer("found", r))
      BY <2>1
    <3>2. Register!Decide(c, Answer("found", r))
      BY <1>8, <3>1, ConcludeDecides DEF ReadFind, Answer
    <3>3. r \in file /\ Register!Wanted(r, request[c])
      BY DEF Asked, KeyRequest, OperationRequest, Register!Wanted
    <3>4. Register!Find(c)
      BY <1>8, <3>2, <3>3 DEF ReadFind, Register!Find, Register!Answer, Answer
    <3> QED BY <3>4
  <2>2. CASE /\ Asked(file, request[c]) = {}
             /\ Conclude(c, "locked", Answer("absent", None))
    <3>1. Register!Decide(c, Answer("absent", None))
      BY <1>8, <2>2, ConcludeDecides DEF ReadFind, Answer
    <3>2. request[c] \notin SendRequest
      BY <1>8 DEF ReadFind, SendRequest, KeyRequest, OperationRequest
    <3>3. \A r \in file : ~Register!Wanted(r, request[c])
      BY <2>2, <3>2 DEF Asked, SendRequest, KeyRequest, OperationRequest, Register!Wanted
    <3>4. Register!Miss(c)
      BY <1>8, <3>1, <3>2, <3>3
         DEF ReadFind, SendRequest, Register!Miss, Register!Answer, Answer
    <3> QED BY <3>4
  <2> QED BY <1>8, <2>1, <2>2 DEF ReadFind
<1>9. CASE ReadFails(c) \/ WriteFails(c) \/ RenameFails(c)
  <2>1. PICK from \in {"locked", "writing", "renaming"} : Conclude(c, from, Failed)
    BY <1>9 DEF ReadFails, WriteFails, RenameFails
  <2>2. UNCHANGED <<file, request>>
    BY <1>9 DEF ReadFails, WriteFails, RenameFails
  <2>3. Register!Decide(c, Failed)
    BY <2>1, <2>2, ConcludeDecides DEF Failed, Answer
  <2>4. Register!Fail(c)
    BY <2>2, <2>3 DEF Register!Fail, Register!Answer, Failed, Answer
  <2> QED BY <2>4
<1>10. CASE Rename(c)
  <2>1. /\ pc[c] = "renaming"
        /\ file' = file \cup {request[c].record}
        /\ request' = request
        /\ Conclude(c, "renaming", Answer("created", request[c].record))
    BY <1>10 DEF Rename, HolderUndisturbed, Conclude, Goto
  <2>2. /\ request[c] \in SendRequest
        /\ Priors(file, request[c].record) = {}
    BY <2>1 DEF WriterKnows
  <2>3. PICK new : new = request[c].record
    OBVIOUS
  <2>4. Register!Decide(c, Answer("created", new))
    BY <2>1, <2>3, ConcludeDecides DEF Answer
  <2>5. \A r \in file : r.key # new.key /\ r.operation # new.operation
    BY <2>2, <2>3 DEF Priors
  <2>6. Register!Create(c)
    BY <2>1, <2>2, <2>3, <2>4, <2>5
       DEF SendRequest, Register!Create, Register!Answer, Answer
  <2> QED BY <2>6
<1>11. CASE CloseFails(c)
  <2>1. Register!CutOff(c)
    BY <1>11, EndsCutOff DEF CloseFails, Goto, Failed
  <2> QED BY <2>1
<1>12. CASE Unlink(c) \/ UnlinkFails(c)
  <2>1. /\ pc[c] = "unlinking" /\ pc' = [pc EXCEPT ![c] = "idle"]
        /\ UNCHANGED <<file, request, answer>>
    BY <1>12 DEF Unlink, UnlinkFails, Goto
  <2>2. Phase' = [Phase EXCEPT ![c] = "idle"] /\ Phase[c] = "done"
    BY <2>1, PhaseMoves DEF PCs, Phase
  <2>3. Register!Return(c)
    BY <2>1, <2>2, ToldStays DEF Register!Return
  <2> QED BY <2>3
<1> QED
  BY <1>2, <1>3, <1>4, <1>5, <1>6, <1>7, <1>8, <1>9, <1>10, <1>11, <1>12 DEF Step

(* The lock file, the read and the rename together are atomic: the store   *)
(* is a register whose calls take effect at one instant each.              *)
THEOREM ImplementsRegister == Spec => RegisterSpec
<1>1. Inv /\ [Next]_vars => [Register!Next]_(Register!vars)
  BY StepRefines
<1> QED BY <1>1, InitRefines, Invariance, PTL DEF Spec, RegisterSpec, Register!Spec
-----------------------------------------------------------------------------
(* What became of the assignments.                                         *)

(* The abstract register only grows.                                       *)
LEMMA RegisterGrows ==
    ASSUME [Register!Next]_(Register!vars)
    PROVE  file \subseteq file'
  BY DEF Register!Next, Register!vars, Register!Begin, Register!Create, Register!Refuse,
     Register!Find, Register!Miss, Register!Fail, Register!Return, Register!CutOff

(* An assignment once made stands for ever, although every write replaces  *)
(* the whole file by what its caller has read; and no key and no operation *)
(* ever has two.                                                           *)
THEOREM AssignmentsStand == Spec => [](WellFormed(file)) /\ [][file \subseteq file']_vars
<1>1. Inv => WellFormed(file)
  BY DEF Inv
<1>2. Inv /\ [Next]_vars => file \subseteq file'
  BY StepRefines, RegisterGrows
<1> QED BY <1>1, <1>2, Invariance, PTL DEF Spec
============================================================================
