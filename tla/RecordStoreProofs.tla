-------------------------- MODULE RecordStoreProofs --------------------------
(***************************************************************************)
(* Theorems about RecordStore, for any calls, processes and contents.      *)
(*                                                                         *)
(* Who was told that it created the record keeps it because only Write     *)
(* and WriteFails touch an existing file, and both belong to a call that   *)
(* created the file itself: O_EXCL lets one call in, and until that call   *)
(* is through nobody is told that he created it (WriterIsAlone, StoreInv). *)
(* Readers are told earlier, after the flush, and may be told of a record  *)
(* that its writer then withdraws.  The lock plays no part in it, as it    *)
(* must not: other processes do not share it.                              *)
(*                                                                         *)
(* The last part is about what is not promised: a torn record is lost for  *)
(* good, and whoever holds a lock is on the way to giving it back, so that *)
(* every answer comes nearer with every step of its call.                  *)
(***************************************************************************)
EXTENDS RecordStore, TLAPS

(* A call that returns keeps the types: the answer it gives is one.        *)
LEMMA ReturnTyped ==
  ASSUME TypeOK, NEW o \in Op, NEW s \in Verdict,
         NEW v \in Content \cup {None},
         Return(o, s, v), UNCHANGED want
  PROVE  /\ lock' \in [Process -> Op \cup {None}]
         /\ pc' \in [Op -> PC]
         /\ answer' \in [Op -> [status : Verdict, value : Content \cup {None}]]
         /\ \A q \in Op : SavingTyped(q)'
<1>1. lock' \in [Process -> Op \cup {None}] /\ pc' \in [Op -> PC]
    BY StoreAssumption DEF TypeOK, Return, PC
<1>2. answer' \in [Op -> [status : Verdict, value : Content \cup {None}]]
    BY DEF TypeOK, Return
<1>3. ASSUME NEW q \in Op PROVE SavingTyped(q)'
    BY DEF TypeOK, Return, SavingTyped
<1> QED
    BY <1>1, <1>2, <1>3

(* So does one that goes on to another step, if only a save goes writing.  *)
LEMMA GotoTyped ==
  ASSUME TypeOK, NEW o \in Op, NEW to \in PC, Goto(o, to), UNCHANGED want,
         to \in AtFile => want[o] \in Content, to # "create"
  PROVE  /\ lock' \in [Process -> Op \cup {None}]
         /\ pc' \in [Op -> PC]
         /\ answer' \in [Op -> [status : Verdict, value : Content \cup {None}]]
         /\ \A q \in Op : SavingTyped(q)'
<1>3. ASSUME NEW q \in Op PROVE SavingTyped(q)'
    BY DEF TypeOK, Goto, SavingTyped, AtFile
<1> QED
    BY <1>3 DEF TypeOK, Goto

(* Every step of RecordStore keeps the types of its variables.             *)
LEMMA StepTyped == TypeOK /\ [Next]_vars => TypeOK'
<1> SUFFICES ASSUME TypeOK, [Next]_vars PROVE TypeOK'
    OBVIOUS
<1> USE StoreAssumption
<1>1. ASSUME NEW o \in Op, Enter(o) PROVE TypeOK'
  <2>1. ASSUME NEW q \in Op PROVE SavingTyped(q)'
      BY <1>1 DEF Enter, TypeOK, SavingTyped, Saving
  <2>2. lock' \in [Process -> Op \cup {None}] /\ pc' \in [Op -> PC]
      BY <1>1 DEF Enter, TypeOK, PC
  <2> QED
      BY <2>1, <2>2, <1>1 DEF Enter, TypeOK
<1>2. ASSUME NEW o \in Op, Create(o) PROVE TypeOK'
  <2>1. file' \in Content \cup {Absent, Partial} /\ want' = want
      BY <1>2 DEF Create, TypeOK
  <2>2. CASE Goto(o, "write")
      BY <2>1, <2>2, <1>2, GotoTyped DEF Create, TypeOK, SavingTyped, PC,
         AtFile
  <2>3. CASE Goto(o, "look")
      BY <2>1, <2>3, GotoTyped DEF TypeOK, PC, AtFile
  <2> QED
      BY <2>2, <2>3, <1>2 DEF Create
<1>3. ASSUME NEW o \in Op, Write(o) PROVE TypeOK'
  <2>1. want[o] \in Content
      BY <1>3 DEF Write, TypeOK, SavingTyped
  <2> QED
      BY <2>1, <1>3, GotoTyped DEF Write, TypeOK, PC
<1>9. ASSUME NEW o \in Op, Sync(o) PROVE TypeOK'
  <2>1. want[o] \in Content
      BY <1>9 DEF Sync, TypeOK, SavingTyped
  <2> QED
      BY <2>1, <1>9, ReturnTyped DEF Sync, TypeOK, Verdict
<1>4. ASSUME NEW o \in Op, WriteFails(o) PROVE TypeOK'
  <2>1. PICK s \in NotPersisted : Return(o, s, None)
      BY <1>4 DEF WriteFails
  <2>2. s \in Verdict
      BY DEF NotPersisted, Verdict
  <2> QED
      BY <2>1, <2>2, <1>4, ReturnTyped DEF WriteFails, TypeOK
<1>5. ASSUME NEW o \in Op, Look(o) PROVE TypeOK'
  <2>1. CASE Goto(o, "read")
      BY <2>1, <1>5, GotoTyped DEF Look, TypeOK, PC, AtFile
  <2>2. ASSUME NEW s \in {"RECORD_INTEGRITY_FAILURE", "NOT_FOUND"},
               Return(o, s, None)
        PROVE  TypeOK'
      BY <2>2, <1>5, ReturnTyped DEF Look, TypeOK, Verdict
  <2> QED
      BY <2>1, <2>2, <1>5 DEF Look
<1>6. ASSUME NEW o \in Op, Read(o) PROVE TypeOK'
  <2>1. PICK s \in Verdict, v \in Content \cup {None} : Return(o, s, v)
      BY <1>6 DEF Read, Saving, TypeOK, Verdict
  <2> QED
      BY <2>1, <1>6, ReturnTyped DEF Read, TypeOK
<1>7. ASSUME NEW p \in Process, Crash(p) PROVE TypeOK'
  <2>1. ASSUME NEW q \in Op PROVE SavingTyped(q)'
      BY <1>7 DEF Crash, TypeOK, SavingTyped
  <2> QED
      BY <2>1, <1>7 DEF Crash, TypeOK, PC
<1>8. CASE UNCHANGED vars
    BY <1>8 DEF vars, TypeOK, SavingTyped
<1> QED
    BY <1>1, <1>2, <1>3, <1>9, <1>4, <1>5, <1>6, <1>7, <1>8 DEF Next, Inside

(* The variables of RecordStore always have their types.                   *)
THEOREM StoreTypeCorrect == Spec => []TypeOK
<1>1. Init => TypeOK
    BY StoreAssumption DEF Init, TypeOK, SavingTyped, PC, Verdict
<1> QED
    BY <1>1, StepTyped, PTL DEF Spec

-----------------------------------------------------------------------------
(* A return gives the process's own lock back and stops the call's work;   *)
(* the other calls' work and locks are untouched.                          *)
LEMMA ReturnKeepsLocks ==
  ASSUME TypeOK, LockHeld, NEW o \in Op, pc[o] \in Working,
         NEW s, NEW v, Return(o, s, v)
  PROVE  LockHeld'
<1> SUFFICES ASSUME NEW q \in Op, pc'[q] \in Working
             PROVE  lock'[ProcessOf[q]] = q
    BY DEF LockHeld
<1>1. q # o /\ pc[q] \in Working
    BY DEF Return, TypeOK, Working
<1>2. lock[ProcessOf[q]] = q /\ lock[ProcessOf[o]] = o
    BY <1>1 DEF LockHeld
<1> QED
    BY <1>1, <1>2 DEF Return, TypeOK

(* The call at work in a process is always the one that holds its lock.    *)
LEMMA LockHeldStep == TypeOK /\ LockHeld /\ [Next]_vars => LockHeld'
<1> SUFFICES ASSUME TypeOK, LockHeld, [Next]_vars PROVE LockHeld'
    OBVIOUS
<1>1. ASSUME NEW o \in Op, Enter(o) PROVE LockHeld'
    BY <1>1, StoreAssumption DEF Enter, LockHeld, TypeOK, Working
<1>2. ASSUME NEW o \in Op, NEW to, pc[o] \in Working, Goto(o, to)
      PROVE  LockHeld'
    BY <1>2 DEF Goto, LockHeld, TypeOK, Working
<1>3. ASSUME NEW o \in Op, Inside(o) PROVE LockHeld'
  <2>1. pc[o] \in Working
      BY <1>3 DEF Inside, Create, Write, Sync, WriteFails, Look, Read, Working
  <2>2. \/ \E to : Goto(o, to)
        \/ \E s, v : Return(o, s, v)
      BY <1>3 DEF Inside, Create, Write, Sync, WriteFails, Look, Read
  <2> QED
      BY <2>1, <2>2, <1>2, ReturnKeepsLocks
<1>4. ASSUME NEW p \in Process, Crash(p) PROVE LockHeld'
    BY <1>4, StoreAssumption DEF Crash, LockHeld, TypeOK, Working
<1>5. CASE UNCHANGED vars
    BY <1>5 DEF vars, LockHeld
<1> QED
    BY <1>1, <1>3, <1>4, <1>5 DEF Next

(* A call answers once, in its last step: no answer is taken back.         *)
LEMMA AnswersStand ==
  ASSUME TypeOK, AnswersAreFinal, [Next]_vars
  PROVE  /\ AnswersAreFinal'
         /\ \A o \in Op : answer[o].status # "NONE" => answer'[o] = answer[o]
<1> USE DEF AnswersAreFinal
<1>1. ASSUME NEW o \in Op, NEW s, NEW v, Return(o, s, v), pc[o] \in Working
      PROVE  /\ AnswersAreFinal'
             /\ \A q \in Op :
                  answer[q].status # "NONE" => answer'[q] = answer[q]
  <2>1. answer[o].status = "NONE"
      BY <1>1 DEF Working
  <2> QED
      BY <1>1, <2>1 DEF Return, TypeOK
<1>2. ASSUME NEW o \in Op, NEW to, pc[o] \in Working, Goto(o, to)
      PROVE  AnswersAreFinal' /\ answer' = answer
    BY <1>2 DEF Goto, TypeOK, Working
<1>3. ASSUME NEW o \in Op, Enter(o) PROVE AnswersAreFinal' /\ answer' = answer
    BY <1>3 DEF Enter, TypeOK
<1>4. ASSUME NEW o \in Op, Inside(o)
      PROVE  \/ pc[o] \in Working /\ \E to : Goto(o, to)
             \/ pc[o] \in Working /\ \E s, v : Return(o, s, v)
    BY <1>4 DEF Inside, Create, Write, Sync, WriteFails, Look, Read, Working
<1>5. ASSUME NEW p \in Process, Crash(p)
      PROVE  AnswersAreFinal' /\ answer' = answer
    BY <1>5 DEF Crash, TypeOK
<1>6. CASE UNCHANGED vars
    BY <1>6 DEF vars
<1> HIDE DEF AnswersAreFinal
<1> QED
    BY <1>1, <1>2, <1>3, <1>4, <1>5, <1>6 DEF Next

(* Whoever writes has the file to itself until it is settled or gone.      *)
LEMMA WriterIsAloneStep ==
  TypeOK /\ WriterIsAlone /\ ToldIsStored /\ CreatedIsTold /\ [Next]_vars
    => WriterIsAlone'
<1> SUFFICES ASSUME TypeOK, WriterIsAlone, ToldIsStored, CreatedIsTold,
                    [Next]_vars
             PROVE  WriterIsAlone'
    OBVIOUS
<1> USE StoreAssumption
<1>same. ASSUME UNCHANGED <<file, want>>,
                \A q \in Op : pc'[q] \in AtFile => pc'[q] = pc[q],
                \A q \in Op : answer'[q].status = "CREATED"
                               => answer[q].status = "CREATED"
         PROVE  WriterIsAlone'
    BY <1>same DEF WriterIsAlone
<1>1. ASSUME NEW o \in Op, Enter(o) PROVE WriterIsAlone'
    BY <1>1, <1>same DEF Enter, TypeOK, AtFile
<1>2. ASSUME NEW o \in Op, Create(o) PROVE WriterIsAlone'
  <2>1. CASE file # Absent
      BY <2>1, <1>2, <1>same DEF Create, Goto, TypeOK, AtFile
  <2>2. CASE file = Absent
    <3>1. \A q \in Op : pc[q] \notin AtFile
      <4>1. \A q \in Op : pc[q] \in AtFile => want[q] \in Content
          BY DEF TypeOK, SavingTyped, AtFile
      <4> QED
          BY <4>1, <2>2 DEF WriterIsAlone
    <3>2. \A q \in Op : answer[q].status # "CREATED"
      <4>1. ASSUME NEW q \in Op, answer[q].status = "CREATED" PROVE FALSE
        <5>1. answer[q].value # None => file = answer[q].value
            BY <4>1 DEF ToldIsStored
        <5>2. answer[q].value \in Content \cup {None}
            BY DEF TypeOK
        <5>3. answer[q].value # None
            BY <4>1 DEF CreatedIsTold
        <5> QED
            BY <5>1, <5>2, <5>3, <2>2
      <4> QED
          BY <4>1
    <3>3. /\ file' = Partial /\ answer' = answer
          /\ pc' = [pc EXCEPT ![o] = "write"]
        BY <2>2, <1>2 DEF Create, Goto
    <3> QED
        BY <3>1, <3>2, <3>3 DEF WriterIsAlone, TypeOK, AtFile
  <2> QED
      BY <2>1, <2>2
<1>3. ASSUME NEW o \in Op, Write(o) PROVE WriterIsAlone'
  <2>1. pc[o] \in AtFile /\ pc' = [pc EXCEPT ![o] = "sync"]
        /\ UNCHANGED <<want, answer>> /\ file' = want[o]
      BY <1>3 DEF Write, Goto, AtFile
  <2>2. \A q \in Op : /\ pc[q] \in AtFile => q = o
                      /\ answer[q].status # "CREATED"
      BY <2>1 DEF WriterIsAlone
  <2> QED
      BY <2>1, <2>2 DEF WriterIsAlone, TypeOK, AtFile
<1>4. ASSUME NEW o \in Op, Sync(o) \/ WriteFails(o) PROVE WriterIsAlone'
  <2>1. \A q \in Op : pc'[q] \notin AtFile
      BY <1>4 DEF Sync, WriteFails, Return, WriterIsAlone, TypeOK, AtFile
  <2> QED
      BY <2>1 DEF WriterIsAlone
<1>5. ASSUME NEW o \in Op, Look(o) \/ Read(o) PROVE WriterIsAlone'
  <2>1. \A q \in Op : pc'[q] \in AtFile => pc'[q] = pc[q]
      BY <1>5 DEF Look, Read, Return, Goto, TypeOK, AtFile
  <2>2. \A q \in Op : answer'[q].status = "CREATED"
                      => answer[q].status = "CREATED"
      BY <1>5 DEF Look, Read, Return, Goto, TypeOK
  <2> QED
      BY <2>1, <2>2, <1>5, <1>same DEF Look, Read
<1>6. ASSUME NEW p \in Process, Crash(p) PROVE WriterIsAlone'
  <2>1. \A q \in Op : pc'[q] \in AtFile => pc'[q] = pc[q]
      BY <1>6 DEF Crash, TypeOK, AtFile
  <2> QED
      BY <2>1, <1>6, <1>same DEF Crash
<1>7. CASE UNCHANGED vars
    BY <1>7, <1>same DEF vars
<1> QED
    BY <1>1, <1>2, <1>3, <1>4, <1>5, <1>6, <1>7 DEF Next, Inside

Told == ToldIsStored /\ CreatedIsTold /\ OneCreator

(* What was withdrawn stays withdrawn: the save that failed keeps its      *)
(* answer.                                                                 *)
LEMMA WithdrawnStays ==
  ASSUME TypeOK, AnswersAreFinal, [Next]_vars
  PROVE  Withdrawn \subseteq Withdrawn'
<1>1. want' = want
    BY DEF Next, Inside, Enter, Create, Write, Sync, WriteFails, Look, Read,
       Crash, vars
<1>2. \A q \in Op : answer[q].status \in NotPersisted => answer'[q] = answer[q]
    BY AnswersStand DEF NotPersisted
<1> QED
    BY <1>1, <1>2 DEF Withdrawn

(* A step that only gives one answer, or none, and leaves the file keeps   *)
(* what was told, if the answer is true.                                   *)
LEMMA ToldWhileFileStays ==
  ASSUME TypeOK, AnswersAreFinal, Told, [Next]_vars, file' = file,
         \A q \in Op : answer'[q].value \in {answer[q].value, None, file},
         \A q \in Op : answer'[q] = answer[q] \/ answer'[q].status # "CREATED"
  PROVE  Told'
<1>1. ASSUME NEW q \in Op, answer'[q].value # None
      PROVE  \/ file' = answer'[q].value
             \/ /\ answer'[q].status # "CREATED"
                /\ answer'[q].value \in Withdrawn'
  <2>1. CASE answer'[q].value = file
      BY <2>1
  <2>2. CASE answer'[q].value = answer[q].value
    <3>1. \/ file = answer[q].value
          \/ answer[q].status # "CREATED" /\ answer[q].value \in Withdrawn
        BY <1>1, <2>2 DEF Told, ToldIsStored
    <3> QED
        BY <3>1, <2>2, WithdrawnStays
  <2> QED
      BY <1>1, <2>1, <2>2
<1>2. ToldIsStored'
    BY <1>1 DEF ToldIsStored
<1>3. CreatedIsTold' /\ OneCreator'
    BY DEF Told, CreatedIsTold, OneCreator
<1> QED
    BY <1>2, <1>3 DEF Told

(* What a caller was told is stored by the one call that created it, or    *)
(* its writer has withdrawn it and knows.                                  *)
LEMMA ToldStep ==
  TypeOK /\ WriterIsAlone /\ AnswersAreFinal /\ Told /\ [Next]_vars => Told'
<1> SUFFICES ASSUME TypeOK, WriterIsAlone, AnswersAreFinal, Told, [Next]_vars
             PROVE  Told'
    OBVIOUS
<1> USE StoreAssumption
<1>same. ASSUME UNCHANGED <<file, answer>> PROVE Told'
    BY <1>same, ToldWhileFileStays
\* The file has no content: whoever was told of one saw it withdrawn.
<1>gone. ASSUME file \notin Content, NEW q \in Op, answer[q].value # None
         PROVE  answer[q].status # "CREATED" /\ answer[q].value \in Withdrawn
    BY <1>gone DEF TypeOK, Told, ToldIsStored
<1>lost. ASSUME file \notin Content, answer' = answer PROVE Told'
  <2>1. ASSUME NEW q \in Op, answer'[q].value # None
        PROVE  answer'[q].status # "CREATED" /\ answer'[q].value \in Withdrawn'
    <3>1. answer[q].status # "CREATED" /\ answer[q].value \in Withdrawn
        BY <2>1, <1>lost, <1>gone
    <3>2. answer[q].value \in Withdrawn'
        BY <3>1, WithdrawnStays
    <3> QED
        BY <3>1, <3>2, <1>lost
  <2>2. ToldIsStored'
      BY <2>1 DEF ToldIsStored
  <2>3. CreatedIsTold' /\ OneCreator'
      BY <1>lost DEF Told, CreatedIsTold, OneCreator
  <2> QED
      BY <2>2, <2>3 DEF Told
<1>1. ASSUME NEW o \in Op, Create(o) PROVE Told'
  <2>1. answer' = answer /\ (file' = file \/ file = Absent)
      BY <1>1 DEF Create, Goto
  <2> QED
      BY <2>1, <1>same, <1>lost
<1>2. ASSUME NEW o \in Op, Write(o) PROVE Told'
  <2>1. file = Partial /\ answer' = answer
      BY <1>2 DEF Write, Goto, WriterIsAlone, AtFile
  <2> QED
      BY <2>1, <1>lost
<1>9. ASSUME NEW o \in Op, Sync(o) PROVE Told'
  <2>1. pc[o] = "sync" /\ file' = file /\ file = want[o]
      BY <1>9 DEF Sync, WriterIsAlone, AtFile
  <2>2. want[o] \in Content
      BY <2>1 DEF TypeOK, SavingTyped
  <2>3. \A q \in Op : answer[q].status # "CREATED"
      BY <2>1 DEF WriterIsAlone, AtFile
  <2>4. \A q \in Op : q # o => answer'[q] = answer[q]
      BY <1>9 DEF Sync, Return, TypeOK
  <2>5. answer'[o] = [status |-> "CREATED", value |-> want[o]]
      BY <1>9 DEF Sync, Return, TypeOK
  <2>6. ASSUME NEW q \in Op \ {o}, answer'[q].value # None
        PROVE  \/ file' = answer'[q].value
               \/ /\ answer'[q].status # "CREATED"
                  /\ answer'[q].value \in Withdrawn'
    <3>1. \/ file = answer[q].value
          \/ answer[q].status # "CREATED" /\ answer[q].value \in Withdrawn
        BY <2>6, <2>4 DEF Told, ToldIsStored
    <3> QED
        BY <3>1, <2>1, <2>4, WithdrawnStays
  <2>7. ToldIsStored'
      BY <2>1, <2>5, <2>6 DEF ToldIsStored
  <2>8. CreatedIsTold' /\ OneCreator'
    <3>1. \A q \in Op : answer'[q].status = "CREATED" => q = o
        BY <2>3, <2>4
    <3>2. answer'[o].value # None
        BY <2>2, <2>5
    <3> QED
        BY <3>1, <3>2 DEF CreatedIsTold, OneCreator
  <2> QED
      BY <2>7, <2>8 DEF Told
<1>3. ASSUME NEW o \in Op, WriteFails(o) PROVE Told'
  <2>1. PICK s \in NotPersisted : Return(o, s, None)
      BY <1>3 DEF WriteFails
  <2>2. \A q \in Op : q # o => answer'[q] = answer[q]
      BY <2>1 DEF Return, TypeOK
  <2>3. answer'[o] = [status |-> s, value |-> None] /\ s # "CREATED"
      BY <2>1 DEF Return, TypeOK, NotPersisted
  <2>4. want[o] \in Withdrawn'
    <3>1. want' = want /\ want[o] \in Content
        BY <1>3 DEF WriteFails, TypeOK, SavingTyped
    <3> QED
        BY <3>1, <2>3 DEF Withdrawn
  <2>5. \A q \in Op : answer[q].status # "CREATED"
      BY <1>3 DEF WriteFails, WriterIsAlone, AtFile
  <2>6. file \in {Partial, want[o]}
      BY <1>3 DEF WriteFails, WriterIsAlone, AtFile
  <2>7. ASSUME NEW q \in Op, answer'[q].value # None
        PROVE  answer'[q].status # "CREATED" /\ answer'[q].value \in Withdrawn'
    <3>1. q # o /\ answer'[q] = answer[q]
        BY <2>2, <2>3, <2>7
    <3>2. CASE answer[q].value = want[o]
        BY <3>1, <3>2, <2>4, <2>5
    <3>3. CASE answer[q].value # want[o]
      <4>1. answer[q].value # file
          BY <2>6, <3>1, <3>3, <2>7 DEF TypeOK
      <4>2. answer[q].value \in Withdrawn
          BY <4>1, <3>1, <2>7 DEF Told, ToldIsStored
      <4>3. answer[q].value \in Withdrawn'
          BY <4>2, WithdrawnStays
      <4> QED
          BY <4>3, <3>1, <2>5
    <3> QED
        BY <3>2, <3>3
  <2>8. ToldIsStored'
      BY <2>7 DEF ToldIsStored
  <2>9. CreatedIsTold' /\ OneCreator'
      BY <2>2, <2>3, <2>5 DEF CreatedIsTold, OneCreator
  <2> QED
      BY <2>8, <2>9 DEF Told
<1>4. ASSUME NEW o \in Op, Look(o) PROVE Told'
  <2>1. file' = file
      BY <1>4 DEF Look
  <2>2. CASE \E to : Goto(o, to)
      BY <2>1, <2>2, <1>same DEF Goto
  <2>3. ASSUME NEW s, s # "CREATED", Return(o, s, None) PROVE Told'
    <3>1. \A q \in Op : \/ answer'[q] = answer[q]
                       \/ answer'[q] = [status |-> s, value |-> None]
        BY <2>3 DEF Return, TypeOK
    <3> QED
        BY <3>1, <2>1, <2>3, ToldWhileFileStays
  <2> QED
      BY <2>2, <2>3, <1>4 DEF Look
<1>5. ASSUME NEW o \in Op, Read(o) PROVE Told'
  <2>1. file' = file
      BY <1>5 DEF Read
  <2>2. PICK s, v : Return(o, s, v) /\ s # "CREATED" /\ v \in {None, file}
      BY <1>5 DEF Read
  <2>3. \A q \in Op : \/ answer'[q] = answer[q]
                     \/ answer'[q] = [status |-> s, value |-> v]
      BY <2>2 DEF Return, TypeOK
  <2> QED
      BY <2>1, <2>2, <2>3, ToldWhileFileStays
<1>6. CASE \E o \in Op : Enter(o)
    BY <1>6, <1>same DEF Enter
<1>7. CASE \E p \in Process : Crash(p)
    BY <1>7, <1>same DEF Crash
<1>8. CASE UNCHANGED vars
    BY <1>8, <1>same DEF vars
<1> QED
    BY <1>1, <1>2, <1>9, <1>3, <1>4, <1>5, <1>6, <1>7, <1>8 DEF Next, Inside

IInv == TypeOK /\ StoreInv /\ Told

(* All of it together is inductive.                                        *)
LEMMA StoreInductive == Spec => []IInv
<1>1. Init => IInv
  <2>1. Init => TypeOK
      BY StoreAssumption DEF Init, TypeOK, SavingTyped, PC, Verdict
  <2> QED
      BY <2>1 DEF Init, IInv, StoreInv, LockHeld, WriterIsAlone, Told,
         ToldIsStored, CreatedIsTold, OneCreator, Working, AtFile,
         AnswersAreFinal
<1>2. IInv /\ [Next]_vars => IInv'
  <2> SUFFICES ASSUME IInv, [Next]_vars PROVE IInv'
      OBVIOUS
  <2>1. TypeOK' /\ Told' /\ LockHeld' /\ WriterIsAlone' /\ AnswersAreFinal'
      BY StepTyped, ToldStep, LockHeldStep, WriterIsAloneStep, AnswersStand
      DEF IInv, StoreInv, Told
  <2> QED
      BY <2>1 DEF IInv, StoreInv, Told
<1> QED
    BY <1>1, <1>2, PTL DEF Spec

(* Within a process the lock excludes; between processes a file that is    *)
(* not settled belongs to the one call that created it.                    *)
THEOREM StoreInvariant == Spec => []StoreInv
<1>1. IInv => StoreInv
    BY DEF IInv
<1> QED
    BY <1>1, StoreInductive, PTL

(* Who created a record has it for good; what anybody else was told of is  *)
(* there, or was withdrawn by a save that failed and knows, whatever other *)
(* calls, failed writes and crashes follow.                                *)
THEOREM ToldStaysStored == Spec => []ToldIsStored
<1>1. IInv => ToldIsStored
    BY DEF IInv, Told
<1> QED
    BY <1>1, StoreInductive, PTL

(* However many processes save under one id, at most one creates.          *)
THEOREM OnlyOneCreates == Spec => []OneCreator
<1>1. IInv => OneCreator
    BY DEF IInv, Told
<1> QED
    BY <1>1, StoreInductive, PTL

(* A step leaves a file that can be read alone, unless its writer fails.   *)
LEMMA WholeFileStays ==
  ASSUME IInv, [Next]_vars, file \in Content, file' # file
  PROVE  file' = Absent /\ \E o \in Op : pc[o] = "sync" /\ want[o] = file
                                     /\ answer'[o].status \in NotPersisted
<1> USE StoreAssumption
<1>1. ASSUME NEW o \in Op, Write(o) PROVE FALSE
    BY <1>1 DEF IInv, StoreInv, WriterIsAlone, AtFile, Write
<1>2. CASE \E o \in Op : Create(o)
    BY <1>2 DEF Create
<1>3. CASE \E o \in Op : Enter(o) \/ Look(o) \/ Read(o) \/ Sync(o)
    BY <1>3 DEF Enter, Look, Read, Sync
<1>4. CASE (\E p \in Process : Crash(p)) \/ UNCHANGED vars
    BY <1>4 DEF Crash, vars
<1>5. ASSUME NEW o \in Op, WriteFails(o)
      PROVE  /\ file' = Absent /\ pc[o] = "sync" /\ want[o] = file
             /\ answer'[o].status \in NotPersisted
  <2>1. pc[o] = "sync" /\ want[o] = file /\ file' = Absent
      BY <1>5 DEF IInv, StoreInv, WriterIsAlone, AtFile, WriteFails
  <2>2. PICK s \in NotPersisted : Return(o, s, None)
      BY <1>5 DEF WriteFails
  <2>3. answer'[o].status = s
      BY <2>2 DEF Return, IInv, TypeOK
  <2> QED
      BY <2>1, <2>2, <2>3
<1> QED
    BY <1>1, <1>2, <1>3, <1>4, <1>5 DEF Next, Inside

(* A record that can be read is never changed, and only its own failing    *)
(* writer takes it away.                                                   *)
THEOREM StoredIsImmutable == Spec => StoredStays
<1>1. IInv /\ [Next]_vars =>
        [(file \in Content /\ file' # file) =>
           /\ file' = Absent
           /\ \E o \in Op : /\ pc[o] = "sync" /\ want[o] = file
                           /\ answer'[o].status \in NotPersisted]_vars
    BY WholeFileStays
<1> QED
    BY <1>1, StoreInductive, PTL DEF Spec, StoredStays

-----------------------------------------------------------------------------
stored == IF file \in Content THEN file ELSE None
told == {answer[o].value : o \in Op} \ {None}
firm == {answer[o].value : o \in {q \in Op : answer[q].status = "CREATED"}}

\* The step of the register that a step of the repository is.
RegisterStep ==
  \/ /\ stored = None /\ stored' \in Content
     /\ Settled' = Settled /\ told' = told /\ firm' = firm
  \/ /\ stored # None /\ ~Settled /\ Settled' /\ stored' = stored
     /\ \/ told' = told \cup {stored} /\ firm' = firm \cup {stored}
        \/ told' = told /\ firm' = firm
  \/ /\ stored # None /\ ~Settled /\ stored' = None
     /\ Settled' = Settled /\ told' = told /\ firm' = firm
  \/ /\ stored # None /\ stored' = stored /\ told' = told \cup {stored}
     /\ Settled' = Settled /\ firm' = firm
  \/ /\ stored' = stored /\ told' = told
     /\ Settled' = Settled /\ firm' = firm

(* An answer adds its content to what was told, and nothing else.          *)
LEMMA AnswerIsAdded ==
  ASSUME TypeOK, AnswersAreFinal, NEW o \in Op, pc[o] \in Working,
         NEW s, NEW v, Return(o, s, v)
  PROVE  /\ told' = told \cup ({v} \ {None})
         /\ s = "CREATED" => firm' = firm \cup {v}
         /\ s # "CREATED" => firm' = firm
<1>1. answer[o] = [status |-> "NONE", value |-> None]
    BY DEF AnswersAreFinal, Working
<1>2. answer'[o] = [status |-> s, value |-> v]
    BY DEF Return, TypeOK
<1>3. \A q \in Op : q # o => answer'[q] = answer[q]
    BY DEF Return, TypeOK
<1>4. told' = told \cup ({v} \ {None})
  <2>1. \A x : x \in told' <=> (x # None /\ \E q \in Op : x = answer'[q].value)
      BY DEF told
  <2>2. \A x : x \in told <=> (x # None /\ \E q \in Op : x = answer[q].value)
      BY DEF told
  <2>3. ASSUME NEW x, x # None
        PROVE  (\E q \in Op : x = answer'[q].value)
               <=> (x = v \/ \E q \in Op : x = answer[q].value)
      BY <1>1, <1>2, <1>3, <2>3
  <2> QED
      BY <2>1, <2>2, <2>3
<1>5. \A x : x \in firm' <=> \E q \in Op : answer'[q].status = "CREATED"
                                          /\ x = answer'[q].value
    BY DEF firm
<1>6. \A x : x \in firm <=> \E q \in Op : answer[q].status = "CREATED"
                                         /\ x = answer[q].value
    BY DEF firm
<1>7. ASSUME s = "CREATED" PROVE firm' = firm \cup {v}
    BY <1>1, <1>2, <1>3, <1>5, <1>6, <1>7
<1>8. ASSUME s # "CREATED" PROVE firm' = firm
  <2>1. ASSUME NEW q \in Op
        PROVE  /\ (answer'[q].status = "CREATED")
                    <=> (answer[q].status = "CREATED")
               /\ answer[q].status = "CREATED" => answer'[q] = answer[q]
      BY <1>1, <1>2, <1>3, <1>8
  <2>2. ASSUME NEW x PROVE x \in firm' <=> x \in firm
      BY <2>1, <1>5, <1>6
  <2>3. firm' \subseteq firm /\ firm \subseteq firm'
      BY <2>2
  <2> QED
      BY <2>3
<1> QED
    BY <1>4, <1>7, <1>8

(* Every step of the repository is a step of the register, or nothing at   *)
(* all to it.                                                              *)
LEMMA StepIsRegisterStep ==
  ASSUME IInv, [Next]_vars
  PROVE  RegisterStep
<1> USE StoreAssumption
<1>ty. TypeOK /\ AnswersAreFinal /\ WriterIsAlone
    BY DEF IInv, StoreInv
\* A step that gives no answer and changes neither file nor who waits.
<1>same. ASSUME answer' = answer, stored' = stored, Settled' = Settled
         PROVE  RegisterStep
    BY <1>same DEF RegisterStep, told, firm
<1>quiet. ASSUME file' = file,
                 \A q \in Op : pc[q] = "sync" <=> pc'[q] = "sync"
          PROVE  stored' = stored /\ Settled' = Settled
    BY <1>quiet DEF stored, Settled
<1>1. ASSUME NEW o \in Op, Enter(o) PROVE RegisterStep
  <2>1. \A q \in Op : pc[q] = "sync" <=> pc'[q] = "sync"
      BY <1>1, <1>ty DEF Enter, TypeOK
  <2> QED
      BY <2>1, <1>1, <1>quiet, <1>same DEF Enter
<1>2. ASSUME NEW o \in Op, Create(o) PROVE RegisterStep
  <2>1. \A q \in Op : pc[q] = "sync" <=> pc'[q] = "sync"
      BY <1>2, <1>ty DEF Create, Goto, TypeOK
  <2>2. file' = file \/ (file \notin Content /\ file' \notin Content)
      BY <1>2 DEF Create
  <2>3. stored' = stored /\ Settled' = Settled
      BY <2>1, <2>2 DEF stored, Settled
  <2> QED
      BY <2>3, <1>2, <1>same DEF Create, Goto
<1>3. ASSUME NEW o \in Op, Write(o) PROVE RegisterStep
  <2>1. file = Partial /\ file' = want[o] /\ answer' = answer
      BY <1>3, <1>ty DEF Write, Goto, WriterIsAlone, AtFile
  <2>2. want[o] \in Content
      BY <1>3, <1>ty DEF Write, TypeOK, SavingTyped
  <2>3. pc'[o] = "sync"
      BY <1>3, <1>ty DEF Write, Goto, TypeOK
  <2>4. stored = None /\ stored' \in Content /\ Settled' = Settled
      BY <2>1, <2>2, <2>3 DEF stored, Settled
  <2> QED
      BY <2>1, <2>4 DEF RegisterStep, told, firm
\* Whoever waits for fsync waits alone, for his own content.
<1>sync. ASSUME NEW o \in Op, pc[o] = "sync"
         PROVE  /\ stored = want[o] /\ want[o] \in Content /\ stored # None
                /\ file = want[o] /\ ~Settled
                /\ \A q \in Op : pc[q] = "sync" => q = o
  <2>1. file = want[o] /\ \A q \in Op : pc[q] = "sync" => q = o
      BY <1>sync, <1>ty DEF WriterIsAlone, AtFile
  <2>2. want[o] \in Content
      BY <1>sync, <1>ty DEF TypeOK, SavingTyped
  <2> QED
      BY <2>1, <2>2, <1>sync DEF stored, Settled
<1>4. ASSUME NEW o \in Op, Sync(o) PROVE RegisterStep
  <2>1. pc[o] = "sync" /\ file' = file /\ Return(o, "CREATED", want[o])
      BY <1>4 DEF Sync
  <2>2. /\ told' = told \cup ({want[o]} \ {None})
        /\ firm' = firm \cup {want[o]}
      BY <2>1, <1>ty, AnswerIsAdded DEF Working
  <2>3. \A q \in Op : pc'[q] # "sync"
      BY <2>1, <1>sync, <1>ty DEF Return, TypeOK
  <2>4. Settled' /\ stored' = stored
      BY <2>1, <2>3, <1>sync DEF Settled, stored
  <2>5. told' = told \cup {stored} /\ firm' = firm \cup {stored}
      BY <2>1, <2>2, <1>sync
  <2> QED
      BY <2>1, <2>4, <2>5, <1>sync DEF RegisterStep
<1>5. ASSUME NEW o \in Op, WriteFails(o) PROVE RegisterStep
  <2>1. PICK s \in NotPersisted : Return(o, s, None)
      BY <1>5 DEF WriteFails
  <2>2. told' = told /\ firm' = firm
    <3>1. pc[o] \in Working /\ s # "CREATED"
        BY <1>5 DEF WriteFails, Working, NotPersisted
    <3> QED
        BY <3>1, <2>1, <1>ty, AnswerIsAdded
  <2>3. file' = Absent /\ stored' = None /\ ~Settled'
      BY <1>5 DEF WriteFails, stored, Settled
  <2>4. CASE pc[o] = "sync"
      BY <2>4, <2>2, <2>3, <1>sync DEF RegisterStep, Settled
  <2>5. CASE pc[o] = "write"
    <3>1. file = Partial
        BY <2>5, <1>ty DEF WriterIsAlone, AtFile
    <3>2. stored = None /\ ~Settled
        BY <3>1 DEF stored, Settled
    <3> QED
        BY <3>2, <2>2, <2>3 DEF RegisterStep, Settled
  <2> QED
      BY <2>4, <2>5, <1>5 DEF WriteFails
<1>6. ASSUME NEW o \in Op, Look(o) \/ Read(o) PROVE RegisterStep
  <2>1. file' = file /\ pc[o] \in Working
      BY <1>6 DEF Look, Read, Working
  <2>2. \A q \in Op : pc[q] = "sync" <=> pc'[q] = "sync"
      BY <1>6, <1>ty DEF Look, Read, Goto, Return, TypeOK
  <2>3. stored' = stored /\ Settled' = Settled
      BY <2>1, <2>2, <1>quiet
  <2>4. CASE \E to : Goto(o, to)
      BY <2>4, <2>3, <1>same DEF Goto
  <2>5. ASSUME NEW s, NEW v, Return(o, s, v), s # "CREATED",
               v = None \/ (v = file /\ file \in Content)
        PROVE  RegisterStep
    <3>1. told' = told \cup ({v} \ {None}) /\ firm' = firm
        BY <2>1, <2>5, <1>ty, AnswerIsAdded
    <3>2. CASE v = None
        BY <3>1, <3>2, <2>3 DEF RegisterStep
    <3>3. CASE v = file /\ file \in Content
      <4>1. stored = v /\ stored # None
          BY <3>3 DEF stored
      <4> QED
          BY <4>1, <3>1, <2>3 DEF RegisterStep
    <3> QED
        BY <2>5, <3>2, <3>3
  <2>6. CASE Look(o)
      BY <2>4, <2>5, <2>6 DEF Look
  <2>7. CASE Read(o)
    <3>1. want[o] \in Content \cup {None}
        BY <1>ty DEF TypeOK
    <3> QED
        BY <2>5, <2>7, <3>1 DEF Read, Saving
  <2> QED
      BY <1>6, <2>6, <2>7
<1>7. ASSUME NEW p \in Process, Crash(p) PROVE RegisterStep
  <2>1. lock[p] \in Op /\ pc' = [pc EXCEPT ![lock[p]] = "crashed"]
        /\ file' = file /\ answer' = answer
      BY <1>7, <1>ty DEF Crash, TypeOK
  <2>2. CASE pc[lock[p]] = "sync"
    <3>1. \A q \in Op : pc'[q] # "sync"
        BY <2>1, <2>2, <1>sync, <1>ty DEF TypeOK
    <3>2. Settled' /\ stored' = stored /\ stored # None /\ ~Settled
        BY <2>1, <2>2, <3>1, <1>sync DEF Settled, stored
    <3> QED
        BY <3>2, <2>1 DEF RegisterStep, told, firm
  <2>3. CASE pc[lock[p]] # "sync"
    <3>1. \A q \in Op : pc[q] = "sync" <=> pc'[q] = "sync"
        BY <2>1, <2>3, <1>ty DEF TypeOK
    <3> QED
        BY <3>1, <2>1, <1>quiet, <1>same
  <2> QED
      BY <2>2, <2>3
<1>8. CASE UNCHANGED vars
    BY <1>8, <1>quiet, <1>same DEF vars
<1> QED
    BY <1>1, <1>2, <1>3, <1>4, <1>5, <1>6, <1>7, <1>8 DEF Next, Inside

(* The repository, with its exclusive creation, its flush before the       *)
(* fsync, its read back and all its crashes, is the register that offers   *)
(* first and settles later: no caller of save or get can tell it from one. *)
THEOREM StoreImplementsWriteOnce == Spec => ImplementsWriteOnce
<1>1. Init => Once!OnceInit
  <2> SUFFICES ASSUME Init PROVE Once!OnceInit
      OBVIOUS
  <2>1. file \notin Content /\ \A o \in Op : answer[o].status # "CREATED"
                              /\ answer[o].value = None
      BY StoreAssumption DEF Init
  <2>2. {q \in Op : answer[q].status = "CREATED"} = {}
      BY <2>1
  <2> QED
      BY <2>1, <2>2 DEF Once!OnceInit, Settled
<1>2. ASSUME RegisterStep PROVE [Once!OnceNext]_(Once!onceVars)
    BY <1>2
    DEF RegisterStep, Once!OnceNext, Once!Offer, Once!Offered, Once!Settle,
        Once!Withdraw, Once!Tell, Once!onceVars, stored, told, firm
<1>3. IInv /\ [Next]_vars => [Once!OnceNext]_(Once!onceVars)
    BY <1>2, StepIsRegisterStep
<1> QED
    BY <1>1, <1>3, StoreInductive, PTL
    DEF Spec, ImplementsWriteOnce, Once!OnceSpec

-----------------------------------------------------------------------------
(* What a crash in the middle of a write leaves behind                     *)

\* Half a record whose writer is gone.
Torn == file = Partial /\ \A o \in Op : pc[o] # "write"

(* O_EXCL, which keeps a record from being written twice, also keeps a     *)
(* torn one from being mended: once its writer has died, nobody is told    *)
(* from then on that a record of this id is stored, neither a reader nor a *)
(* later save of the very same content (private_home.py 599-630).          *)
TornIsLost == [][Torn => /\ Torn'
                         /\ \A o \in Op : answer'[o].value # None
                                          => answer'[o] = answer[o]]_vars

\* Nothing that any call does mends a torn file, or takes it for whole.
LEMMA TornStaysTorn ==
  ASSUME IInv, Torn, [Next]_vars
  PROVE  /\ Torn'
         /\ \A o \in Op : answer'[o].value # None => answer'[o] = answer[o]
<1> USE StoreAssumption DEF Torn, TypeOK, Goto, Return
<1>ty. TypeOK
    BY DEF IInv
<1>1. ASSUME NEW o \in Op, Enter(o)
      PROVE  Torn' /\ answer' = answer
    BY <1>1, <1>ty DEF Enter
<1>2. ASSUME NEW o \in Op, Create(o)
      PROVE  Torn' /\ answer' = answer
    BY <1>2, <1>ty DEF Create
<1>3. ASSUME NEW o \in Op, Look(o) \/ Read(o)
      PROVE  /\ Torn'
             /\ \A q \in Op : answer'[q].value # None
                             => answer'[q] = answer[q]
  <2>1. Torn'
      BY <1>3, <1>ty DEF Look, Read
  <2>2. answer' = answer \/ \E s : Return(o, s, None)
    <3>1. want[o] # None => want[o] # file
        BY <1>ty
    <3> QED
        BY <3>1, <1>3 DEF Look, Read, Saving
  <2>3. ASSUME NEW s, Return(o, s, None)
        PROVE  \A q \in Op : answer'[q].value # None
                            => answer'[q] = answer[q]
      BY <2>3, <1>ty
  <2> QED
      BY <2>1, <2>2, <2>3
<1>4. ASSUME NEW p \in Process, Crash(p)
      PROVE  Torn' /\ answer' = answer
    BY <1>4, <1>ty DEF Crash
<1>5. ASSUME NEW o \in Op PROVE ~Write(o) /\ ~Sync(o) /\ ~WriteFails(o)
  <2>1. pc[o] # "sync"
    <3>1. pc[o] = "sync" => file = want[o] /\ want[o] \in Content
        BY <1>ty DEF IInv, StoreInv, WriterIsAlone, AtFile, SavingTyped
    <3> QED
        BY <3>1
  <2> QED
      BY <2>1 DEF Write, Sync, WriteFails
<1>6. CASE UNCHANGED vars
    BY <1>6 DEF vars
<1> QED
    BY <1>1, <1>2, <1>3, <1>4, <1>5, <1>6 DEF Next, Inside

(* An id whose first writer died half-way is lost: no call under it ever   *)
(* succeeds (private_home.py 599-630).                                     *)
THEOREM TornRecordsAreLost == Spec => TornIsLost
<1>1. IInv /\ [Next]_vars =>
        [Torn => /\ Torn'
                 /\ \A o \in Op : answer'[o].value # None
                                  => answer'[o] = answer[o]]_vars
    BY TornStaysTorn
<1> QED
    BY <1>1, StoreInductive, PTL DEF Spec, TornIsLost

-----------------------------------------------------------------------------
(* What EveryCallAnswers rests on                                          *)

(* A lock is held by a call of that process that is at work, and not by    *)
(* one that has returned, raised or died: who waits for it waits for       *)
(* somebody who has a step to take ("with self._lock", and the end of a    *)
(* process).                                                               *)
LocksAreAtWork ==
  \A p \in Process : lock[p] # None =>
    pc[lock[p]] \in Working /\ ProcessOf[lock[p]] = p

\* How many steps a call can still take.
Rank(o) ==
  CASE pc[o] = "idle" -> 4 [] pc[o] = "create" -> 3
    [] pc[o] \in {"look", "write"} -> 2 [] pc[o] \in {"sync", "read"} -> 1
    [] pc[o] \in {"done", "crashed"} -> 0

(* Every step of a call brings its answer nearer, and no call is sent back *)
(* by another.                                                             *)
AnswerComesNearer ==
  [][\A o \in Op : /\ Rank(o)' <= Rank(o)
                   /\ Enter(o) \/ Inside(o) => Rank(o)' < Rank(o)]_vars

\* A step inside the lock either goes on or returns.
LEMMA LocksAreAtWorkStep ==
  ASSUME TypeOK, LockHeld, LocksAreAtWork, [Next]_vars
  PROVE  LocksAreAtWork'
<1> USE StoreAssumption DEF LocksAreAtWork, TypeOK, Working
<1>1. ASSUME NEW o \in Op, Enter(o) PROVE LocksAreAtWork'
    BY <1>1 DEF Enter
<1>2. ASSUME NEW o \in Op, NEW to \in Working, Goto(o, to)
      PROVE  LocksAreAtWork'
    BY <1>2 DEF Goto
<1>3. ASSUME NEW o \in Op, NEW s, NEW v, Return(o, s, v), pc[o] \in Working
      PROVE  LocksAreAtWork'
  <2>1. lock[ProcessOf[o]] = o
      BY <1>3 DEF LockHeld
  <2> QED
      BY <1>3, <2>1 DEF Return
<1>4. ASSUME NEW o \in Op, Inside(o) PROVE LocksAreAtWork'
  <2>1. pc[o] \in Working
      BY <1>4 DEF Inside, Create, Write, Sync, WriteFails, Look, Read
  <2>2. \/ \E to \in Working : Goto(o, to)
        \/ \E s, v : Return(o, s, v)
      BY <1>4 DEF Inside, Create, Write, Sync, WriteFails, Look, Read
  <2> QED
      BY <1>2, <1>3, <2>1, <2>2
<1>5. ASSUME NEW p \in Process, Crash(p) PROVE LocksAreAtWork'
    BY <1>5 DEF Crash
<1>6. CASE UNCHANGED vars
    BY <1>6 DEF vars
<1> QED
    BY <1>1, <1>4, <1>5, <1>6 DEF Next

\* One step of a call, its effect on every call's rank.
LEMMA StepLowersRank ==
  ASSUME TypeOK, TypeOK', [Next]_vars, NEW o \in Op
  PROVE  /\ Rank(o)' <= Rank(o)
         /\ Enter(o) \/ Inside(o) => Rank(o)' < Rank(o)
<1> USE StoreAssumption DEF TypeOK, PC, Goto, Return, Rank
<1>1. ASSUME Enter(o) \/ Inside(o) PROVE Rank(o)' < Rank(o)
  <2>1. CASE Enter(o)
      BY <2>1 DEF Enter
  <2>2. CASE Create(o)
      BY <2>2 DEF Create
  <2>3. CASE Write(o) \/ Sync(o) \/ WriteFails(o)
      BY <2>3 DEF Write, Sync, WriteFails
  <2>4. CASE Look(o) \/ Read(o)
      BY <2>4 DEF Look, Read
  <2> QED
      BY <1>1, <2>1, <2>2, <2>3, <2>4 DEF Inside
<1>2. ASSUME NEW q \in Op \ {o}, Enter(q) \/ Inside(q)
      PROVE  pc'[o] = pc[o]
    BY <1>2 DEF Enter, Inside, Create, Write, Sync, WriteFails, Look,
       Read
<1>3. ASSUME NEW p \in Process, Crash(p)
      PROVE  pc'[o] \in {pc[o], "crashed"}
    BY <1>3 DEF Crash
<1>4. CASE UNCHANGED vars
    BY <1>4 DEF vars, Enter, Inside, Create, Write, Sync, WriteFails, Look,
       Read
<1>5. Rank(o) \in 0..4 /\ Rank(o)' \in 0..4
    OBVIOUS
<1>6. pc'[o] = pc[o] => Rank(o)' = Rank(o)
    OBVIOUS
<1>7. pc'[o] = "crashed" => Rank(o)' = 0
    OBVIOUS
<1> HIDE DEF Rank
<1> QED
    BY <1>1, <1>2, <1>3, <1>4, <1>5, <1>6, <1>7 DEF Next

(* Who waits for a lock waits for a call that is at work, and that call is *)
(* through after at most three more steps: with threads that run and       *)
(* nobody else waiting, every call gets its answer (the RLock of the       *)
(* repositories, and private_home.py 599-630).                             *)
THEOREM LocksComeFree == Spec => []LocksAreAtWork /\ AnswerComesNearer
<1>1. Init => LocksAreAtWork
    BY DEF Init, LocksAreAtWork
<1>2. IInv /\ LocksAreAtWork /\ [Next]_vars => LocksAreAtWork'
    BY LocksAreAtWorkStep DEF IInv, StoreInv
<1>3. IInv /\ IInv' /\ [Next]_vars =>
        [\A o \in Op : /\ Rank(o)' <= Rank(o)
                       /\ Enter(o) \/ Inside(o) => Rank(o)' < Rank(o)]_vars
    BY StepLowersRank DEF IInv
<1> QED
    BY <1>1, <1>2, <1>3, StoreInductive, PTL DEF Spec, AnswerComesNearer
=============================================================================
