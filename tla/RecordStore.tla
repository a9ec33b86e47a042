----------------------------- MODULE RecordStore -----------------------------
(***************************************************************************)
(* The immutable record repositories of core/ (56 modules), seen at one    *)
(* record id: save and get over PrivateHome.write_bytes_if_absent.  The    *)
(* lines are those of the non-submit execution repository; the others are  *)
(* the same code over another record type.                                 *)
(*                                                                         *)
(* An Op is one call of save or get.  Calls in one process share the       *)
(* repository object and its RLock; processes share only the directory.    *)
(* A content stands for a record with its canonical hash, so that equal    *)
(* contents are equal hashes.  A partly written file does not parse.       *)
(***************************************************************************)
EXTENDS Naturals, FiniteSets

CONSTANTS
  Op,          \* calls of save and get
  Process,     \* processes that use the directory
  ProcessOf,   \* the process each call is made in
  Content,     \* canonical contents of the record
  Absent,      \* there is no file
  Partial,     \* the file is created and not yet written in full
  None

ASSUME StoreAssumption ==
  /\ ProcessOf \in [Op -> Process]
  /\ Absent \notin Content \cup {Partial, None}
  /\ Partial \notin Content \cup {None}
  /\ None \notin Op \cup Content

VARIABLES
  file,        \* what is at the record's path
  lock,        \* lock[p] : the call that holds the repository's RLock in p
  pc,
  want,        \* the content a save was given; None in a get
  answer       \* what the call returned

vars == <<file, lock, pc, want, answer>>

PC == {"idle", "create", "write", "sync", "look", "read", "done", "crashed"}

Verdict == {"NONE", "CREATED", "UNCHANGED", "FOUND", "NOT_FOUND",
            "PERSISTENCE_FAILED", "RECORD_INTEGRITY_FAILURE",
            "INTEGRITY_FAILURE", "RAISED"}

\* The answers of a save whose write failed; it may also raise what is not
\* an OSError.
NotPersisted == {"PERSISTENCE_FAILED", "RAISED"}

\* Only a save gets to create a file.
SavingTyped(o) == pc[o] \in {"create", "write", "sync"} => want[o] \in Content

TypeOK ==
  /\ file \in Content \cup {Absent, Partial}
  /\ lock \in [Process -> Op \cup {None}]
  /\ pc \in [Op -> PC]
  /\ want \in [Op -> Content \cup {None}]
  /\ answer \in [Op -> [status : Verdict, value : Content \cup {None}]]
  /\ \A o \in Op : SavingTyped(o)

Init ==
  /\ file = Absent
  /\ lock = [p \in Process |-> None]
  /\ pc = [o \in Op |-> "idle"]
  /\ want \in [Op -> Content \cup {None}]
  /\ answer = [o \in Op |-> [status |-> "NONE", value |-> None]]

-----------------------------------------------------------------------------
(* Names that begin with Slip are mistakes a maintainer could make in the  *)
(* definition that follows; PROJECT.json says which property notices each. *)

Saving(o) == want[o] # None

\* "with self._lock" is left, with a result.
SlipReturn(o, status, value) ==     \* slip: lock.release() is forgotten
  /\ answer' = [answer EXCEPT ![o] = [status |-> status, value |-> value]]
  /\ pc' = [pc EXCEPT ![o] = "done"]
  /\ UNCHANGED lock
Return(o, status, value) ==
  /\ answer' = [answer EXCEPT ![o] = [status |-> status, value |-> value]]
  /\ pc' = [pc EXCEPT ![o] = "done"]
  /\ lock' = [lock EXCEPT ![ProcessOf[o]] = None]

Goto(o, to) ==
  /\ pc' = [pc EXCEPT ![o] = to]
  /\ UNCHANGED <<lock, answer>>

Enter(o) ==
  /\ pc[o] = "idle"
  /\ lock[ProcessOf[o]] = None
  /\ lock' = [lock EXCEPT ![ProcessOf[o]] = o]
  /\ pc' = [pc EXCEPT ![o] = IF Saving(o) THEN "create" ELSE "look"]
  /\ UNCHANGED <<file, want, answer>>

(* os.open with O_CREAT | O_EXCL: the file appears, still empty; or it is  *)
(* there already and the save goes on to get.                              *)
SlipCreate(o) ==                    \* slip: O_TRUNC for O_EXCL
  /\ pc[o] = "create"
  /\ file' = Partial
  /\ Goto(o, "write")
  /\ UNCHANGED want
Create(o) ==
  /\ pc[o] = "create"
  /\ \/ file = Absent /\ file' = Partial /\ Goto(o, "write")
     \/ file # Absent /\ Goto(o, "look") /\ UNCHANGED file
  /\ UNCHANGED want

(* write and flush: the content is whole, and whoever looks can read it,   *)
(* while the writer still waits for fsync and close.                       *)
Write(o) ==
  /\ pc[o] = "write"
  /\ file' = want[o]
  /\ Goto(o, "sync")
  /\ UNCHANGED want

(* fsync and close.                                                        *)
Sync(o) ==
  /\ pc[o] = "sync"
  /\ Return(o, "CREATED", want[o])
  /\ UNCHANGED <<file, want>>

(* Any exception in write, flush, fsync or close: the file is unlinked     *)
(* again, also when it was whole and others have read it.                  *)
WriteFails(o) ==
  /\ pc[o] \in {"write", "sync"}
  /\ file' = Absent
  /\ \E verdict \in NotPersisted : Return(o, verdict, None)
  /\ UNCHANGED want

(* get: path.exists() ...                                                  *)
Look(o) ==
  /\ pc[o] = "look"
  /\ \/ file # Absent /\ Goto(o, "read")
     \/ file = Absent /\ Return(o, IF Saving(o) THEN "RECORD_INTEGRITY_FAILURE"
                                               ELSE "NOT_FOUND", None)
  /\ UNCHANGED <<file, want>>

(* ... then read_text and the decoder; the file may have been unlinked     *)
(* since.  A save compares the hashes.                                     *)
SlipRead(o) ==                      \* slip: any file of that name will do
  /\ pc[o] = "read"
  /\ IF Saving(o)
     THEN Return(o, "UNCHANGED", want[o])
     ELSE Return(o, "FOUND", file)
  /\ UNCHANGED <<file, want>>
Read(o) ==
  /\ pc[o] = "read"
  /\ \/ Saving(o) /\ file = want[o] /\ Return(o, "UNCHANGED", file)
     \/ Saving(o) /\ file # want[o]
        /\ Return(o, "RECORD_INTEGRITY_FAILURE", None)
     \/ ~Saving(o) /\ file \in Content /\ Return(o, "FOUND", file)
     \/ ~Saving(o) /\ file \notin Content
        /\ Return(o, "INTEGRITY_FAILURE", None)
  /\ UNCHANGED <<file, want>>

(* The process dies, with the call that was inside the lock, and another   *)
(* is started in its place.  What it wrote so far stays.                   *)
Crash(p) ==
  /\ lock[p] # None
  /\ pc' = [pc EXCEPT ![lock[p]] = "crashed"]
  /\ lock' = [lock EXCEPT ![p] = None]
  /\ UNCHANGED <<file, want, answer>>

Inside(o) ==
  \/ Create(o) \/ Write(o) \/ Sync(o) \/ WriteFails(o)
  \/ Look(o) \/ Read(o)

Next ==
  \/ \E o \in Op : Enter(o) \/ Inside(o)
  \/ \E p \in Process : Crash(p)

\* Every thread gets to run.  The calls are finitely many, so that a lock
\* that is given back is in the end free for good.
Fairness == \A o \in Op : WF_vars(Enter(o)) /\ WF_vars(Inside(o))

Spec == Init /\ [][Next]_vars /\ Fairness

-----------------------------------------------------------------------------
(* What must hold                                                          *)

(* Who was told that it created the record finds it stored, whole, from   *)
(* then on, whatever other processes save under the same id, fail half-way *)
(* or die.  Who was told it found a record finds it stored too, or the     *)
(* save that was writing it failed after all, and knows                    *)
(* (write_bytes_if_absent; save's UNCHANGED comparison).                   *)
Withdrawn == {v \in Content : \E q \in Op :
                want[q] = v /\ answer[q].status \in NotPersisted}

ToldIsStored ==
  \A o \in Op : answer[o].value # None =>
    \/ file = answer[o].value
    \/ answer[o].status # "CREATED" /\ answer[o].value \in Withdrawn

(* At most one call is told that it created the record.                    *)
OneCreator ==
  \A o, q \in Op : answer[o].status = "CREATED" /\ answer[q].status = "CREATED"
                   => o = q

(* A record that can be read is never changed or truncated, and only the   *)
(* failing save that wrote it takes it away: once no save waits for its    *)
(* fsync, it is there for good.                                            *)
StoredStays ==
  [][(file \in Content /\ file' # file) =>
       /\ file' = Absent
       /\ \E o \in Op : /\ pc[o] = "sync" /\ want[o] = file
                       /\ answer'[o].status \in NotPersisted]_vars

(* The repository implements the write-once register.                      *)
Settled == file \in Content /\ \A o \in Op : pc[o] # "sync"

Once == INSTANCE WriteOnce WITH
  value   <- IF file \in Content THEN file ELSE None,
  settled <- Settled,
  told    <- {answer[o].value : o \in Op} \ {None},
  firm    <- {answer[o].value :
                o \in {q \in Op : answer[q].status = "CREATED"}}

ImplementsWriteOnce == Once!OnceSpec

(* Every call answers or dies with its process: the lock is always given   *)
(* back.                                                                   *)
EveryCallAnswers == \A o \in Op : <>(pc[o] \in {"done", "crashed"})

(* private_home.py 604: "Create one private file atomically".  A reader    *)
(* would then never find half a record and take it for tampering.          *)
ReadsAreWhole == \A o \in Op : answer[o].status # "INTEGRITY_FAILURE"

-----------------------------------------------------------------------------
(* The invariant the proofs use                                            *)

\* The call at work in a process is the one that holds its lock.
Working == {"create", "write", "sync", "look", "read"}
LockHeld == \A o \in Op : pc[o] \in Working => lock[ProcessOf[o]] = o

\* Whoever is writing created the file, alone; nobody else has finished it
\* or has been told that he created it.
AtFile == {"write", "sync"}
WriterIsAlone ==
  \A o \in Op : pc[o] \in AtFile =>
    /\ file = IF pc[o] = "write" THEN Partial ELSE want[o]
    /\ \A q \in Op : /\ pc[q] \in AtFile => q = o
                     /\ answer[q].status # "CREATED"

\* Whoever was told it created the record was told what is in it.
CreatedIsTold ==
  \A o \in Op : answer[o].status = "CREATED" => answer[o].value # None

\* A call answers in its last step.
AnswersAreFinal ==
  \A o \in Op : pc[o] \notin {"done", "crashed"} =>
    answer[o] = [status |-> "NONE", value |-> None]

StoreInv == LockHeld /\ WriterIsAlone /\ CreatedIsTold /\ AnswersAreFinal
=============================================================================
