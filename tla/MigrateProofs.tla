--------------------------- MODULE MigrateProofs ----------------------------
(***************************************************************************)
(* Proofs about Migrate.                                                   *)
(*                                                                         *)
(* For every choice of Windows: types, and a sleeping agent sleeps again   *)
(* after a move that did not happen.  With "outlives" closed: a verdict is *)
(* never taken back; the argument is what an import looks like at each     *)
(* stage (Shape), that only one of the two ever has a row (OneRow), and    *)
(* what the receipt says of them (Booked).  With both windows closed: a    *)
(* move leaves the agent on one side, and the two servers implement        *)
(* OnePoller; this side runs only while nothing can land there any more    *)
(* (Mover).  The step of an import is described by seven kinds (Becomes).  *)
(***************************************************************************)
EXTENDS Migrate, TLAPS

(* Where a job of the mover can be told to go on. *)
Places == {"stop", "export", "restart", "exported", "send", "ask", "list", "again",
           "arrived", "undo", "end"}

(* The answer to the question about a move is one of four words: no status *)
(* of an operation leaks into it.                                          *)
LEMMA MoveStateType ==
  ASSUME TypeOK
  PROVE  MoveState \in {"unknown", "running", "landed", "failed"}
BY DEF TypeOK, Receipt, Import, Copies, MoveState, Lives

(* A write to one field of an import row leaves an import row.             *)
LEMMA ImportField ==
  ASSUME NEW i \in Import
  PROVE  /\ \A v \in {"checking", "made", "undoing", "ended"} : [i EXCEPT !.at = v] \in Import
         /\ \A v \in {"PROVISIONING", "RUNNING", "DELETED"} : [i EXCEPT !.row = v] \in Import
         /\ \A v \in {"running", "held", "succeeded", "rolled_back"} :
              [i EXCEPT !.op = v] \in Import
         /\ \A v \in {"absent", "stopped", "running"} : [i EXCEPT !.con = v] \in Import
         /\ \A v \in BOOLEAN : [i EXCEPT !.memory = v] \in Import
         /\ \A v \in {"created", "refused", "unclear"} : [i EXCEPT !.answer = v] \in Import
BY DEF Import

(* What a docker call or a rollback leaves of an import is an import row.  *)
LEMMA PartlyType ==
  ASSUME TypeOK, NEW c \in Copies
  PROVE  Partly(c) \subseteq Import
<1>1. ASSUME NEW x \in {"absent", "stopped", "running"}, NEW m \in BOOLEAN
      PROVE  [imp[c] EXCEPT !.con = x, !.memory = m] \in Import
  <2>1. [imp[c] EXCEPT !.con = x] \in Import
    BY ImportField DEF TypeOK
  <2> QED
    BY <2>1, ImportField
<1>2. ASSUME NEW e \in Effects(c)
      PROVE  e.con \in {"absent", "stopped", "running"} /\ e.memory \in BOOLEAN
  BY DEF Effects
<1> QED
  BY <1>1, <1>2 DEF Partly

(* An import that ends, however, is an import row.                         *)
LEMMA EndedType ==
  ASSUME TypeOK, NEW c \in Copies, NEW a \in {"created", "refused", "unclear"}
  PROVE  Ended(c, a) \in Import
<1>1. [imp[c] EXCEPT !.at = "ended"] \in Import
  BY ImportField DEF TypeOK
<1> QED
  BY <1>1, ImportField DEF Ended

(* So is what a death of the other server leaves of one.                   *)
LEMMA CutOffType ==
  ASSUME TypeOK, NEW c \in Copies
  PROVE  CutOff(c) \subseteq Import
<1>1. imp[c] \in Import
  BY DEF TypeOK
<1>2. Ended(c, "unclear") \in Import
  BY EndedType
<1>3. ASSUME NEW r \in {"PROVISIONING", "RUNNING"}
      PROVE  [Ended(c, "unclear") EXCEPT !.row = r] \in Import
  BY <1>2, ImportField
<1>4. [Ended(c, "unclear") EXCEPT !.row = "PROVISIONING", !.op = "running"] \in Import
  BY <1>3, ImportField
<1>5. ASSUME NEW i \in Partly(c)
      PROVE  [i EXCEPT !.at = "ended", !.answer = "unclear"] \in Import
  <2>1. [i EXCEPT !.at = "ended"] \in Import
    BY PartlyType, ImportField
  <2> QED
    BY <2>1, ImportField
<1> QED
  BY <1>1, <1>2, <1>3, <1>4, <1>5 DEF CutOff

(* An undone import is an import row, ended or being resumed.              *)
LEMMA RemovedType ==
  ASSUME TypeOK, NEW c \in Copies
  PROVE  /\ Removed(c) \in Import
         /\ [Removed(c) EXCEPT !.at = "ended", !.answer = "refused"] \in Import
<1>1. [imp[c] EXCEPT !.con = "absent"] \in Import
  BY ImportField DEF TypeOK
<1>2. [imp[c] EXCEPT !.con = "absent", !.memory = FALSE] \in Import
  BY <1>1, ImportField
<1>3. [imp[c] EXCEPT !.con = "absent", !.memory = FALSE, !.row = "DELETED"] \in Import
  BY <1>2, ImportField
<1>4. Removed(c) \in Import
  BY <1>3, ImportField DEF Removed
<1>5. [Removed(c) EXCEPT !.at = "ended"] \in Import
  BY <1>4, ImportField
<1> QED
  BY <1>4, <1>5, ImportField

(* What receiveMove's callbacks write is a receipt.                        *)
LEMMA FinishType ==
  ASSUME TypeOK, NEW c \in Copies, NEW o \in {"landed", "failed"}
  PROVE  Finish(c, o) \in Receipt /\ Attach(c) \in Receipt
BY DEF TypeOK, Receipt, Finish, Attach

(* The initial states are well typed.                                      *)
LEMMA InitType == Init => TypeOK
BY DEF Init, TypeOK, AgentRow, OpRow, Job, Import, Receipt, Copies, Status, Idle,
       NoImport, NoReceipt

(* What a step of the mover leaves of its job is a job.                    *)
LEMMA JobType ==
  ASSUME TypeOK
  PROVE  /\ Idle \in Job
         /\ \A p \in Places : At(p) \in Job
         /\ \A once \in BOOLEAN : Asking(once) \in Job
BY DEF TypeOK, Job, Places, Idle, At, Asking

(* What a docker call leaves of the agent here is an agents row.           *)
LEMMA RowType ==
  ASSUME NEW s \in AgentRow, NEW u \in BOOLEAN, NEW t \in {"RUNNING", "STOPPED"}
  PROVE  /\ [s EXCEPT !.up = u] \in AgentRow
         /\ [s EXCEPT !.up = u, !.state = t] \in AgentRow
         /\ [s EXCEPT !.up = u, !.state = t, !.asleep = FALSE] \in AgentRow
         /\ [s EXCEPT !.asleep = u] \in AgentRow
         /\ [s EXCEPT !.moved = u] \in AgentRow
BY DEF AgentRow

(* What a write of a step leaves of the operation is an operation.         *)
LEMMA OpType ==
  ASSUME NEW m \in OpRow, NEW t \in Status, NEW b \in BOOLEAN
  PROVE  /\ [m EXCEPT !.status = t] \in OpRow
         /\ [m EXCEPT !.status = t, !.canAsk = b] \in OpRow
         /\ [m EXCEPT !.sent = b] \in OpRow
BY DEF OpRow

(* Every step of the move, on this side, keeps the types.                  *)
LEMMA MoveStepType == TypeOK /\ MoveStep => TypeOK'
<1> SUFFICES ASSUME TypeOK, MoveStep PROVE TypeOK'
  OBVIOUS
<1> USE DEF TypeOK, away
<1>0. /\ Idle \in Job
      /\ \A p \in Places : At(p) \in Job
      /\ \A once \in BOOLEAN : Asking(once) \in Job
      /\ [mop EXCEPT !.status = "over"] \in OpRow
  BY JobType, OpType DEF Status
<1>1. ASSUME Preflight PROVE TypeOK'
  BY <1>0, <1>1 DEF Preflight, Places
<1>2. ASSUME StopSource PROVE TypeOK'
  <2>1. src' \in AgentRow
    <3>1. src.up \in BOOLEAN
      BY DEF AgentRow
    <3> QED
      BY <1>2, <3>1, RowType DEF StopSource
  <2> QED
    BY <1>0, <1>2, <2>1 DEF StopSource, Places
<1>3. ASSUME ExportSource PROVE TypeOK'
  BY <1>0, <1>3, RowType DEF ExportSource, Places
<1>4. ASSUME RestartSource PROVE TypeOK'
  <2>1. src' \in AgentRow
    BY <1>4, RowType DEF RestartSource
  <2> QED
    BY <1>0, <1>4, <2>1 DEF RestartSource
<1>5. ASSUME Send PROVE TypeOK'
  <2>1. imp' \in [Copies -> Import]
    BY <1>5 DEF Send, Import, Copies
  <2>2. mop' \in OpRow
    BY <1>5, OpType DEF Send, OpRow
  <2> QED
    BY <1>0, <1>5, <2>1, <2>2 DEF Send, Places
<1>6. ASSUME NEW c \in Copies, Answered(c) PROVE TypeOK'
  <2>1. job' \in Job
    BY <1>0, <1>6 DEF Answered, Places
  <2> QED
    BY <1>6, <2>1 DEF Answered
<1>7. ASSUME AnswerLost PROVE TypeOK'
  BY <1>0, <1>7 DEF AnswerLost
<1>8. ASSUME Ask PROVE TypeOK'
  <2> DEFINE told == IF there = "up" THEN MoveState ELSE "none"
  <2>1. told \in {"none", "unknown", "running", "landed", "failed"}
    BY MoveStateType
  <2>2. job' \in Job
    BY <1>8, <2>1 DEF Ask, Job
  <2> QED
    BY <1>8, <2>2 DEF Ask
<1>9. ASSUME List PROVE TypeOK'
  <2>1. [At("again") EXCEPT !.never = TRUE] \in Job
    BY <1>0 DEF Places, Job
  <2>2. job' \in Job
    BY <1>0, <1>9, <2>1 DEF List, Places
  <2> QED
    BY <1>9, <2>2 DEF List
<1>10. ASSUME AskAgain PROVE TypeOK'
  <2>1. CASE job' = At("ask") /\ UNCHANGED mop
    BY <1>0, <1>10, <2>1 DEF AskAgain, Places
  <2>2. CASE Hold(TRUE)
    BY <1>0, <1>10, <2>2, OpType DEF AskAgain, Hold, Status
  <2> QED
    BY <1>10, <2>1, <2>2 DEF AskAgain
<1>11. ASSUME Tombstone PROVE TypeOK'
  BY <1>0, <1>11, RowType DEF Tombstone, Places
<1>12. ASSUME UndoSource PROVE TypeOK'
  <2>1. PutBack(src) \in AgentRow /\ src.up \in BOOLEAN
    BY RowType DEF PutBack, AgentRow
  <2>2. src' \in AgentRow
    BY <1>12, <2>1, RowType DEF UndoSource
  <2> QED
    BY <1>0, <1>12, <2>2 DEF UndoSource, Places
<1>13. ASSUME EndMove PROVE TypeOK'
  BY <1>0, <1>13 DEF EndMove
<1> QED
  BY <1>1, <1>2, <1>3, <1>4, <1>5, <1>6, <1>7, <1>8, <1>9, <1>10, <1>11, <1>12,
     <1>13 DEF MoveStep

(* Every step of an import, on the other side, keeps the types.            *)
LEMMA ImportStepType ==
  ASSUME TypeOK, NEW c \in Copies,
         Arrive(c) \/ FlightLost(c) \/ ImportStep(c) \/ ResumeImport(c)
  PROVE  TypeOK'
<1> USE DEF TypeOK, here
<1>0. Other(c) \in Copies /\ imp[c] \in Import /\ imp[Other(c)] \in Import
  BY DEF Copies, Other
<1>1. ASSUME NEW i \in Import, imp' = [imp EXCEPT ![c] = i] PROVE imp' \in [Copies -> Import]
  BY <1>1
<1>2. /\ \A a \in {"created", "refused", "unclear"} : Ended(c, a) \in Import
      /\ \A o \in {"landed", "failed"} : Finish(c, o) \in Receipt
      /\ Attach(c) \in Receipt
      /\ Removed(c) \in Import
      /\ [Removed(c) EXCEPT !.at = "ended", !.answer = "refused"] \in Import
  BY EndedType, FinishType, RemovedType
<1>3. ASSUME Arrive(c) PROVE TypeOK'
  <2> DEFINE got == IF receipt.has THEN receipt
                    ELSE [NoReceipt EXCEPT !.has = TRUE, !.by = c, !.fresh = TRUE]
  <2>1. got \in Receipt /\ [got EXCEPT !.outcome = "failed"] \in Receipt
    BY DEF NoReceipt, Receipt
  <2>2. receipt' \in Receipt
    BY <1>3, <2>1 DEF Arrive
  <2>3. CASE imp' = [imp EXCEPT ![c] = Ended(c, "refused")]
    BY <1>1, <1>2, <1>3, <2>2, <2>3 DEF Arrive
  <2>4. CASE imp' = [imp EXCEPT ![c].at = "checking",
                       ![Other(c)].row = IF @ = "DELETED" THEN "RELEASED" ELSE @]
    <3>1. imp' \in [Copies -> Import]
      BY <1>0, <2>4 DEF Import, Other
    <3> QED
      BY <1>3, <2>2, <3>1 DEF Arrive
  <2> QED
    BY <1>3, <2>3, <2>4 DEF Arrive
<1>4. ASSUME FlightLost(c) PROVE TypeOK'
  <2>1. imp' \in [Copies -> Import]
    BY <1>4 DEF FlightLost, Import
  <2> QED
    BY <1>4, <2>1 DEF FlightLost
<1>5. ASSUME CheckRefused(c) PROVE TypeOK'
  <2>1. imp' \in [Copies -> Import]
    BY <1>1, <1>2, <1>5 DEF CheckRefused
  <2> QED
    BY <1>2, <1>5, <2>1 DEF CheckRefused
<1>6. ASSUME MakeRow(c) PROVE TypeOK'
  <2>1. imp' \in [Copies -> Import]
    <3> DEFINE i == [imp[c] EXCEPT !.at = "made"]
               j == [i EXCEPT !.row = "PROVISIONING"]
    <3>1. i \in Import
      BY <1>0, ImportField
    <3>2. j \in Import
      BY <3>1, ImportField
    <3>3. [j EXCEPT !.op = "running"] \in Import
      BY <3>2, ImportField
    <3>4. imp' = [imp EXCEPT ![c] = [j EXCEPT !.op = "running"]]
      BY <1>0, <1>6 DEF MakeRow
    <3> QED
      BY <1>1, <3>3, <3>4
  <2> QED
    BY <1>2, <1>6, <2>1 DEF MakeRow
<1>7. ASSUME ImportOn(c) PROVE TypeOK'
  <2>1. imp' \in [Copies -> Import]
    <3>1. CASE Copy(c) \/ Configure(c) \/ Start(c)
      BY <3>1 DEF Copy, Configure, Start, Import
    <3>2. CASE Fail(c)
      <4>1. PICK i \in Partly(c) : imp' = [imp EXCEPT ![c] = [i EXCEPT !.at = "undoing"]]
        BY <3>2 DEF Fail
      <4>2. [i EXCEPT !.at = "undoing"] \in Import
        BY PartlyType DEF Import
      <4> QED
        BY <1>1, <4>1, <4>2
    <3> QED
      BY <1>7, <3>1, <3>2 DEF ImportOn
  <2> QED
    BY <1>7, <2>1 DEF ImportOn
<1>8. ASSUME Land(c) PROVE TypeOK'
  <2>1. [Ended(c, "created") EXCEPT !.row = "RUNNING", !.op = "succeeded"] \in Import
    <3>1. [Ended(c, "created") EXCEPT !.row = "RUNNING"] \in Import
      BY <1>2, ImportField
    <3> QED
      BY <3>1, ImportField
  <2> QED
    BY <1>1, <1>2, <1>8, <2>1 DEF Land
<1>9. ASSUME UndoImport(c) PROVE TypeOK'
  <2>1. CASE imp' = [imp EXCEPT ![c] =
                       [Removed(c) EXCEPT !.at = "ended", !.answer = "refused"]]
    BY <1>1, <1>2, <1>9, <2>1 DEF UndoImport
  <2>2. CASE \E i \in Partly(c) : imp' = [imp EXCEPT ![c] =
                [i EXCEPT !.at = "ended", !.answer = "unclear", !.op = "held"]]
    <3>1. PICK i \in Partly(c) : imp' = [imp EXCEPT ![c] =
                 [i EXCEPT !.at = "ended", !.answer = "unclear", !.op = "held"]]
      BY <2>2
    <3>2. [i EXCEPT !.at = "ended", !.answer = "unclear", !.op = "held"] \in Import
      <4>1. [i EXCEPT !.at = "ended"] \in Import
        BY PartlyType, ImportField
      <4>2. [i EXCEPT !.at = "ended", !.answer = "unclear"] \in Import
        BY <4>1, ImportField
      <4> QED
        BY <4>2, ImportField
    <3>3. imp' \in [Copies -> Import]
      BY <1>1, <3>1, <3>2
    <3> QED
      BY <1>2, <1>9, <3>3 DEF UndoImport
  <2> QED
    BY <1>9, <2>1, <2>2 DEF UndoImport
<1>10. ASSUME ResumeImport(c) PROVE TypeOK'
  <2>1. CASE imp' = [imp EXCEPT ![c].op = "succeeded"]
    <3>1. imp' \in [Copies -> Import]
      BY <2>1 DEF Import
    <3> QED
      BY <1>10, <3>1 DEF ResumeImport
  <2>2. CASE imp' = [imp EXCEPT ![c] = Removed(c)]
    BY <1>1, <1>2, <1>10, <2>2 DEF ResumeImport
  <2>3. CASE \E i \in Partly(c) : imp' = [imp EXCEPT ![c] = [i EXCEPT !.op = "held"]]
    <3>1. PICK i \in Partly(c) : imp' = [imp EXCEPT ![c] = [i EXCEPT !.op = "held"]]
      BY <2>3
    <3>2. [i EXCEPT !.op = "held"] \in Import
      BY PartlyType DEF Import
    <3> QED
      BY <1>1, <1>10, <3>1, <3>2 DEF ResumeImport
  <2> QED
    BY <1>10, <2>1, <2>2, <2>3 DEF ResumeImport
<1> QED
  BY <1>3, <1>4, <1>5, <1>6, <1>7, <1>8, <1>9, <1>10 DEF ImportStep

(* The restart rule, the owners, the deaths and the network keep them too. *)
LEMMA OtherStepType ==
  ASSUME TypeOK,
         \/ MoveBegin \/ ResumeMigrate \/ SayArrived \/ SayNotThere \/ StartRoute
         \/ StopOrSleep \/ RemovePeer \/ Repeat \/ CrashHere \/ BootHere
         \/ CrashThere \/ BootThere \/ LinkFlips
  PROVE  TypeOK'
<1> USE DEF TypeOK, here, away
<1>0. /\ Idle \in Job
      /\ \A p \in Places : At(p) \in Job
      /\ \A once \in BOOLEAN : Asking(once) \in Job
      /\ src.up \in BOOLEAN
  BY JobType DEF AgentRow
<1>1. ASSUME MoveBegin PROVE TypeOK'
  <2>1. mop' \in OpRow
    BY <1>1 DEF MoveBegin, OpRow, AgentRow, Status
  <2>2. job' \in Job
    BY <1>1 DEF MoveBegin, At, Job
  <2>3. imp' \in [Copies -> Import] /\ receipt' \in Receipt
    BY <1>1 DEF MoveBegin, NoImport, NoReceipt, Import, Receipt, Copies
  <2> QED
    BY <1>1, <2>1, <2>2, <2>3 DEF MoveBegin
<1>2. ASSUME ResumeMigrate PROVE TypeOK'
  <2>1. CASE Hold(FALSE)
    BY <1>0, <1>2, <2>1, OpType DEF ResumeMigrate, Hold, Status
  <2>2. CASE job' = Resumed(mop.status = "held") /\ UNCHANGED mop
    <3>1. Resumed(mop.status = "held") \in Job
      <4>1. Asking(mop.status = "held") \in Job
        BY <1>0
      <4> QED
        BY <1>0, <4>1 DEF Resumed, Places
    <3> QED
      BY <1>2, <2>2, <3>1 DEF ResumeMigrate
  <2> QED
    BY <1>2, <2>1, <2>2 DEF ResumeMigrate
<1>3. ASSUME SayArrived \/ SayNotThere PROVE TypeOK'
  BY <1>0, <1>3 DEF SayArrived, SayNotThere, Places
<1>4. ASSUME StartRoute PROVE TypeOK'
  <2>1. src' \in AgentRow
    <3>1. [src EXCEPT !.state = "RUNNING", !.up = TRUE, !.asleep = FALSE] \in AgentRow
      BY DEF AgentRow
    <3>2. \A u \in {src.up, TRUE} : [src EXCEPT !.up = u] \in AgentRow
      BY <1>0, RowType
    <3> QED
      BY <1>4, <3>1, <3>2 DEF StartRoute
  <2>2. UNCHANGED <<mop, job, peer, away>>
    BY <1>4 DEF StartRoute
  <2> QED
    BY <2>1, <2>2
<1>5. ASSUME StopOrSleep PROVE TypeOK'
  <2>1. src' \in AgentRow
    <3>1. ASSUME NEW asleep \in BOOLEAN
          PROVE  [src EXCEPT !.state = "STOPPED", !.up = FALSE, !.asleep = asleep] \in AgentRow
      BY DEF AgentRow
    <3>2. \A u \in {src.up, FALSE} : [src EXCEPT !.up = u] \in AgentRow
      BY <1>0, RowType
    <3> QED
      BY <1>5, <3>1, <3>2 DEF StopOrSleep
  <2>2. UNCHANGED <<mop, job, peer, away>>
    BY <1>5 DEF StopOrSleep
  <2> QED
    BY <2>1, <2>2
<1>6. ASSUME RemovePeer \/ LinkFlips PROVE TypeOK'
  BY <1>6 DEF RemovePeer, LinkFlips
<1>7. ASSUME Repeat PROVE TypeOK'
  <2>1. imp' \in [Copies -> Import]
    BY <1>7 DEF Repeat, Import, Copies
  <2> QED
    BY <1>7, <2>1 DEF Repeat
<1>8. ASSUME CrashHere PROVE TypeOK'
  <2>1. src' \in AgentRow
    <3>1. /\ [src EXCEPT !.up = FALSE] \in AgentRow
          /\ [src EXCEPT !.up = TRUE] \in AgentRow
          /\ [src EXCEPT !.asleep = FALSE] \in AgentRow
      BY RowType
    <3>2. src' \in {src, [src EXCEPT !.up = FALSE], [src EXCEPT !.up = TRUE],
                    [src EXCEPT !.asleep = FALSE]}
      BY <1>8 DEF CrashHere
    <3> QED
      BY <3>1, <3>2
  <2>2. job' \in Job
    BY <1>8 DEF CrashHere, Idle, Job
  <2> QED
    BY <1>8, <2>1, <2>2 DEF CrashHere
<1>9. ASSUME BootHere PROVE TypeOK'
  <2>1. mop' \in OpRow
    BY <1>9 DEF BootHere, OpRow, Status
  <2> QED
    BY <1>0, <1>9, <2>1 DEF BootHere
<1>10. ASSUME CrashThere PROVE TypeOK'
  <2>1. imp' \in [Copies -> Import]
    BY <1>10, CutOffType DEF CrashThere
  <2>2. receipt' \in Receipt
    BY <1>10 DEF CrashThere, Receipt
  <2> QED
    BY <1>10, <2>1, <2>2 DEF CrashThere
<1>11. ASSUME BootThere PROVE TypeOK'
  <2>1. ASSUME NEW c \in Copies PROVE [imp[c] EXCEPT !.op = "interrupted"] \in Import
    BY DEF Import
  <2>2. imp' \in [Copies -> Import]
    BY <1>11, <2>1 DEF BootThere
  <2> QED
    BY <1>11, <2>2 DEF BootThere
<1> QED
  BY <1>1, <1>2, <1>3, <1>4, <1>5, <1>6, <1>7, <1>8, <1>9, <1>10, <1>11

(* Every variable of both servers stays in its type, whatever a repeated   *)
(* request may do.                                                         *)
THEOREM MigrateTypeCorrect == Spec => []TypeOK
<1>1. TypeOK /\ [Next]_vars => TypeOK'
  <2>1. ASSUME TypeOK, Next PROVE TypeOK'
    BY <2>1, MoveStepType, ImportStepType, OtherStepType DEF Next
  <2>2. ASSUME TypeOK, UNCHANGED vars PROVE TypeOK'
    BY <2>2 DEF TypeOK, vars
  <2> QED
    BY <2>1, <2>2
<1> QED
  BY <1>1, InitType, PTL DEF Spec
-----------------------------------------------------------------------------
(* With "outlives" closed: what an import looks like at each stage, and how *)
(* the receipt and the two imports fit.                                    *)
Once == "outlives" \notin Windows

Bare(i) == i.row = "none" /\ i.op = "none" /\ i.con = "absent" /\ ~i.memory
Shape(i) ==
  \/ i.at \in {"none", "flying", "lost", "checking"} /\ Bare(i) /\ i.answer = "none"
  \/ /\ i.at \in {"made", "built", "configured", "started", "undoing"}
     /\ i.row = "PROVISIONING" /\ i.op = "running" /\ i.answer = "none"
     /\ i.at = "made" => i.con = "absent" /\ ~i.memory
     /\ i.at \in {"built", "configured"} => i.con = "stopped" /\ i.memory
     /\ i.at = "started" => i.con = "running" /\ i.memory
  \/ i.at = "ended" /\ Bare(i) /\ i.answer \in {"refused", "unclear"}
  \/ /\ i.at = "ended" /\ i.row = "DELETED" /\ i.op = "rolled_back"
     /\ i.con = "absent" /\ ~i.memory /\ i.answer \in {"refused", "unclear"}
  \/ /\ i.at = "ended" /\ i.row = "PROVISIONING"
     /\ i.op \in {"running", "interrupted", "held"} /\ i.answer = "unclear"
  \/ /\ i.at = "ended" /\ i.row = "RUNNING" /\ i.con = "running" /\ i.memory
     /\ i.op \in {"running", "interrupted", "succeeded"} /\ i.answer \in {"unclear", "created"}
Shapes == \A c \in Copies : Shape(imp[c]) /\ (there = "down" => ~Working(c))

(* At most one copy ever has a row there, and it is the one attached unless *)
(* a death came between the row and the receipt.                           *)
OneRow ==
  \A c \in Copies : imp[c].row # "none" =>
    /\ imp[Other(c)].row = "none"
    /\ receipt.op # c => /\ imp[c].at = "ended" /\ imp[c].con = "absent"
                         /\ imp[c].row # "RUNNING"
Booked ==
  /\ ~receipt.has => /\ receipt.op = 0 /\ receipt.outcome = "none"
                     /\ \A c \in Copies : Bare(imp[c]) /\ imp[c].at # "checking"
  /\ receipt.has => imp[receipt.by].at \notin {"none", "flying", "lost"}
  /\ receipt.op # 0 => imp[receipt.op].row # "none"
  /\ receipt.op = 0 => receipt.outcome # "landed"
  /\ receipt.op = 0 /\ receipt.outcome = "failed" => imp[receipt.by].at = "ended"
  /\ receipt.has /\ ~receipt.fresh => \A c \in Copies : ~Working(c)

Good == TypeOK /\ Shapes /\ OneRow /\ Booked

(* Nothing of this move will land there any more.                          *)
NoneComes ==
  \A c \in Copies :
    /\ ~Landed(c) /\ imp[c].con # "running"
    /\ imp[c].at \in {"flying", "checking"} =>
         Outlived(c) \/ imp[Other(c)].row = "DELETED"
    /\ imp[c].at \in {"none", "flying", "lost", "checking", "ended"}

SomeLanded == \E c \in Copies : Landed(c)

(* The other of the two copies.                                            *)
LEMMA Pair ==
  ASSUME NEW c \in Copies
  PROVE  /\ Other(c) \in Copies /\ Other(c) # c /\ Other(Other(c)) = c
         /\ \A e \in Copies : e = c \/ e = Other(c)
BY DEF Copies, Other

(* A write to one import leaves the other alone.                           *)
LEMMA OnlyOne ==
  ASSUME TypeOK, NEW c \in Copies, NEW i \in Import, imp' = [imp EXCEPT ![c] = i]
  PROVE  imp'[c] = i /\ imp'[Other(c)] = imp[Other(c)]
BY Pair DEF TypeOK

(* What a call under way may leave of an import, field by field.           *)
LEMMA PartlyIs ==
  ASSUME TypeOK, NEW c \in Copies, NEW i \in Partly(c)
  PROVE  /\ i \in Import
         /\ i.at = imp[c].at /\ i.row = imp[c].row /\ i.op = imp[c].op
         /\ i.answer = imp[c].answer
         /\ \/ i.con = imp[c].con
            \/ imp[c].at = "made" /\ i.con = "stopped"
            \/ imp[c].at = "configured" /\ i.con = "running"
            \/ imp[c].at \in {"undoing", "ended"} /\ i.con = "absent"
         /\ \/ i.memory = imp[c].memory
            \/ imp[c].at = "made"
            \/ imp[c].at \in {"undoing", "ended"} /\ ~i.memory
<1>1. i \in Import
  BY PartlyType
<1>2. PICK e \in Effects(c) : i = [imp[c] EXCEPT !.con = e.con, !.memory = e.memory]
  BY DEF Partly
<1>3. imp[c] \in Import
  BY DEF TypeOK
<1>4. /\ i.at = imp[c].at /\ i.row = imp[c].row /\ i.op = imp[c].op
      /\ i.answer = imp[c].answer /\ i.con = e.con /\ i.memory = e.memory
  BY <1>2, <1>3 DEF Import
<1> QED
  BY <1>1, <1>4 DEF Effects

-----------------------------------------------------------------------------
(* What becomes of the container and the volume of an import that has a    *)
(* row, in a step of it or a death in one.                                 *)
Follows(i, j) ==
  \/ /\ i.at = "made" /\ j.at \in {"built", "undoing", "ended"}
     /\ j.row = "PROVISIONING" /\ j.con # "running"
  \/ i.at = "built" /\ j.row = "PROVISIONING" /\ j.con = i.con /\ j.memory = i.memory
  \/ i.at = "configured" /\ j.con \in {i.con, "running"} /\ j.memory = i.memory
  \/ i.at = "started" /\ j.con = i.con /\ j.memory = i.memory
  \/ /\ i.at \in {"undoing", "ended"} /\ i.row = "PROVISIONING"
     /\ j.at = "ended" /\ j.row \in {"PROVISIONING", "DELETED"}
     /\ j.con \in {i.con, "absent"} /\ (j.memory => i.memory)
  \/ /\ i.at = "ended" /\ i.row = j.row /\ i.at = j.at
     /\ j.con = i.con /\ j.memory = i.memory

(* A step of an import, as what it does to its row and the receipt.        *)
Refuses(c) ==
  /\ imp[c].at \in {"flying", "checking"}
  /\ imp'[c].at \in {"lost", "ended"} /\ Bare(imp'[c])
  /\ imp'[c].at = "lost" =>
       imp[c].at = "flying" /\ imp'[c].answer = "none" /\ receipt' = receipt
  /\ imp'[c].at = "ended" => imp'[c].answer \in {"refused", "unclear"} /\ there # "down"
  /\ \/ receipt' = receipt
     \/ /\ imp'[c].at = "ended" /\ receipt.has
        /\ receipt.by = c \/ receipt.op = c
        /\ receipt' = [receipt EXCEPT !.outcome = "failed"]
     \/ /\ imp'[c].at = "ended" /\ ~receipt.has
        /\ receipt' = [NoReceipt EXCEPT !.has = TRUE, !.by = c, !.fresh = TRUE,
                         !.outcome = "failed"]
Checks(c) ==
  /\ imp[c].at = "flying" /\ there # "down"
  /\ imp'[c].at = "checking" /\ Bare(imp'[c]) /\ imp'[c].answer = "none"
  /\ ~Lives(Other(c)) /\ ~Outlived(c) /\ imp[Other(c)].row # "DELETED"
  /\ \/ receipt.has /\ receipt' = receipt
     \/ /\ ~receipt.has
        /\ receipt' = [NoReceipt EXCEPT !.has = TRUE, !.by = c, !.fresh = TRUE]
Makes(c) ==
  /\ imp[c].at = "checking" /\ there # "down" /\ ~Outlived(c)
  /\ imp[Other(c)].row = "none"
  /\ imp'[c].at = "made" /\ imp'[c].row = "PROVISIONING" /\ imp'[c].op = "running"
  /\ imp'[c].con = "absent" /\ ~imp'[c].memory /\ imp'[c].answer = "none"
  /\ receipt' = [receipt EXCEPT !.op = c]
Works(c) ==
  /\ imp[c].at \in {"made", "built", "configured", "started"} /\ there # "down"
  /\ imp'[c].at \in {"built", "configured", "started", "undoing"} /\ Shape(imp'[c])
  /\ Follows(imp[c], imp'[c]) /\ receipt' = receipt
Lands(c) ==
  /\ imp[c].at = "started" /\ there # "down"
  /\ imp'[c].at = "ended" /\ imp'[c].row = "RUNNING" /\ imp'[c].op = "succeeded"
  /\ imp'[c].con = "running" /\ imp'[c].memory /\ imp'[c].answer = "created"
  /\ receipt' = [receipt EXCEPT !.outcome = "landed"]
Undoes(c) ==
  /\ imp[c].at \in {"undoing", "ended"} /\ imp[c].row = "PROVISIONING" /\ there # "down"
  /\ imp'[c].at = "ended" /\ Shape(imp'[c])
  /\ imp'[c].row \in {"PROVISIONING", "DELETED"}
  /\ imp'[c].con \in {imp[c].con, "absent"}
  /\ imp'[c].memory => imp[c].memory
  /\ \/ receipt' = receipt
     \/ receipt.op = c /\ receipt' = [receipt EXCEPT !.outcome = "failed"]
Owns(c) ==
  /\ imp[c].row = "RUNNING" /\ imp[c].at = "ended" /\ imp[c].op # "succeeded"
  /\ imp'[c] = [imp[c] EXCEPT !.op = "succeeded"]
  /\ receipt' = receipt

Becomes(c) ==
  /\ imp'[c] \in Import /\ imp'[Other(c)] = imp[Other(c)]
  /\ there' = there /\ UNCHANGED here
  /\ \/ Refuses(c) \/ Checks(c) \/ Makes(c) \/ Works(c) \/ Lands(c) \/ Undoes(c) \/ Owns(c)

(* The copy that has a row is the one the receipt is attached to, as long  *)
(* as it is worked on.                                                     *)
LEMMA Attached ==
  ASSUME Good, NEW c \in Copies, imp[c].row # "none",
         imp[c].at # "ended" \/ imp[c].row = "RUNNING"
  PROVE  receipt.op = c /\ receipt.has /\ imp[Other(c)].row = "none"
<1>1. receipt.op = c /\ imp[Other(c)].row = "none"
  BY DEF Good, OneRow
<1>2. c # 0
  BY DEF Copies
<1>3. receipt.has
  BY <1>1, <1>2 DEF Good, Booked, NoReceipt
<1> QED BY <1>1, <1>3

(* Every step of an import is one of these.                                *)
LEMMA ArriveBecomes ==
  ASSUME Good, Once, NEW c \in Copies, Arrive(c)
  PROVE  Becomes(c)
<1> DEFINE d == Other(c)
<1> DEFINE got == IF receipt.has THEN receipt
                  ELSE [NoReceipt EXCEPT !.has = TRUE, !.by = c, !.fresh = TRUE]
<1>0. /\ imp[c] \in Import /\ Shape(imp[c]) /\ imp[c].at = "flying" /\ there # "down"
      /\ imp[d] \in Import /\ Shape(imp[d]) /\ d # c /\ d \in Copies
      /\ there' = there /\ UNCHANGED here
  BY Pair DEF Good, TypeOK, Shapes, Arrive
<1>1. Bare(imp[c]) /\ imp[c].answer = "none"
  BY <1>0 DEF Shape
<1>2. receipt.has => receipt.by # c
  BY <1>0 DEF Good, Booked
<1>3. receipt.op # c
  BY <1>0, <1>1 DEF Good, Booked, Bare, Copies
<1>4. CASE imp' = [imp EXCEPT ![c] = Ended(c, "refused")]
  <2>1. Ended(c, "refused") \in Import
    BY EndedType DEF Good
  <2>2. imp'[c] = Ended(c, "refused") /\ imp'[d] = imp[d]
    BY <1>4, <2>1, OnlyOne DEF Good
  <2>3. imp'[c].at = "ended" /\ Bare(imp'[c]) /\ imp'[c].answer = "refused"
    BY <2>2, <1>0, <1>1 DEF Ended, Import, Bare
  <2>4. \/ receipt' = receipt
        \/ ~receipt.has /\ receipt' = [NoReceipt EXCEPT !.has = TRUE, !.by = c, !.fresh = TRUE,
                                         !.outcome = "failed"]
    <3>1. CASE receipt' = receipt
      BY <3>1
    <3>2. CASE receipt' = IF got.by = c THEN [got EXCEPT !.outcome = "failed"] ELSE got
      BY <3>2, <1>2 DEF NoReceipt
    <3>3. imp'[c].at # "checking"
      BY <2>3
    <3>4. CASE imp' = [imp EXCEPT ![c].at = "checking",
                           ![d].row = IF @ = "DELETED" THEN "RELEASED" ELSE @]
      BY <3>3, <3>4, <1>0 DEF Good, TypeOK, Import
    <3> QED BY <1>4, <3>1, <3>2, <3>4 DEF Arrive
  <2>5. Refuses(c)
    BY <1>0, <2>3, <2>4 DEF Refuses
  <2> QED BY <1>0, <2>1, <2>2, <2>5 DEF Becomes
<1>5. CASE /\ ~Lives(d) /\ ~Outlived(c)
           /\ imp' = [imp EXCEPT ![c].at = "checking",
                        ![d].row = IF @ = "DELETED" THEN "RELEASED" ELSE @]
           /\ receipt' = got
  <2>1. imp[d].row # "DELETED"
    <3>1. imp[d].row = "DELETED" => imp[d].at = "ended" /\ ~Landed(d)
      BY <1>0 DEF Shape, Landed, Bare
    <3> QED BY <1>2, <1>5, <3>1 DEF Outlived, Once
  <2>2. imp'[c] = [imp[c] EXCEPT !.at = "checking"] /\ imp'[d] = imp[d]
    BY <1>0, <1>5, <2>1 DEF Good, TypeOK, Import
  <2>3. imp'[c].at = "checking" /\ Bare(imp'[c]) /\ imp'[c].answer = "none" /\ imp'[c] \in Import
    BY <1>0, <1>1, <2>2 DEF Import, Bare
  <2>4. Checks(c)
    BY <1>0, <1>5, <2>1, <2>3 DEF Checks
  <2> QED BY <1>0, <2>2, <2>3, <2>4 DEF Becomes
<1> QED
  BY <1>4, <1>5 DEF Arrive

(* A request that is lost leaves nothing.                                  *)
LEMMA FlightBecomes ==
  ASSUME Good, NEW c \in Copies, FlightLost(c)
  PROVE  Becomes(c)
<1>0. imp[c] \in Import /\ Shape(imp[c]) /\ Other(c) \in Copies /\ Other(c) # c
  BY Pair DEF Good, TypeOK, Shapes
<1>1. imp'[c] = [imp[c] EXCEPT !.at = "lost"] /\ imp'[Other(c)] = imp[Other(c)]
  BY <1>0 DEF FlightLost, Good, TypeOK
<1>2. /\ imp'[c].at = "lost" /\ Bare(imp'[c]) /\ imp'[c].answer = "none" /\ imp'[c] \in Import
      /\ imp[c].at = "flying"
  BY <1>0, <1>1 DEF FlightLost, Import, Bare, Shape
<1> QED BY <1>1, <1>2 DEF FlightLost, Becomes, Refuses

(* A refusal before the row is written leaves nothing.                     *)
LEMMA CheckBecomes ==
  ASSUME Good, NEW c \in Copies, CheckRefused(c)
  PROVE  Becomes(c)
<1>0. /\ imp[c] \in Import /\ Shape(imp[c]) /\ imp[c].at = "checking" /\ receipt \in Receipt
      /\ there # "down" /\ there' = there /\ UNCHANGED here
  BY DEF Good, TypeOK, Shapes, CheckRefused
<1>1. Bare(imp[c])
  BY <1>0 DEF Shape
<1>2. receipt.has
  BY <1>0 DEF Good, Booked
<1>3. PICK a \in {"refused", "unclear"} : imp' = [imp EXCEPT ![c] = Ended(c, a)]
  BY DEF CheckRefused
<1>4. Ended(c, a) \in Import
  BY EndedType DEF Good
<1>5. imp'[c] = Ended(c, a) /\ imp'[Other(c)] = imp[Other(c)]
  BY <1>3, <1>4, OnlyOne DEF Good
<1>6. imp'[c].at = "ended" /\ Bare(imp'[c]) /\ imp'[c].answer = a
  BY <1>5, <1>0, <1>1 DEF Ended, Import, Bare
<1>7. Refuses(c)
  BY <1>0, <1>2, <1>6 DEF Refuses, CheckRefused, Finish
<1> QED BY <1>0, <1>4, <1>5, <1>7 DEF Becomes

(* The row is written for a copy whose twin has none.                      *)
LEMMA MakeBecomes ==
  ASSUME Good, Once, NEW c \in Copies, MakeRow(c)
  PROVE  Becomes(c)
<1>0. /\ imp[c] \in Import /\ Shape(imp[c]) /\ imp[c].at = "checking"
      /\ there # "down" /\ there' = there /\ UNCHANGED here /\ ~Outlived(c)
      /\ Shape(imp[Other(c)]) /\ Other(c) \in Copies /\ Other(c) # c
      /\ \A e \in Copies : e = c \/ e = Other(c)
  BY Pair DEF Good, TypeOK, Shapes, MakeRow
<1>1. Bare(imp[c]) /\ imp[c].answer = "none"
  BY <1>0 DEF Shape
<1>2. imp[Other(c)].row = "none"
  BY <1>0 DEF MakeRow, NameFree, Shape, Bare
<1>3. receipt.op = 0
  BY <1>0, <1>1, <1>2 DEF Good, TypeOK, Receipt, Booked, Bare
<1>4. imp'[c] = [imp[c] EXCEPT !.at = "made", !.row = "PROVISIONING", !.op = "running"]
      /\ imp'[Other(c)] = imp[Other(c)]
  BY <1>0 DEF Good, TypeOK, MakeRow
<1>5. /\ imp'[c].at = "made" /\ imp'[c].row = "PROVISIONING" /\ imp'[c].op = "running"
      /\ imp'[c].con = "absent" /\ ~imp'[c].memory /\ imp'[c].answer = "none"
      /\ imp'[c] \in Import
  BY <1>0, <1>1, <1>4 DEF Import, Bare
<1>6. Makes(c)
  BY <1>0, <1>2, <1>3, <1>5 DEF Makes, MakeRow, Attach
<1> QED BY <1>0, <1>4, <1>5, <1>6 DEF Becomes

(* A step of the import itself, done or failed.                            *)
LEMMA WorkBecomes ==
  ASSUME Good, NEW c \in Copies, ImportOn(c)
  PROVE  Becomes(c)
<1>0. /\ imp[c] \in Import /\ Shape(imp[c]) /\ Other(c) \in Copies /\ Other(c) # c
      /\ there # "down" /\ there' = there /\ UNCHANGED here /\ receipt' = receipt
  BY Pair DEF Good, TypeOK, Shapes, ImportOn
<1>1. CASE Copy(c) \/ Configure(c) \/ Start(c)
  <2>1. /\ imp'[Other(c)] = imp[Other(c)]
        /\ \/ /\ imp[c].at = "made"
              /\ imp'[c] = [imp[c] EXCEPT !.at = "built", !.con = "stopped", !.memory = TRUE]
           \/ imp[c].at = "built" /\ imp'[c] = [imp[c] EXCEPT !.at = "configured"]
           \/ /\ imp[c].at = "configured"
              /\ imp'[c] = [imp[c] EXCEPT !.at = "started", !.con = "running"]
    BY <1>0, <1>1 DEF Good, TypeOK, Copy, Configure, Start
  <2>2. imp'[c] \in Import
    BY <1>0, <2>1 DEF Import
  <2>3. imp'[c].at \in {"built", "configured", "started"} /\ Shape(imp'[c])
    BY <1>0, <2>1 DEF Import, Shape, Bare
  <2>4. Follows(imp[c], imp'[c])
    BY <1>0, <2>1, <2>3 DEF Import, Shape, Bare, Follows
  <2> QED BY <1>0, <2>1, <2>2, <2>3, <2>4 DEF Becomes, Works
<1>2. CASE Fail(c)
  <2>1. PICK i \in Partly(c) : imp' = [imp EXCEPT ![c] = [i EXCEPT !.at = "undoing"]]
    BY <1>2 DEF Fail
  <2>2. /\ i \in Import /\ i.at = imp[c].at /\ i.row = imp[c].row /\ i.op = imp[c].op
        /\ i.answer = imp[c].answer
        /\ \/ i.con = imp[c].con
           \/ imp[c].at = "made" /\ i.con = "stopped"
           \/ imp[c].at = "configured" /\ i.con = "running"
        /\ i.memory = imp[c].memory \/ imp[c].at = "made"
    BY <1>2, PartlyIs DEF Good, Fail
  <2>3. [i EXCEPT !.at = "undoing"] \in Import
    BY <2>2, ImportField
  <2>4. imp'[c] = [i EXCEPT !.at = "undoing"] /\ imp'[Other(c)] = imp[Other(c)]
    BY <2>1, <2>3, OnlyOne DEF Good
  <2>5. /\ imp'[c].at = "undoing" /\ Shape(imp'[c])
        /\ imp[c].at \in {"made", "built", "configured", "started"}
    BY <1>0, <1>2, <2>2, <2>4 DEF Fail, Import, Shape, Bare
  <2>6. Follows(imp[c], imp'[c])
    <3>1. /\ imp'[c].row = "PROVISIONING" /\ imp'[c].con = i.con
          /\ imp'[c].memory = i.memory
      BY <1>0, <2>2, <2>4, <2>5 DEF Import, Shape, Bare
    <3>2. imp[c].at = "made" => imp[c].con = "absent"
      BY <1>0 DEF Shape, Bare
    <3> QED BY <2>2, <2>5, <3>1, <3>2 DEF Follows
  <2> QED BY <1>0, <2>3, <2>4, <2>5, <2>6 DEF Becomes, Works
<1> QED BY <1>1, <1>2 DEF ImportOn

(* The import that lands is the one the receipt is attached to.            *)
LEMMA LandBecomes ==
  ASSUME Good, NEW c \in Copies, Land(c)
  PROVE  Becomes(c)
<1>0. /\ imp[c] \in Import /\ Shape(imp[c]) /\ imp[c].at = "started" /\ Other(c) \in Copies
      /\ Other(c) # c /\ there # "down" /\ there' = there /\ UNCHANGED here
      /\ receipt' = Finish(c, "landed")
  BY Pair DEF Good, TypeOK, Shapes, Land
<1>1. imp[c].row = "PROVISIONING" /\ imp[c].con = "running" /\ imp[c].memory
  BY <1>0 DEF Shape
<1>2. receipt.op = c
  BY <1>0, <1>1, Attached
<1>3. imp'[c] = [Ended(c, "created") EXCEPT !.row = "RUNNING", !.op = "succeeded"]
      /\ imp'[Other(c)] = imp[Other(c)]
  BY <1>0 DEF Good, TypeOK, Land
<1>4. /\ imp'[c].at = "ended" /\ imp'[c].row = "RUNNING" /\ imp'[c].op = "succeeded"
      /\ imp'[c].con = "running" /\ imp'[c].memory /\ imp'[c].answer = "created"
      /\ imp'[c] \in Import
  BY <1>0, <1>1, <1>3 DEF Ended, Import
<1> QED BY <1>0, <1>2, <1>3, <1>4 DEF Becomes, Lands, Finish

(* The rollback removes it, or holds what it could not remove.             *)
LEMMA UndoBecomes ==
  ASSUME Good, NEW c \in Copies, UndoImport(c)
  PROVE  Becomes(c)
<1>0. /\ imp[c] \in Import /\ Shape(imp[c]) /\ imp[c].at = "undoing"
      /\ there # "down" /\ there' = there /\ UNCHANGED here
  BY DEF Good, TypeOK, Shapes, UndoImport
<1>1. imp[c].row = "PROVISIONING"
  BY <1>0 DEF Shape
<1>2. receipt.op = c
  BY <1>0, <1>1, Attached
<1>3. CASE /\ imp' = [imp EXCEPT ![c] = [Removed(c) EXCEPT !.at = "ended", !.answer = "refused"]]
           /\ receipt' = Finish(c, "failed")
  <2>1. imp'[c] = [Removed(c) EXCEPT !.at = "ended", !.answer = "refused"]
        /\ imp'[Other(c)] = imp[Other(c)] /\ imp'[c] \in Import
    BY <1>3, RemovedType, OnlyOne DEF Good
  <2>2. /\ imp'[c].at = "ended" /\ imp'[c].row = "DELETED" /\ imp'[c].op = "rolled_back"
        /\ imp'[c].con = "absent" /\ ~imp'[c].memory /\ imp'[c].answer = "refused"
    BY <1>0, <2>1 DEF Removed, Import
  <2> QED BY <1>0, <1>1, <1>2, <1>3, <2>1, <2>2 DEF Becomes, Undoes, Finish, Shape
<1>4. CASE /\ \E i \in Partly(c) : imp' = [imp EXCEPT ![c] =
                 [i EXCEPT !.at = "ended", !.answer = "unclear", !.op = "held"]]
           /\ UNCHANGED receipt
  <2>1. PICK i \in Partly(c) : imp' = [imp EXCEPT ![c] =
                 [i EXCEPT !.at = "ended", !.answer = "unclear", !.op = "held"]]
    BY <1>4
  <2>2. /\ i \in Import /\ i.row = imp[c].row /\ i.con \in {imp[c].con, "absent"}
        /\ i.memory => imp[c].memory
    BY <1>0, PartlyIs DEF Good
  <2>3. [i EXCEPT !.at = "ended", !.answer = "unclear", !.op = "held"] \in Import
    BY <2>2 DEF Import
  <2>4. imp'[c] = [i EXCEPT !.at = "ended", !.answer = "unclear", !.op = "held"]
        /\ imp'[Other(c)] = imp[Other(c)]
    BY <2>1, <2>3, OnlyOne DEF Good
  <2>5. /\ imp'[c].at = "ended" /\ imp'[c].row = "PROVISIONING" /\ imp'[c].op = "held"
        /\ imp'[c].answer = "unclear" /\ imp'[c].con \in {imp[c].con, "absent"}
        /\ imp'[c].memory => imp[c].memory
    BY <1>1, <2>2, <2>4 DEF Import
  <2> QED BY <1>0, <1>1, <1>4, <2>3, <2>4, <2>5 DEF Becomes, Undoes, Shape
<1> QED BY <1>3, <1>4 DEF UndoImport

(* So does the resume, which finishes one that had landed.                 *)
LEMMA ResumeBecomes ==
  ASSUME Good, NEW c \in Copies, ResumeImport(c)
  PROVE  Becomes(c)
<1>0. /\ imp[c] \in Import /\ Shape(imp[c]) /\ imp[c].at = "ended" /\ Other(c) \in Copies
      /\ Other(c) # c /\ there # "down" /\ there' = there /\ UNCHANGED here
      /\ receipt' = receipt /\ imp[c].op \in {"interrupted", "held"}
  BY Pair DEF Good, TypeOK, Shapes, ResumeImport
<1>1. imp[c].row = IF Landed(c) THEN "RUNNING" ELSE "PROVISIONING"
  BY <1>0 DEF Shape, Bare, Landed
<1>2. CASE Landed(c) /\ imp' = [imp EXCEPT ![c].op = "succeeded"]
  <2>1. imp'[c] = [imp[c] EXCEPT !.op = "succeeded"] /\ imp'[Other(c)] = imp[Other(c)]
        /\ imp'[c] \in Import
    BY <1>0, <1>2 DEF Good, TypeOK, Import
  <2> QED BY <1>0, <1>1, <1>2, <2>1 DEF Becomes, Owns
<1>3. CASE ~Landed(c) /\ imp' = [imp EXCEPT ![c] = Removed(c)]
  <2>1. imp'[c] = Removed(c) /\ imp'[Other(c)] = imp[Other(c)] /\ imp'[c] \in Import
    BY <1>3, RemovedType, OnlyOne DEF Good
  <2>0. imp[c].answer = "unclear"
    BY <1>0, <1>1, <1>3 DEF Shape, Bare
  <2>2. /\ imp'[c].at = "ended" /\ imp'[c].row = "DELETED" /\ imp'[c].op = "rolled_back"
        /\ imp'[c].con = "absent" /\ ~imp'[c].memory /\ imp'[c].answer = "unclear"
    BY <1>0, <2>0, <2>1 DEF Removed, Import
  <2> QED BY <1>0, <1>1, <1>3, <2>1, <2>2 DEF Becomes, Undoes, Shape
<1>4. CASE ~Landed(c) /\ \E i \in Partly(c) : imp' = [imp EXCEPT ![c] = [i EXCEPT !.op = "held"]]
  <2>1. PICK i \in Partly(c) : imp' = [imp EXCEPT ![c] = [i EXCEPT !.op = "held"]]
    BY <1>4
  <2>2. /\ i \in Import /\ i.row = imp[c].row /\ i.con \in {imp[c].con, "absent"}
        /\ i.at = "ended" /\ i.answer = imp[c].answer
        /\ i.memory => imp[c].memory
    BY <1>0, PartlyIs DEF Good
  <2>3. [i EXCEPT !.op = "held"] \in Import
    BY <2>2, ImportField
  <2>4. imp'[c] = [i EXCEPT !.op = "held"] /\ imp'[Other(c)] = imp[Other(c)]
    BY <2>1, <2>3, OnlyOne DEF Good
  <2>5. /\ imp'[c].at = "ended" /\ imp'[c].row = "PROVISIONING" /\ imp'[c].op = "held"
        /\ imp'[c].answer = "unclear" /\ imp'[c].con \in {imp[c].con, "absent"}
        /\ imp'[c].memory => imp[c].memory
    BY <1>0, <1>1, <1>4, <2>2, <2>4 DEF Import, Shape, Bare
  <2> QED BY <1>0, <1>1, <1>4, <2>3, <2>4, <2>5 DEF Becomes, Undoes, Shape
<1> QED BY <1>2, <1>3, <1>4 DEF ResumeImport

(* These are all the steps of an import.                                   *)
LEMMA StepBecomes ==
  ASSUME Good, Once, NEW c \in Copies,
         Arrive(c) \/ FlightLost(c) \/ ImportStep(c) \/ ResumeImport(c)
  PROVE  Becomes(c)
BY ArriveBecomes, FlightBecomes, CheckBecomes, MakeBecomes, WorkBecomes, LandBecomes,
   UndoBecomes, ResumeBecomes DEF ImportStep

-----------------------------------------------------------------------------
(* What an import's step keeps.                                            *)
VerdictStays == receipt'.has /\ MoveState \in {"landed", "failed"} => MoveState' = MoveState

(* They keep what an import looks like at each stage.                      *)
LEMMA ShapesKept ==
  ASSUME Good, NEW c \in Copies, Becomes(c)
  PROVE  Shapes'
<1>1. Shape(imp'[c]) /\ (there' = "down" => imp'[c].at \in {"lost", "ended"})
  <2>1. CASE Refuses(c)
    BY <2>1 DEF Becomes, Refuses, Shape
  <2>2. CASE Checks(c) \/ Makes(c) \/ Lands(c)
    BY <2>2 DEF Becomes, Checks, Makes, Lands, Shape
  <2>3. CASE Works(c) \/ Undoes(c)
    BY <2>3 DEF Becomes, Works, Undoes
  <2>4. CASE Owns(c)
    BY <2>4 DEF Becomes, Owns, Good, TypeOK, Shapes, Shape, Import, Bare
  <2> QED BY <2>1, <2>2, <2>3, <2>4 DEF Becomes
<1>2. Shape(imp'[Other(c)]) /\ (there' = "down" => ~Working(Other(c))')
  BY Pair DEF Becomes, Good, Shapes, Working
<1> QED
  BY <1>1, <1>2, Pair DEF Shapes, Working

(* They never give a second copy a row.                                    *)
LEMMA OneRowKept ==
  ASSUME Good, NEW c \in Copies, Becomes(c)
  PROVE  OneRow'
<1> DEFINE d == Other(c)
<1>0. /\ d \in Copies /\ c # d /\ Other(d) = c /\ \A e \in Copies : e = c \/ e = d
      /\ receipt \in Receipt /\ imp'[d] = imp[d] /\ c # 0 /\ d # 0
  BY Pair DEF Good, TypeOK, Becomes, Copies
<1>1. SUFFICES
        /\ imp'[c].row # "none" =>
             /\ imp[d].row = "none"
             /\ receipt'.op # c => /\ imp'[c].at = "ended" /\ imp'[c].con = "absent"
                                   /\ imp'[c].row # "RUNNING"
        /\ imp[d].row # "none" =>
             /\ imp'[c].row = "none"
             /\ receipt'.op # d => /\ imp[d].at = "ended" /\ imp[d].con = "absent"
                                   /\ imp[d].row # "RUNNING"
  BY <1>0 DEF OneRow
<1>2. /\ imp[c].row # "none" =>
           /\ imp[d].row = "none"
           /\ receipt.op # c => /\ imp[c].at = "ended" /\ imp[c].con = "absent"
                                /\ imp[c].row # "RUNNING"
      /\ imp[d].row # "none" =>
           /\ imp[c].row = "none"
           /\ receipt.op # d => /\ imp[d].at = "ended" /\ imp[d].con = "absent"
                                /\ imp[d].row # "RUNNING"
  BY <1>0 DEF Good, OneRow
<1>3. CASE Refuses(c)
  BY <1>0, <1>2, <1>3 DEF Refuses, Bare, Good, Booked, NoReceipt, Receipt
<1>4. CASE Checks(c)
  BY <1>0, <1>2, <1>4 DEF Checks, Bare, Good, Booked, NoReceipt
<1>5. CASE Makes(c)
  BY <1>0, <1>2, <1>5 DEF Makes, Receipt
<1>6. CASE Works(c)
  <2>1. imp[c].row = "PROVISIONING" /\ imp'[c].row = "PROVISIONING"
    BY <1>6 DEF Works, Good, Shapes, Shape
  <2> QED BY <1>2, <1>6, <2>1 DEF Works
<1>7. CASE Lands(c)
  <2>1. imp[c].row = "PROVISIONING"
    BY <1>7 DEF Lands, Good, Shapes, Shape
  <2> QED BY <1>0, <1>2, <1>7, <2>1 DEF Lands, Receipt
<1>8. CASE Undoes(c)
  BY <1>0, <1>2, <1>8 DEF Undoes, Receipt
<1>9. CASE Owns(c)
  <2>1. imp'[c].row = imp[c].row
    BY <1>9 DEF Owns, Good, TypeOK, Import
  <2> QED BY <1>2, <1>9, <2>1 DEF Owns
<1> QED
  BY <1>3, <1>4, <1>5, <1>6, <1>7, <1>8, <1>9 DEF Becomes

(* They keep what the receipt says of the two.                             *)
LEMMA BookedKept ==
  ASSUME Good, Once, NEW c \in Copies, Becomes(c)
  PROVE  Booked'
<1> DEFINE d == Other(c)
<1>0. /\ d \in Copies /\ c # d /\ Other(d) = c /\ \A e \in Copies : e = c \/ e = d
      /\ receipt \in Receipt /\ imp'[d] = imp[d] /\ c # 0 /\ d # 0
      /\ receipt.by \in {c, d} /\ receipt.op \in {0, c, d}
      /\ Shape(imp[c]) /\ Shape(imp[d])
  BY Pair DEF Good, TypeOK, Becomes, Copies, Receipt, Shapes
<1>1. CASE Refuses(c)
  <2>1. receipt.has => receipt.by = c \/ imp[receipt.by].at \notin {"none", "flying", "lost"}
    BY <1>0 DEF Good, Booked
  <2>2. receipt.has /\ receipt.by = c => imp[c].at = "checking"
    BY <1>1 DEF Refuses, Good, Booked
  <2>3. imp[c].row = "none" /\ receipt.op # c
    BY <1>0, <1>1 DEF Refuses, Good, Booked, Shape, Bare
  <2>4. ~Working(c)'
    BY <1>1 DEF Refuses, Working
  <2>5. CASE receipt' = receipt
    BY <1>0, <1>1, <2>2, <2>3, <2>4, <2>5 DEF Refuses, Good, Booked, Working
  <2>6. CASE receipt.has /\ receipt.by = c /\ receipt' = [receipt EXCEPT !.outcome = "failed"]
    BY <1>0, <1>1, <2>2, <2>3, <2>4, <2>6 DEF Refuses, Good, Booked, Working, Receipt
  <2>7. CASE ~receipt.has /\ receipt' = [NoReceipt EXCEPT !.has = TRUE, !.by = c, !.fresh = TRUE,
                                           !.outcome = "failed"]
    BY <1>0, <1>1, <2>4, <2>7 DEF Refuses, Good, Booked, Working, NoReceipt
  <2> QED BY <1>1, <2>3, <2>5, <2>6, <2>7 DEF Refuses
<1>2. CASE Checks(c)
  <2>1. receipt.op # c /\ (receipt.has => receipt.by # c)
    BY <1>0, <1>2 DEF Checks, Good, Booked, Shape, Bare
  <2>2. receipt.has => receipt.fresh
    <3>1. SUFFICES ASSUME receipt.has, ~receipt.fresh PROVE FALSE
      BY <1>0 DEF Receipt
    <3>2. ~Working(d) /\ receipt.by = d
      BY <1>0, <2>1, <3>1 DEF Good, Booked
    <3>3. imp[d].at = "ended"
      BY <1>0, <3>1, <3>2 DEF Good, Booked, Working, Shape
    <3> QED BY <1>2, <2>1, <3>3 DEF Checks, Outlived, Landed, Lives, Once
  <2> QED BY <1>0, <1>2, <2>1, <2>2 DEF Checks, Good, Booked, NoReceipt
<1>3. CASE Makes(c)
  BY <1>0, <1>3 DEF Makes, Good, Booked, Working, Receipt
<1>4. CASE Works(c)
  <2>1. imp[c].row = "PROVISIONING" /\ imp'[c].row = "PROVISIONING" /\ Working(c)
    BY <1>0, <1>4 DEF Works, Shape, Working
  <2>2. receipt.has /\ receipt.op = c
    BY <2>1, <1>4, Attached DEF Works
  <2> QED BY <1>0, <1>4, <2>1, <2>2 DEF Works, Good, Booked
<1>5. CASE Lands(c)
  <2>1. imp[c].row = "PROVISIONING" /\ Working(c)
    BY <1>0, <1>5 DEF Lands, Shape, Working
  <2>2. receipt.has /\ receipt.op = c
    BY <2>1, <1>5, Attached DEF Lands
  <2> QED BY <1>0, <1>5, <2>1, <2>2 DEF Lands, Good, Booked, Working, Receipt
<1>6. CASE Undoes(c)
  <2>1. receipt.has
    BY <1>6 DEF Undoes, Good, Booked, Bare
  <2>2. ~Working(c)' /\ imp'[c].row # "none" /\ imp'[c].at = "ended"
    BY <1>6 DEF Undoes, Working
  <2>3. CASE receipt' = receipt
    BY <1>0, <2>1, <2>2, <2>3 DEF Good, Booked, Working
  <2>4. CASE receipt.op = c /\ receipt' = [receipt EXCEPT !.outcome = "failed"]
    BY <1>0, <2>1, <2>2, <2>4 DEF Good, Booked, Working, Receipt
  <2> QED BY <1>6, <2>3, <2>4 DEF Undoes
<1>7. CASE Owns(c)
  <2>1. imp'[c].row = imp[c].row /\ imp'[c].at = imp[c].at /\ imp[c].row = "RUNNING"
        /\ receipt' = receipt
    BY <1>7 DEF Owns, Good, TypeOK, Import
  <2>2. receipt.has
    BY <2>1 DEF Good, Booked, Bare
  <2> QED BY <1>0, <2>1, <2>2 DEF Good, Booked, Working
<1> QED
  BY <1>1, <1>2, <1>3, <1>4, <1>5, <1>6, <1>7 DEF Becomes

(* What landed stays.                                                      *)
LEMMA LandedKept ==
  ASSUME Good, NEW c \in Copies, Becomes(c), SomeLanded
  PROVE  SomeLanded'
<1> DEFINE d == Other(c)
<1>1. d \in Copies /\ imp'[d] = imp[d] /\ (Landed(c) \/ Landed(d))
  BY Pair DEF Becomes, SomeLanded
<1>2. CASE Landed(d)
  BY <1>1, <1>2 DEF SomeLanded, Landed
<1>3. CASE Landed(c)
  <2>1. imp[c].at = "ended" /\ imp[c].row = "RUNNING"
    BY <1>3 DEF Good, Shapes, Shape, Landed, Bare
  <2>2. Owns(c)
    BY <2>1 DEF Becomes, Refuses, Checks, Makes, Works, Lands, Undoes
  <2>3. imp'[c].row = "RUNNING"
    BY <2>1, <2>2 DEF Owns, Good, TypeOK, Import
  <2> QED BY <2>3 DEF SomeLanded, Landed
<1> QED BY <1>1, <1>2, <1>3

(* Once nothing will land any more, nothing does.                          *)
LEMMA NoneComesKept ==
  ASSUME Good, Once, NEW c \in Copies, Becomes(c), NoneComes
  PROVE  NoneComes'
<1> DEFINE d == Other(c)
<1>0. /\ d \in Copies /\ c # d /\ Other(d) = c /\ \A e \in Copies : e = c \/ e = d
      /\ receipt \in Receipt /\ imp'[d] = imp[d]
      /\ Shape(imp[c]) /\ Shape(imp[d])
  BY Pair DEF Good, TypeOK, Becomes, Shapes
<1>1. /\ ~Landed(c) /\ imp[c].con # "running" /\ ~Landed(d) /\ imp[d].con # "running"
      /\ imp[c].at \in {"flying", "checking"} => Outlived(c) \/ imp[d].row = "DELETED"
      /\ imp[d].at \in {"flying", "checking"} => Outlived(d) \/ imp[c].row = "DELETED"
      /\ imp[c].at \in {"none", "flying", "lost", "checking", "ended"}
      /\ imp[d].at \in {"none", "flying", "lost", "checking", "ended"}
  BY <1>0 DEF NoneComes
<1>2. ~Checks(c) /\ ~Makes(c)
  BY <1>1 DEF Checks, Makes
<1>3. ~Works(c) /\ ~Lands(c) /\ ~Owns(c)
  BY <1>1 DEF Works, Lands, Owns, Landed
<1>4. /\ imp'[c].at \in {"lost", "ended"} /\ imp'[c].row # "RUNNING"
      /\ imp'[c].con # "running"
  BY <1>1, <1>2, <1>3 DEF Becomes, Refuses, Undoes, Bare
<1>5. ASSUME imp[d].at \in {"flying", "checking"}
      PROVE  Outlived(d)' \/ imp'[c].row = "DELETED"
  <2>1. CASE imp[c].row = "DELETED"
    <3>1. imp[c].at = "ended"
      BY <1>0, <2>1 DEF Shape, Bare
    <3> QED BY <1>2, <1>3, <2>1, <3>1 DEF Becomes, Refuses, Undoes
  <2>2. CASE Outlived(d)
    <3>1. imp[c].at = "ended" /\ ~(receipt.has /\ receipt.by = d)
      BY <1>0, <2>2 DEF Outlived
    <3>2. ~(receipt'.has /\ receipt'.by = d)
      BY <1>0, <1>2, <1>3, <3>1 DEF Becomes, Refuses, Undoes, Receipt
    <3>3. imp'[c].at = "ended"
      BY <1>2, <1>3, <3>1 DEF Becomes, Refuses, Undoes
    <3> QED BY <1>0, <1>4, <3>2, <3>3 DEF Outlived, Once, Landed
  <2> QED BY <1>0, <1>1, <1>5, <2>1, <2>2
<1> QED
  BY <1>0, <1>1, <1>4, <1>5 DEF NoneComes, Landed

(* Nobody attaches to, or writes into, a receipt that has its verdict.     *)
LEMMA VerdictKept ==
  ASSUME Good, Once, NEW c \in Copies, Becomes(c)
  PROVE  VerdictStays
<1> DEFINE d == Other(c)
<1>0. /\ d \in Copies /\ c # d /\ Other(d) = c /\ \A e \in Copies : e = c \/ e = d
      /\ receipt \in Receipt /\ imp'[d] = imp[d] /\ c # 0 /\ d # 0
      /\ receipt.by \in {c, d} /\ receipt.op \in {0, c, d}
      /\ Shape(imp[c]) /\ Shape(imp[d])
  BY Pair DEF Good, TypeOK, Becomes, Copies, Receipt, Shapes
<1>1. SUFFICES ASSUME MoveState \in {"landed", "failed"} PROVE MoveState' = MoveState
  BY DEF VerdictStays
<1>2. receipt.has
  BY <1>1 DEF MoveState
<1>3. CASE receipt.op = c
  <2>1. \/ imp[c].op = "succeeded"
        \/ imp[c].op = "rolled_back" /\ ~Lives(c)
    BY <1>0, <1>1, <1>2, <1>3 DEF MoveState
  <2>2. imp[c].at = "ended" /\ imp[c].row \in {"RUNNING", "DELETED"}
    BY <1>0, <2>1 DEF Shape, Bare
  <2>3. ~Owns(c) /\ ~Undoes(c)
    BY <1>0, <2>1, <2>2 DEF Owns, Undoes, Lives, Shape, Bare
  <2> QED BY <2>2, <2>3 DEF Becomes, Refuses, Checks, Makes, Works, Lands
<1>4. CASE receipt.op = d
  <2>1. imp[d].row # "none"
    BY <1>0, <1>4 DEF Good, Booked
  <2>2. ~Makes(c) /\ ~Lands(c) /\ ~Undoes(c)
    BY <1>0, <2>1 DEF Makes, Lands, Undoes, Good, OneRow, Shape
  <2>3. receipt'.has /\ receipt'.op = d
    BY <1>0, <1>2, <1>4, <2>2 DEF Becomes, Refuses, Checks, Works, Owns, Receipt
  <2> QED BY <1>0, <1>2, <1>4, <2>3 DEF MoveState, Lives
<1>5. CASE receipt.op = 0
  <2>1. MoveState = "failed" /\ (receipt.outcome = "failed" \/ ~receipt.fresh)
    BY <1>1, <1>2, <1>5 DEF MoveState, Good, Booked, TypeOK, Receipt
  <2>2. ~Makes(c)
    <3>1. SUFFICES ASSUME Makes(c) PROVE FALSE
      OBVIOUS
    <3>2. Working(c)
      BY <3>1 DEF Makes, Working
    <3>3. receipt.fresh
      BY <1>2, <3>2 DEF Good, Booked
    <3>4. imp[receipt.by].at = "ended" /\ receipt.by = d
      BY <1>0, <1>5, <2>1, <3>1, <3>3 DEF Good, Booked, Makes
    <3>5. ~Landed(d)
      BY <3>1 DEF Makes, Landed
    <3> QED BY <1>0, <3>1, <3>4, <3>5 DEF Makes, Outlived, Once
  <2>3. ~Lands(c)
    BY <1>5, <1>0, Attached DEF Lands, Shape
  <2>4. /\ receipt'.has /\ receipt'.op = 0 /\ receipt'.fresh = receipt.fresh
        /\ receipt'.outcome \in {receipt.outcome, "failed"}
    BY <1>0, <1>2, <1>5, <2>2, <2>3 DEF Becomes, Refuses, Checks, Works, Undoes, Owns, Receipt
  <2> QED BY <1>2, <1>5, <2>1, <2>4 DEF MoveState, Good, Booked, TypeOK, Receipt
<1> QED BY <1>0, <1>3, <1>4, <1>5

-----------------------------------------------------------------------------
(* What "failed" and "landed" say is so.                                   *)
LEMMA LandedIsSo == ASSUME Good, MoveState = "landed" PROVE SomeLanded
<1>1. receipt.has
  BY DEF MoveState
<1>2. receipt \in Receipt /\ receipt.op # 0
  BY <1>1 DEF MoveState, Good, TypeOK, Booked
<1>3. receipt.op \in Copies /\ imp[receipt.op].op = "succeeded"
  BY <1>1, <1>2 DEF MoveState, Receipt
<1>4. Landed(receipt.op)
  BY <1>3 DEF Good, Shapes, Shape, Landed, Bare
<1> QED BY <1>3, <1>4 DEF SomeLanded

(* "failed" is answered only when nothing will land any more.              *)
LEMMA FailedIsSo == ASSUME Good, Once, MoveState = "failed" PROVE NoneComes
<1>1. receipt.has /\ receipt \in Receipt
  BY DEF MoveState, Good, TypeOK
<1>2. CASE receipt.op # 0
  <2> DEFINE c == receipt.op
             d == Other(c)
  <2>0. /\ c \in Copies /\ d \in Copies /\ c # d /\ Other(d) = c
        /\ \A e \in Copies : e = c \/ e = d
        /\ Shape(imp[c]) /\ Shape(imp[d]) /\ receipt.by \in {c, d}
    BY <1>1, <1>2, Pair DEF Receipt, Good, Shapes
  <2>1. imp[c].op = "rolled_back" /\ ~Lives(c)
    BY <1>1, <1>2, <2>0 DEF MoveState
  <2>2. imp[c].at = "ended" /\ imp[c].row = "DELETED" /\ imp[c].con = "absent"
    BY <2>0, <2>1 DEF Shape, Bare
  <2>3. imp[d].row = "none"
    BY <2>0, <2>2 DEF Good, OneRow
  <2>4. imp[d].con # "running" /\ imp[d].at \in {"none", "flying", "lost", "checking", "ended"}
    BY <2>0, <2>3 DEF Shape, Bare
  <2> QED BY <2>0, <2>2, <2>3, <2>4 DEF NoneComes, Landed
<1>3. CASE receipt.op = 0
  <2>1. receipt.outcome = "failed" \/ ~receipt.fresh
    BY <1>1, <1>3 DEF MoveState, Good, Booked, Receipt
  <2> DEFINE c == receipt.by
             d == Other(c)
  <2>0. /\ c \in Copies /\ d \in Copies /\ c # d /\ Other(d) = c
        /\ \A e \in Copies : e = c \/ e = d
        /\ Shape(imp[c]) /\ Shape(imp[d])
    BY <1>1, Pair DEF Receipt, Good, Shapes
  <2>2. imp[c].at = "ended"
    <3>1. CASE receipt.outcome = "failed"
      BY <1>3, <3>1 DEF Good, Booked
    <3>2. CASE ~receipt.fresh
      BY <1>1, <2>0, <3>2 DEF Good, Booked, Working, Shape
    <3> QED BY <2>1, <3>1, <3>2
  <2>3. ASSUME NEW e \in Copies
        PROVE  imp[e].con # "running" /\ ~Landed(e)
               /\ imp[e].at \in {"none", "flying", "lost", "checking", "ended"}
    <3>1. CASE imp[e].row = "none"
      BY <2>0, <3>1 DEF Shape, Bare, Landed
    <3>2. CASE imp[e].row # "none"
      <4>1. e # 0
        BY DEF Copies
      <4> QED BY <1>3, <3>2, <4>1 DEF Good, OneRow, Landed
    <3> QED BY <3>1, <3>2
  <2>4. imp[d].at \in {"flying", "checking"} => Outlived(d)
    BY <2>0, <2>2, <2>3 DEF Outlived, Once
  <2> QED BY <2>0, <2>2, <2>3, <2>4 DEF NoneComes
<1> QED BY <1>2, <1>3

-----------------------------------------------------------------------------
(* A death of the other server, and its boot.                              *)
LEMMA CutOffIs ==
  ASSUME Good, NEW c \in Copies, NEW i \in CutOff(c)
  PROVE  /\ i \in Import /\ Shape(i)
         /\ imp[c].at \in {"none", "flying", "lost", "ended"} => i = imp[c]
         /\ imp[c].at = "checking" =>
              /\ i.at = "ended"
              /\ \/ Bare(i)
                 \/ /\ i.row = "PROVISIONING" /\ i.con = "absent" /\ ~i.memory
                    /\ imp[Other(c)].row = "none" /\ ~Outlived(c)
         /\ imp[c].row = "PROVISIONING" /\ imp[c].at # "ended" =>
              /\ i.at = "ended" /\ i.row \in {"PROVISIONING", "RUNNING"}
              /\ imp[c].at # "started" => i.row = "PROVISIONING"
              /\ \/ i.con = imp[c].con
                 \/ imp[c].at = "made" /\ i.con = "stopped"
                 \/ imp[c].at = "configured" /\ i.con = "running"
                 \/ imp[c].at = "undoing" /\ i.con = "absent"
              /\ \/ i.memory = imp[c].memory
                 \/ imp[c].at = "made"
                 \/ imp[c].at = "undoing" /\ ~i.memory
<1>0. i \in Import /\ imp[c] \in Import /\ Shape(imp[c])
  BY CutOffType DEF Good, TypeOK, Shapes
<1>1. CASE imp[c].at \in {"none", "flying", "lost", "ended"}
  <2>1. i = imp[c]
    BY <1>1 DEF CutOff
  <2>2. imp[c].at # "ended" => imp[c].row = "none"
    BY <1>0, <1>1 DEF Shape, Bare
  <2> QED BY <1>0, <1>1, <2>1, <2>2
<1>2. CASE imp[c].at = "checking"
  <2>1. Bare(imp[c])
    BY <1>0, <1>2 DEF Shape
  <2>2. CASE i = Ended(c, "unclear")
    <3>1. i.at = "ended" /\ i.answer = "unclear" /\ Bare(i)
      BY <1>0, <2>1, <2>2 DEF Ended, Import, Bare
    <3> QED BY <1>0, <1>2, <2>1, <3>1 DEF Shape, Bare
  <2>3. CASE /\ i = [Ended(c, "unclear") EXCEPT !.row = "PROVISIONING", !.op = "running"]
             /\ NameFree(c) /\ ~Outlived(c)
    <3>1. /\ i.at = "ended" /\ i.answer = "unclear" /\ i.row = "PROVISIONING"
          /\ i.op = "running" /\ i.con = "absent" /\ ~i.memory
      BY <1>0, <2>1, <2>3 DEF Ended, Import, Bare
    <3>2. imp[Other(c)].row = "none"
      BY <2>3, Pair DEF NameFree, Good, Shapes, Shape, Bare
    <3> QED BY <1>0, <1>2, <2>1, <2>3, <3>1, <3>2 DEF Shape, Bare
  <2> QED BY <1>2, <2>2, <2>3 DEF CutOff
<1>3. CASE imp[c].at = "started"
  <2>0. /\ imp[c].row = "PROVISIONING" /\ imp[c].op = "running" /\ imp[c].con = "running"
        /\ imp[c].memory
    BY <1>0, <1>3 DEF Shape
  <2>1. PICK r \in {"PROVISIONING", "RUNNING"} : i = [Ended(c, "unclear") EXCEPT !.row = r]
    BY <1>3 DEF CutOff
  <2>2. /\ i.at = "ended" /\ i.answer = "unclear" /\ i.row = r
        /\ i.op = "running" /\ i.con = "running" /\ i.memory
    BY <1>0, <2>0, <2>1 DEF Ended, Import
  <2> QED BY <1>0, <1>3, <2>0, <2>2 DEF Shape
<1>4. CASE imp[c].at \in {"made", "built", "configured", "undoing"}
  <2>0. imp[c].row = "PROVISIONING" /\ imp[c].op = "running"
    BY <1>0, <1>4 DEF Shape
  <2>1. PICK p \in Partly(c) : i = [p EXCEPT !.at = "ended", !.answer = "unclear"]
    BY <1>4 DEF CutOff, Working
  <2>2. /\ p \in Import /\ p.row = "PROVISIONING" /\ p.op = "running"
        /\ \/ p.con = imp[c].con
           \/ imp[c].at = "made" /\ p.con = "stopped"
           \/ imp[c].at = "configured" /\ p.con = "running"
           \/ imp[c].at = "undoing" /\ p.con = "absent"
        /\ \/ p.memory = imp[c].memory
           \/ imp[c].at = "made"
           \/ imp[c].at = "undoing" /\ ~p.memory
    BY <1>4, <2>0, PartlyIs DEF Good
  <2>3. /\ i.at = "ended" /\ i.answer = "unclear" /\ i.row = "PROVISIONING"
        /\ i.op = "running" /\ i.con = p.con /\ i.memory = p.memory
    BY <2>1, <2>2 DEF Import
  <2> QED BY <1>0, <1>4, <2>0, <2>2, <2>3 DEF Shape
<1> QED BY <1>0, <1>1, <1>2, <1>3, <1>4 DEF Import

Keeps ==
  /\ Shapes' /\ OneRow' /\ Booked' /\ VerdictStays
  /\ NoneComes => NoneComes'
  /\ SomeLanded => SomeLanded'

(* A death of the other server keeps all of that.                          *)
LEMMA CrashKeeps == ASSUME Good, Once, CrashThere PROVE Keeps
<1>1. \A c \in Copies : imp'[c] \in CutOff(c)
  BY DEF CrashThere
<1>2. ASSUME NEW c \in Copies
      PROVE  /\ Shape(imp'[c]) /\ Shape(imp[c])
             /\ imp[c].at \in {"none", "flying", "lost", "ended"} => imp'[c] = imp[c]
             /\ imp[c].at \in {"checking", "made", "built", "configured", "started", "undoing"} =>
                  imp'[c].at = "ended"
             /\ imp[c].at = "checking" =>
                  \/ Bare(imp'[c])
                  \/ /\ imp'[c].row = "PROVISIONING" /\ imp'[c].con = "absent"
                     /\ imp[Other(c)].row = "none" /\ ~Outlived(c)
             /\ imp[c].row = "PROVISIONING" => imp'[c].row \in {"PROVISIONING", "RUNNING"}
             /\ ~Working(c)' /\ imp[c] \in Import
  <2>1. imp[c] \in Import /\ Shape(imp[c])
    BY DEF Good, TypeOK, Shapes
  <2> QED BY <1>1, <2>1, CutOffIs DEF Shape, Bare, Working
<1>3. PICK a \in Copies : imp'[a].row = imp[a].row
  BY DEF CrashThere
<1>4. /\ receipt' = [receipt EXCEPT !.fresh = FALSE] /\ receipt \in Receipt /\ there' = "down"
  BY DEF CrashThere, Good, TypeOK
<1>5. Shapes'
  BY <1>2 DEF Shapes
<1>6. OneRow'
  <2>1. SUFFICES ASSUME NEW c \in Copies, imp'[c].row # "none"
        PROVE  /\ imp'[Other(c)].row = "none"
               /\ receipt.op # c => /\ imp'[c].at = "ended" /\ imp'[c].con = "absent"
                                    /\ imp'[c].row # "RUNNING"
    BY <1>4 DEF OneRow, Receipt
  <2> DEFINE d == Other(c)
  <2>0. d \in Copies /\ Other(d) = c /\ (a = c \/ a = d)
    BY Pair
  <2>2. CASE imp[c].row # "none"
    <3>1. imp[d].row = "none"
      BY <2>2 DEF Good, OneRow
    <3>2. imp'[d].row = "none"
      <4>1. imp[d].at \in {"none", "flying", "lost", "ended", "checking"}
        BY <1>2, <2>0, <3>1 DEF Shape
      <4> QED BY <1>2, <2>0, <2>2, <3>1, <4>1 DEF Bare
    <3>3. receipt.op # c => imp'[c] = imp[c]
      BY <1>2, <2>2 DEF Good, OneRow
    <3> QED BY <2>2, <3>2, <3>3 DEF Good, OneRow
  <2>3. CASE imp[c].row = "none"
    <3>1. imp[c].at = "checking"
      BY <1>2, <2>1, <2>3 DEF Shape
    <3>2. /\ imp'[c].row = "PROVISIONING" /\ imp'[c].con = "absent" /\ imp'[c].at = "ended"
          /\ imp[d].row = "none" /\ a = d
      BY <1>2, <1>3, <2>0, <2>1, <2>3, <3>1 DEF Bare
    <3> QED BY <1>3, <3>2
  <2> QED BY <2>2, <2>3
<1>7. Booked'
  <2>1. ASSUME ~receipt.has, NEW c \in Copies PROVE imp'[c] = imp[c]
    BY <1>2, <2>1 DEF Good, Booked, Bare, Shape
  <2>2. ~receipt'.has => /\ receipt'.op = 0 /\ receipt'.outcome = "none"
                         /\ \A c \in Copies : Bare(imp'[c]) /\ imp'[c].at # "checking"
    BY <1>4, <2>1 DEF Good, Booked, Receipt
  <2>3. receipt.has => imp'[receipt.by].at \notin {"none", "flying", "lost"}
                       /\ (imp[receipt.by].at = "ended" => imp'[receipt.by].at = "ended")
    <3>1. receipt.by \in Copies
      BY <1>4 DEF Receipt
    <3> QED BY <1>2, <3>1 DEF Good, Booked, Shape
  <2>4. receipt.op # 0 => imp'[receipt.op].row # "none"
    <3>1. SUFFICES ASSUME receipt.op # 0 PROVE imp'[receipt.op].row # "none"
      OBVIOUS
    <3>2. receipt.op \in Copies
      BY <1>4, <3>1 DEF Receipt
    <3>3. imp[receipt.op].row # "none"
      BY <3>1 DEF Good, Booked
    <3> QED BY <1>2, <3>2, <3>3 DEF Shape, Bare
  <2>5. ~receipt.has => receipt.outcome = "none"
    BY DEF Good, Booked
  <2> QED BY <1>2, <1>4, <2>2, <2>3, <2>4, <2>5 DEF Good, Booked, Receipt
<1>8. VerdictStays
  <2>1. SUFFICES ASSUME MoveState \in {"landed", "failed"} PROVE MoveState' = MoveState
    BY DEF VerdictStays
  <2>2. receipt.has
    BY <2>1 DEF MoveState
  <2>3. CASE receipt.op = 0
    BY <1>4, <2>1, <2>2, <2>3 DEF MoveState, Receipt
  <2>4. CASE receipt.op # 0
    <3>1. receipt.op \in Copies
      BY <1>4, <2>4 DEF Receipt
    <3>2. imp[receipt.op].op \in {"succeeded", "rolled_back"}
      BY <2>1, <2>2, <2>4 DEF MoveState
    <3>3. imp'[receipt.op] = imp[receipt.op]
      BY <1>2, <3>1, <3>2 DEF Shape, Bare
    <3> QED BY <1>4, <2>2, <2>4, <3>1, <3>3 DEF MoveState, Receipt, Lives
  <2> QED BY <2>3, <2>4
<1>9. ASSUME SomeLanded PROVE SomeLanded'
  <2>1. PICK c \in Copies : Landed(c)
    BY <1>9 DEF SomeLanded
  <2>2. imp[c].at = "ended"
    BY <1>2, <2>1 DEF Shape, Bare, Landed
  <2> QED BY <1>2, <2>1, <2>2 DEF SomeLanded, Landed
<1>10. ASSUME NoneComes PROVE NoneComes'
  <2>1. SUFFICES ASSUME NEW c \in Copies
        PROVE /\ imp'[c].row # "RUNNING" /\ imp'[c].con # "running"
              /\ imp'[c].at \in {"flying", "checking"} =>
                   Outlived(c)' \/ imp'[Other(c)].row = "DELETED"
              /\ imp'[c].at \in {"none", "flying", "lost", "checking", "ended"}
    BY DEF NoneComes, Landed
  <2>2. Other(c) \in Copies
    BY Pair
  <2>3. /\ imp[c].row # "RUNNING" /\ imp[c].con # "running"
        /\ imp[c].at \in {"flying", "checking"} =>
             Outlived(c) \/ imp[Other(c)].row = "DELETED"
        /\ imp[c].at \in {"none", "flying", "lost", "checking", "ended"}
    BY <1>10 DEF NoneComes, Landed
  <2>4. CASE imp[c].at = "checking"
    BY <1>2, <2>3, <2>4 DEF Bare
  <2>5. CASE imp[c].at # "checking"
    <3>1. imp'[c] = imp[c]
      BY <1>2, <2>3, <2>5
    <3>2. ASSUME imp[c].at = "flying" PROVE Outlived(c)' \/ imp'[Other(c)].row = "DELETED"
      <4>1. imp[Other(c)].at = "ended"
        BY <1>2, <2>2, <2>3, <3>2 DEF Outlived, Shape, Bare
      <4>2. imp'[Other(c)] = imp[Other(c)]
        BY <1>2, <2>2, <4>1
      <4>3. receipt'.has = receipt.has /\ receipt'.by = receipt.by
        BY <1>4 DEF Receipt
      <4> QED BY <2>3, <3>2, <4>2, <4>3 DEF Outlived, Landed
    <3> QED BY <2>3, <2>5, <3>1, <3>2
  <2> QED BY <2>4, <2>5
<1> QED BY <1>5, <1>6, <1>7, <1>8, <1>9, <1>10 DEF Keeps

(* So does its boot.                                                       *)
LEMMA BootKeeps == ASSUME Good, BootThere PROVE Keeps
<1>1. /\ receipt' = receipt /\ receipt \in Receipt /\ there' = "up"
  BY DEF BootThere, Good, TypeOK
<1>2. ASSUME NEW c \in Copies
      PROVE  /\ imp'[c].at = imp[c].at /\ imp'[c].row = imp[c].row /\ imp'[c].con = imp[c].con
             /\ imp'[c].memory = imp[c].memory /\ imp'[c].answer = imp[c].answer
             /\ imp'[c].op = IF imp[c].op = "running" THEN "interrupted" ELSE imp[c].op
             /\ Shape(imp[c]) /\ ~Working(c)
  BY DEF BootThere, Good, TypeOK, Shapes, Import
<1>3. ASSUME NEW c \in Copies PROVE Shape(imp'[c])
  <2>1. Shape(imp[c]) /\ (imp[c].op = "running" => imp[c].at = "ended")
    BY <1>2 DEF Shape, Bare, Working
  <2> QED BY <1>2, <2>1 DEF Shape, Bare
<1>4. Shapes'
  BY <1>1, <1>3 DEF Shapes
<1>5. OneRow'
  BY <1>1, <1>2, Pair DEF Good, OneRow
<1>6. Booked'
  <2>1. receipt.by \in Copies /\ (receipt.op # 0 => receipt.op \in Copies)
    BY <1>1 DEF Receipt
  <2>2. ASSUME NEW c \in Copies, Bare(imp[c]) PROVE Bare(imp'[c])
    BY <1>2, <2>2 DEF Bare
  <2>3. ASSUME NEW c \in Copies PROVE ~Working(c)'
    BY <1>2 DEF Working
  <2> QED BY <1>1, <1>2, <2>1, <2>2, <2>3 DEF Good, Booked
<1>7. VerdictStays
  <2>1. SUFFICES ASSUME MoveState \in {"landed", "failed"} PROVE MoveState' = MoveState
    BY DEF VerdictStays
  <2>2. CASE receipt.op = 0
    BY <1>1, <2>2 DEF MoveState
  <2>3. CASE receipt.op # 0
    <3>1. receipt.op \in Copies
      BY <1>1, <2>3 DEF Receipt
    <3> QED BY <1>1, <1>2, <2>1, <2>3, <3>1 DEF MoveState, Lives
  <2> QED BY <2>2, <2>3
<1>8. SomeLanded => SomeLanded'
  BY <1>2 DEF SomeLanded, Landed
<1>9. NoneComes => NoneComes'
  BY <1>1, <1>2, Pair DEF NoneComes, Landed, Outlived
<1> QED BY <1>4, <1>5, <1>6, <1>7, <1>8, <1>9 DEF Keeps

(* So every step of the other server keeps what is known of it, its        *)
(* verdict, what landed, and that nothing will.                            *)
ThereStep ==
  \/ \E c \in Copies : Arrive(c) \/ FlightLost(c) \/ ImportStep(c) \/ ResumeImport(c)
  \/ CrashThere \/ BootThere
LEMMA ThereKeeps == ASSUME Good, Once, ThereStep PROVE Keeps
<1>1. ASSUME NEW c \in Copies, Arrive(c) \/ FlightLost(c) \/ ImportStep(c) \/ ResumeImport(c)
      PROVE  Keeps
  <2>1. Becomes(c)
    BY <1>1, StepBecomes
  <2> QED BY <2>1, ShapesKept, OneRowKept, BookedKept, VerdictKept, LandedKept, NoneComesKept
          DEF Keeps
<1> QED BY <1>1, CrashKeeps, BootKeeps DEF ThereStep

-----------------------------------------------------------------------------
(* Before the file is sent nothing of the move is there.                   *)
Unsent ==
  /\ ~mop.sent => \A c \in Copies : imp[c] = NoImport
  /\ job.pc \in {"preflight", "stop", "export", "restart", "exported"} => ~mop.sent
  /\ job.pc = "send" => mop.sent

(* The fields of the mover at the places it is sent to.                    *)
LEMMA JobIs ==
  ASSUME TypeOK
  PROVE  /\ \A p : /\ At(p).pc = p /\ At(p).told = job.told
                  /\ At(p).never = job.never /\ At(p).once = job.once
         /\ \A b : Asking(b).pc = "ask" /\ ~Asking(b).never /\ Asking(b).told = "none"
         /\ Idle.pc = "idle" /\ [Idle EXCEPT !.pc = "dead"].pc = "dead"
BY DEF TypeOK, Job, At, Asking, Idle

(* Steps of this side, and of the network, as far as the other sees them.  *)
Sends == \E c \in Copies : /\ imp[c].at = "none" /\ imp' = [imp EXCEPT ![c].at = "flying"]
                           /\ receipt' = receipt /\ there' = there
Flips == imp' = imp /\ receipt' = receipt /\ (there' = "down" <=> there = "down")

(* A step is one of the other server, or one of these.                     *)
LEMMA HereIs ==
  ASSUME TypeOK, Unsent, Next
  PROVE  ThereStep \/ Sends \/ Flips \/ MoveBegin
<1>1. CASE Send
  <2>1. imp[1] = NoImport /\ 1 \in Copies
    BY <1>1 DEF Send, Unsent, Copies
  <2>2. imp[1].at = "none"
    BY <2>1 DEF NoImport
  <2> QED BY <1>1, <2>1, <2>2 DEF Send, Sends
<1>2. CASE Repeat
  <2>1. 2 \in Copies
    BY DEF Copies
  <2> QED BY <1>2, <2>1 DEF Repeat, Sends
<1>3. CASE LinkFlips
  BY <1>3 DEF LinkFlips, Flips
<1>4. CASE ResumeMigrate \/ SayArrived \/ SayNotThere \/ StartRoute \/ StopOrSleep
           \/ RemovePeer \/ CrashHere \/ BootHere
  BY <1>4 DEF ResumeMigrate, SayArrived, SayNotThere, StartRoute, StopOrSleep, RemovePeer,
     CrashHere, BootHere, away, Flips
<1>5. CASE MoveStep /\ ~Send
  BY <1>5 DEF MoveStep, Preflight, StopSource, ExportSource, RestartSource, Answered, AnswerLost,
     Ask, List, AskAgain, Tombstone, UndoSource, EndMove, away, Flips
<1> QED BY <1>1, <1>2, <1>3, <1>4, <1>5 DEF Next, ThereStep

(* What the verdict and the other server rest on, through every step.      *)
LEMMA UnsentStep == ASSUME TypeOK, Shapes, Unsent, [Next]_vars PROVE Unsent'
<1>1. CASE ThereStep
  <2>1. UNCHANGED here
    BY <1>1 DEF ThereStep, Arrive, FlightLost, ImportStep, CheckRefused, MakeRow, ImportOn, Land,
       UndoImport, ResumeImport, CrashThere, BootThere
  <2>2. ASSUME ~mop.sent, NEW c \in Copies PROVE imp'[c] = NoImport
    <3>0. \A e \in Copies : imp[e] = NoImport /\ imp[e].at = "none" /\ imp[e].op = "none"
      BY <2>2 DEF Unsent, NoImport
    <3>1. ASSUME NEW e \in Copies
          PROVE  ~(Arrive(e) \/ FlightLost(e) \/ ImportStep(e) \/ ResumeImport(e))
      BY <3>0 DEF Arrive, FlightLost, ImportStep, CheckRefused, MakeRow, ImportOn, Land,
         UndoImport, ResumeImport, Copy, Configure, Start, Fail
    <3>2. CASE CrashThere
      <4>1. imp'[c] \in CutOff(c)
        BY <3>2 DEF CrashThere
      <4> QED BY <3>0, <4>1 DEF CutOff
    <3>3. CASE BootThere
      BY <3>0, <3>3 DEF BootThere
    <3> QED BY <1>1, <3>1, <3>2, <3>3 DEF ThereStep
  <2> QED BY <2>1, <2>2 DEF Unsent, here
<1>2. CASE MoveBegin
  BY <1>2 DEF MoveBegin, Unsent, At
<1>3. CASE MoveStep
  <2>0. mop \in OpRow /\ job \in Job
    BY DEF TypeOK
  <2>1. CASE Send
    BY <2>0, <2>1, JobIs DEF Send, Unsent, OpRow
  <2>2. CASE ~Send
    <3>1. imp' = imp /\ mop'.sent = mop.sent
      BY <1>3, <2>0, <2>2 DEF MoveStep, Preflight, StopSource, ExportSource, RestartSource,
          Answered, AnswerLost, Ask, List, AskAgain, Hold, Tombstone, UndoSource, EndMove, OpRow,
          away
    <3>2. CASE Preflight \/ StopSource \/ ExportSource \/ RestartSource
      BY <3>1, <3>2, JobIs DEF Preflight, StopSource, ExportSource, RestartSource, Unsent
    <3>3. CASE AnswerLost \/ Tombstone \/ UndoSource \/ EndMove \/ AskAgain
      <4>1. job'.pc \in {"ask", "end", "idle"}
        <5>1. CASE AnswerLost
          <6>1. Asking(FALSE).pc = "ask"
            BY DEF Asking, Idle
          <6> QED BY <5>1, <6>1 DEF AnswerLost
        <5>2. CASE Tombstone \/ UndoSource \/ EndMove \/ AskAgain
          BY <5>2, JobIs DEF Tombstone, UndoSource, EndMove, AskAgain, Hold
        <5> QED BY <3>3, <5>1, <5>2
      <4> QED BY <3>1, <4>1 DEF Unsent
    <3>6. ASSUME NEW c \in Copies, Answered(c) PROVE Unsent'
      <4>1. job' \in {At("arrived"), At("undo"), Asking(FALSE)}
        BY <3>6 DEF Answered
      <4>2. Asking(FALSE).pc = "ask"
        BY DEF Asking, Idle
      <4>3. job'.pc \in {"arrived", "undo", "ask"}
        BY <4>1, <4>2, JobIs
      <4> QED BY <3>1, <4>3 DEF Unsent
    <3>4. CASE Ask
      <4>1. job'.pc \in {"arrived", "undo", "again", "list"}
        BY <2>0, <3>4 DEF Ask, Job
      <4> QED BY <3>1, <4>1 DEF Unsent
    <3>5. CASE List
      <4>1. [At("again") EXCEPT !.never = TRUE].pc = "again"
        BY <2>0 DEF At, Job
      <4>2. job'.pc \in {"arrived", "undo", "again"}
        BY <3>5, <4>1, JobIs DEF List
      <4> QED BY <3>1, <4>2 DEF Unsent
    <3> QED BY <1>3, <2>2, <3>2, <3>3, <3>4, <3>5, <3>6 DEF MoveStep
  <2> QED BY <2>1, <2>2
<1>4. CASE ResumeMigrate \/ SayArrived \/ SayNotThere \/ StartRoute \/ StopOrSleep
           \/ RemovePeer \/ CrashHere \/ BootHere \/ LinkFlips
  <2>0. mop \in OpRow
    BY DEF TypeOK
  <2>1. imp' = imp /\ mop'.sent = mop.sent
    BY <1>4, <2>0 DEF ResumeMigrate, SayArrived, SayNotThere, StartRoute, StopOrSleep, RemovePeer,
       CrashHere, BootHere, LinkFlips, here, away, Hold, OpRow
  <2>2. job' = job \/ job'.pc \in {"idle", "dead", "ask", "arrived", "undo", "end"}
    <3>1. Asking(mop.status = "held").pc = "ask"
      BY DEF Asking, Idle
    <3>2. CASE ResumeMigrate
      <4>1. job' \in {Idle, At("end"), At("undo"), Asking(mop.status = "held")}
        BY <3>2 DEF ResumeMigrate, Hold, Resumed
      <4> QED BY <3>1, <4>1, JobIs
    <3>3. CASE CrashHere
      BY <3>3, JobIs DEF CrashHere
    <3>4. CASE BootHere \/ SayArrived \/ SayNotThere
      BY <3>4, JobIs DEF BootHere, SayArrived, SayNotThere
    <3>5. CASE StartRoute \/ StopOrSleep \/ RemovePeer \/ LinkFlips
      BY <3>5 DEF StartRoute, StopOrSleep, RemovePeer, LinkFlips, here
    <3> QED BY <1>4, <3>2, <3>3, <3>4, <3>5
  <2> QED BY <2>1, <2>2 DEF Unsent
<1>5. CASE Repeat
  BY <1>5 DEF Repeat, here, Unsent
<1>6. CASE UNCHANGED vars
  BY <1>6 DEF vars, Unsent
<1> QED BY <1>1, <1>2, <1>3, <1>4, <1>5, <1>6 DEF Next, ThereStep

(* Sending the request, or repeating it, changes nothing there.            *)
LEMMA SendsKeeps == ASSUME Good, Sends PROVE Shapes' /\ OneRow' /\ Booked' /\ VerdictStays
<1>1. PICK c \in Copies : imp[c].at = "none" /\ imp' = [imp EXCEPT ![c].at = "flying"]
  BY DEF Sends
<1>0. receipt' = receipt /\ there' = there /\ receipt \in Receipt
  BY DEF Sends, Good, TypeOK
<1>2. Shape(imp[c]) /\ imp[c] \in Import
  BY DEF Good, TypeOK, Shapes
<1>3. ASSUME NEW e \in Copies
      PROVE  /\ imp'[e].row = imp[e].row /\ imp'[e].op = imp[e].op /\ imp'[e].con = imp[e].con
             /\ imp'[e].memory = imp[e].memory /\ imp'[e].answer = imp[e].answer
             /\ imp'[e].at = IF e = c THEN "flying" ELSE imp[e].at
             /\ Shape(imp[e])
  BY <1>1 DEF Good, TypeOK, Shapes, Import
<1>4. ASSUME NEW e \in Copies PROVE Shape(imp'[e])
  <2>1. CASE e = c
    BY <1>1, <1>2, <1>3, <2>1 DEF Shape, Bare
  <2>2. CASE e # c
    <3>1. imp'[e].at = imp[e].at
      BY <1>3, <2>2
    <3> QED BY <1>3, <3>1 DEF Shape, Bare
  <2> QED BY <2>1, <2>2
<1>5. Shapes'
  BY <1>0, <1>3, <1>4 DEF Shapes, Working, Good
<1>6. OneRow'
  <2>1. imp[c].row = "none"
    BY <1>1, <1>2 DEF Shape, Bare
  <2> QED BY <1>0, <1>3, <2>1, Pair DEF Good, OneRow
<1>7. Booked'
  <2>1. receipt.by \in Copies /\ (receipt.op # 0 => receipt.op \in Copies)
    BY <1>0 DEF Receipt
  <2>2. receipt.has => receipt.by # c
    BY <1>1 DEF Good, Booked
  <2>3. ASSUME NEW e \in Copies, Bare(imp[e]) PROVE Bare(imp'[e])
    BY <1>3, <2>3 DEF Bare
  <2>4. ASSUME NEW e \in Copies, ~Working(e) PROVE ~Working(e)'
    BY <1>3, <2>4 DEF Working
  <2>5. receipt.op = 0 /\ receipt.outcome = "failed" => receipt.has
    BY DEF Good, Booked
  <2> QED BY <1>0, <1>3, <2>1, <2>2, <2>3, <2>4, <2>5 DEF Good, Booked
<1>8. VerdictStays
  <2>1. receipt.op # 0 => receipt.op \in Copies
    BY <1>0 DEF Receipt
  <2> QED BY <1>0, <1>3, <2>1 DEF VerdictStays, MoveState, Lives
<1> QED BY <1>5, <1>6, <1>7, <1>8

(* A move begins with nothing there.                                       *)
LEMMA BeginKeeps == ASSUME MoveBegin PROVE Shapes' /\ OneRow' /\ Booked' /\ VerdictStays
<1>1. imp' = [c \in Copies |-> NoImport] /\ receipt' = NoReceipt
  BY DEF MoveBegin
<1>2. ASSUME NEW c \in Copies PROVE Bare(imp'[c]) /\ imp'[c].at = "none" /\ imp'[c].answer = "none"
  BY <1>1 DEF NoImport, Bare
<1>3. ~receipt'.has /\ receipt'.op = 0 /\ receipt'.outcome = "none"
  BY <1>1 DEF NoReceipt
<1> QED BY <1>2, <1>3 DEF Shapes, Shape, OneRow, Booked, VerdictStays, Bare, Working

(* The other steps of this side, and the network, leave all of it.         *)
LEMMA FlipsKeeps == ASSUME Good, Flips PROVE Shapes' /\ OneRow' /\ Booked' /\ VerdictStays
BY DEF Good, Flips, Shapes, Working, OneRow, Booked, VerdictStays, MoveState, Lives

(* The initial states are good.                                            *)
LEMMA GoodInit == Init => Good /\ Unsent
<1> SUFFICES ASSUME Init PROVE Good /\ Unsent
  OBVIOUS
<1>1. TypeOK /\ imp = [c \in Copies |-> NoImport] /\ receipt = NoReceipt /\ job = Idle
  BY InitType DEF Init
<1>2. ASSUME NEW c \in Copies PROVE Bare(imp[c]) /\ imp[c].at = "none" /\ imp[c].answer = "none"
  BY <1>1 DEF NoImport, Bare
<1>3. ~receipt.has /\ receipt.op = 0 /\ receipt.outcome = "none"
  BY <1>1 DEF NoReceipt
<1> QED BY <1>1, <1>2, <1>3, JobIs DEF Good, Unsent, Shapes, Shape, OneRow, Booked, Bare, Working

(* Types are inductive.                                                    *)
LEMMA TypeStep == TypeOK /\ [Next]_vars => TypeOK'
<1>1. ASSUME TypeOK, Next PROVE TypeOK'
  BY <1>1, MoveStepType, ImportStepType, OtherStepType DEF Next
<1> QED
  BY <1>1 DEF TypeOK, vars

(* So is the rest, with "outlives" closed.                                 *)
LEMMA GoodStep ==
  ASSUME Once, Good, Unsent, [Next]_vars
  PROVE  Good' /\ Unsent' /\ VerdictStays
<1>1. TypeOK' /\ Unsent'
  BY TypeStep, UnsentStep DEF Good
<1>2. CASE Next
  <2>1. ThereStep \/ Sends \/ Flips \/ MoveBegin
    BY <1>2, HereIs DEF Good
  <2> QED BY <1>1, <2>1, ThereKeeps, SendsKeeps, FlipsKeeps, BeginKeeps DEF Good, Keeps
<1>3. CASE UNCHANGED vars
  <2>1. Flips
    BY <1>3 DEF vars, Flips
  <2> QED BY <1>1, <2>1, FlipsKeeps DEF Good
<1> QED BY <1>2, <1>3

(* So it holds throughout.                                                 *)
LEMMA GoodAlways == ASSUME Once PROVE Spec => [](Good /\ Unsent)
<1>1. Good /\ Unsent /\ [Next]_vars => (Good /\ Unsent)'
  BY GoodStep
<1> QED BY <1>1, GoodInit, PTL DEF Spec

(* Whatever is repeated, restarted or retried there, a move that the other  *)
(* server has once called landed or failed is called so ever after          *)
(* (migrate.ts, moveState), as long as a repeated request fails where the   *)
(* first one did.                                                          *)
THEOREM VerdictIsFinal == ASSUME Once PROVE Spec => VerdictFinal
<1>1. Good /\ Unsent /\ [Next]_vars =>
        (receipt'.has /\ MoveState \in {"landed", "failed"} => MoveState' = MoveState)
  BY GoodStep DEF VerdictStays
<1> QED BY <1>1, GoodAlways, PTL DEF Spec, VerdictFinal

-----------------------------------------------------------------------------
(* The agent here runs, or may be started, or is put back, only when        *)
(* nothing of its move will land; it is given up only for one that landed. *)
Closed == Windows = {}

MayRunHere ==
  \/ src.up
  \/ ~Active /\ ~src.moved
  \/ job.pc = "undo"
  \/ job.pc = "end" /\ ~src.moved
  \/ job.pc = "list" /\ job.told = "unknown" /\ Conclusive
Mover ==
  /\ job.pc \in {"export", "exported", "send"} => ~src.up
  /\ job.pc \notin {"idle", "dead"} => Active
  /\ src.moved \/ job.pc = "arrived" => SomeLanded
  /\ MayRunHere => NoneComes

(* What these two say of the other server is kept by every step of it.     *)
LEMMA MoverThere ==
  ASSUME Mover, UNCHANGED here, NoneComes => NoneComes', SomeLanded => SomeLanded'
  PROVE  Mover'
BY DEF Mover, MayRunHere, Active, Conclusive, here

(* A refusal that is passed on, "failed", and "unknown" when no request is  *)
(* on its way: nothing will land.                                          *)
LEMMA RefusedIsSo ==
  ASSUME Good, Closed, NEW c \in Copies, imp[c].at = "ended", imp[c].answer = "refused", PassedOn(c)
  PROVE  NoneComes
<1> DEFINE d == Other(c)
<1>0. /\ d \in Copies /\ c # d /\ Other(d) = c /\ \A e \in Copies : e = c \/ e = d
      /\ Shape(imp[c]) /\ Shape(imp[d])
  BY Pair DEF Good, Shapes
<1>1. imp[c].row \in {"none", "DELETED"} /\ imp[c].con = "absent"
  BY <1>0 DEF Shape, Bare
<1>2. ~Working(d) /\ ~Lives(d)
  BY DEF PassedOn, Closed
<1>3. imp[d].at \in {"none", "flying", "lost", "ended"} /\ imp[d].row \in {"none", "DELETED"}
      /\ imp[d].con = "absent"
  BY <1>0, <1>2 DEF Shape, Bare, Working, Lives
<1>4. imp[d].at = "flying" => Outlived(d)
  BY <1>0, <1>1 DEF Good, Booked, Outlived, Closed, Landed
<1> QED BY <1>0, <1>1, <1>3, <1>4 DEF NoneComes, Landed

(* An answer of "unknown", with no request on its way.                     *)
LEMMA UnknownIsSo ==
  ASSUME Good, MoveState = "unknown", \A c \in Copies : imp[c].at # "flying"
  PROVE  NoneComes
<1>1. ~receipt.has
  <2>1. SUFFICES ASSUME receipt.has PROVE FALSE
    OBVIOUS
  <2> QED BY <2>1 DEF MoveState, Good, TypeOK, Receipt
<1>2. ASSUME NEW c \in Copies
      PROVE  imp[c].at \in {"none", "lost", "ended"} /\ Bare(imp[c])
  BY <1>1 DEF Good, Booked, Shapes, Shape, Bare
<1> QED BY <1>2 DEF NoneComes, Landed, Bare

(* The owner's word that it is not there.                                  *)
LEMMA GoneIsSo == ASSUME Good, \A c \in Copies : Gone(c) PROVE NoneComes
<1>1. ASSUME NEW c \in Copies
      PROVE  imp[c].at \in {"none", "lost", "ended"} /\ imp[c].con = "absent" /\ ~Landed(c)
  BY DEF Good, Shapes, Shape, Bare, Gone, Lives, Landed
<1> QED BY <1>1 DEF NoneComes

(* The stop before the export leaves the container down, or ends the move. *)
LEMMA StopSourceIs ==
  ASSUME TypeOK, StopSource
  PROVE  /\ src'.moved = src.moved
         /\ \/ job'.pc = "export" /\ ~src'.up /\ mop' = mop
            \/ job'.pc = "idle"
<1>1. CASE /\ src' = [src EXCEPT !.up = FALSE, !.state = "STOPPED"]
           /\ job' = At("export") /\ mop' = mop
  <2>1. src'.moved = src.moved /\ ~src'.up
    BY <1>1 DEF TypeOK, AgentRow
  <2> QED BY <1>1, <2>1, JobIs
<1>2. CASE (\E u \in {src.up, FALSE} : src' = [src EXCEPT !.up = u]) /\ job' = Idle
  <2>1. src'.moved = src.moved
    BY <1>2 DEF TypeOK, AgentRow
  <2> QED BY <1>2, <2>1, JobIs
<1> QED BY <1>1, <1>2 DEF StopSource

(* The undo of the source does not touch its tombstone.                    *)
LEMMA UndoSourceIs == ASSUME TypeOK, UndoSource PROVE src'.moved = src.moved
<1> DEFINE back == PutBack(src)
<1>1. back \in AgentRow /\ back.moved = src.moved
  <2>1. src \in AgentRow
    BY DEF TypeOK
  <2>2. CASE back = src
    BY <2>1, <2>2
  <2>3. CASE back = [src EXCEPT !.asleep = TRUE]
    BY <2>1, <2>3 DEF AgentRow
  <2> QED BY <2>2, <2>3 DEF PutBack
<1>2. \/ src' = [back EXCEPT !.up = TRUE, !.state = "RUNNING", !.asleep = FALSE]
      \/ \E u \in {src.up, TRUE} : src' = [back EXCEPT !.up = u, !.state = "STOPPED"]
      \/ src' = back
  BY DEF UndoSource
<1> HIDE DEF back
<1> QED BY <1>1, <1>2 DEF AgentRow

(* A file that was never sent.                                             *)
LEMMA NothingSentIsSo == ASSUME Good, Unsent, ~mop.sent PROVE NoneComes
<1>1. \A c \in Copies : imp[c].at = "none" /\ ~Lives(c)
  BY DEF Unsent, NoImport, Lives
<1> QED BY <1>1, GoneIsSo DEF Gone

(* Every step keeps it, with both windows closed.                          *)
LEMMA MoverStep ==
  ASSUME Closed, Good, Unsent, Mover, [Next]_vars
  PROVE  Mover'
<1>k. /\ job \in Job /\ src \in AgentRow /\ mop \in OpRow
      /\ NoneComes => ~SomeLanded
  BY DEF Good, TypeOK, NoneComes, SomeLanded
<1>j. /\ \A p : /\ At(p).pc = p /\ At(p).told = job.told
                /\ At(p).never = job.never /\ At(p).once = job.once
      /\ Idle.pc = "idle" /\ [Idle EXCEPT !.pc = "dead"].pc = "dead"
      /\ Asking(FALSE).pc = "ask" /\ Asking(mop.status = "held").pc = "ask"
  BY <1>k DEF At, Idle, Asking, Job
<1>o. Once
  BY DEF Closed, Once
<1>1. CASE ThereStep
  <2>1. UNCHANGED here
    BY <1>1 DEF ThereStep, Arrive, FlightLost, ImportStep, CheckRefused, MakeRow, ImportOn, Land,
       UndoImport, ResumeImport, CrashThere, BootThere
  <2> QED BY <1>o, <1>1, <2>1, ThereKeeps, MoverThere DEF Keeps
<1>2. ASSUME imp' = imp, receipt' = receipt PROVE NoneComes' = NoneComes /\ SomeLanded' = SomeLanded
  BY <1>2 DEF NoneComes, SomeLanded, Landed, Outlived
<1>3. CASE Send
  BY <1>k, <1>j, <1>3 
  DEF Send, Mover, MayRunHere, Active, OpRow, SomeLanded, Landed, Unsent, NoImport
<1>4. CASE Repeat
  BY <1>k, <1>4 
  DEF Repeat, here, Mover, MayRunHere, Active, SomeLanded, Landed, Good, TypeOK, Import
<1>5. CASE LinkFlips \/ UNCHANGED vars
  <2>1. UNCHANGED here /\ imp' = imp /\ receipt' = receipt
    BY <1>5 DEF LinkFlips, here, vars
  <2> QED BY <1>2, <2>1, MoverThere
<1>6. CASE MoveBegin
  <2>1. NoneComes'
    BY <1>6 DEF MoveBegin, NoneComes, NoImport, Landed
  <2>2. ~src'.moved /\ mop'.status = "running" /\ job'.pc = "preflight"
    BY <1>6, <1>j DEF MoveBegin, Free
  <2> QED BY <2>1, <2>2 DEF Mover, Active
<1> USE <1>k, <1>j, <1>2 DEF Mover, MayRunHere, Active, away
<1>7. CASE StartRoute \/ StopOrSleep
  <2>1. /\ imp' = imp /\ receipt' = receipt /\ UNCHANGED <<mop, job>>
        /\ job.pc = "idle" /\ ~Active /\ ~src.moved /\ src'.moved = src.moved
    BY <1>7 DEF StartRoute, StopOrSleep, Free, AgentRow
  <2> QED BY <2>1
<1>8. CASE RemovePeer
  BY <1>8 DEF RemovePeer, Conclusive
<1>9. CASE Preflight \/ StopSource \/ ExportSource \/ RestartSource
  <2>1. imp' = imp /\ receipt' = receipt /\ NoneComes
    BY <1>9, NothingSentIsSo DEF Preflight, StopSource, ExportSource, RestartSource, Unsent
  <2>2. ~SomeLanded /\ ~src.moved
    BY <2>1
  <2>3. CASE Preflight
    BY <2>1, <2>2, <2>3 DEF Preflight, OpRow
  <2>4. CASE StopSource
    <3>1. /\ src'.moved = src.moved
          /\ \/ job'.pc = "export" /\ ~src'.up /\ mop' = mop
             \/ job'.pc = "idle"
      BY <2>4, StopSourceIs DEF Good
    <3> QED BY <2>1, <2>2, <2>4, <3>1 DEF StopSource
  <2>5. CASE ExportSource
    BY <2>1, <2>2, <2>5 DEF ExportSource, AgentRow
  <2>6. CASE RestartSource
    <3>1. src'.moved = src.moved
      BY <2>6 DEF RestartSource, AgentRow
    <3> QED BY <2>1, <2>2, <2>6, <3>1 DEF RestartSource, OpRow
  <2> QED BY <1>9, <2>3, <2>4, <2>5, <2>6
<1>10. ASSUME NEW c \in Copies, Answered(c) PROVE Mover'
  <2>1. /\ imp' = imp /\ receipt' = receipt /\ UNCHANGED <<src, mop>> /\ Active
        /\ imp[c].at = "ended" /\ ~src.up
    BY <1>10 DEF Answered
  <2>2. CASE imp[c].answer = "created"
    <3>1. Landed(c)
      BY <2>1, <2>2 DEF Good, Shapes, Shape, Landed, Bare
    <3>2. job'.pc = "arrived" /\ SomeLanded
      BY <1>10, <2>2, <3>1 DEF Answered, DefiniteRefusal, SomeLanded
    <3> QED BY <2>1, <3>2
  <2>3. CASE imp[c].answer = "refused"
    <3>1. NoneComes
      BY <1>10, <2>1, <2>3, RefusedIsSo DEF Answered, DefiniteRefusal
    <3>2. job'.pc = "undo"
      BY <1>10, <2>3 DEF Answered, DefiniteRefusal
    <3> QED BY <2>1, <3>1, <3>2
  <2>4. CASE imp[c].answer \notin {"created", "refused"}
    <3>1. job'.pc = "ask"
      BY <1>10, <2>4 DEF Answered, DefiniteRefusal
    <3> QED BY <2>1, <3>1
  <2> QED BY <2>2, <2>3, <2>4
<1>11. CASE AnswerLost
  BY <1>11 DEF AnswerLost
<1>12. CASE Ask
  <2> DEFINE told == IF there = "up" THEN MoveState ELSE "none"
  <2>1. /\ imp' = imp /\ receipt' = receipt /\ UNCHANGED <<src, mop>> /\ Active
        /\ job'.told = told /\ job'.once = job.once /\ job'.never = job.never
        /\ job'.pc = CASE told = "landed" -> "arrived" [] told = "failed" -> "undo"
                       [] told = "running" -> "again"  [] OTHER -> "list"
        /\ told = "unknown" /\ Conclusive => \A c \in Copies : imp[c].at # "flying"
    BY <1>12 DEF Ask, Job
  <2>2. job'.pc = "arrived" => SomeLanded
    <3>1. job'.pc = "arrived" => MoveState = "landed"
      BY <2>1
    <3> QED BY <3>1, LandedIsSo
  <2>3. job'.pc = "undo" => NoneComes
    <3>1. job'.pc = "undo" => MoveState = "failed"
      BY <2>1
    <3> QED BY <1>o, <3>1, FailedIsSo
  <2>4. told = "unknown" /\ Conclusive => NoneComes
    BY <2>1, UnknownIsSo
  <2>5. job'.pc \in {"arrived", "undo", "again", "list"}
    BY <2>1
  <2>6. Conclusive' = Conclusive
    BY <2>1 DEF Conclusive
  <2> QED BY <2>1, <2>2, <2>3, <2>4, <2>5, <2>6
<1>13. CASE List
  <2>0. [At("again") EXCEPT !.never = TRUE].pc = "again"
    BY DEF At, Job
  <2>1. imp' = imp /\ receipt' = receipt /\ UNCHANGED <<src, mop>> /\ Active /\ job.pc = "list"
    BY <1>13 DEF List
  <2>2. \/ job'.pc = "again"
        \/ job'.pc = "arrived" /\ SomeLanded
        \/ job'.pc = "undo" /\ job.told = "unknown" /\ Conclusive
    BY <1>13, <2>0 DEF List, SomeLanded, Copies
  <2> QED BY <2>1, <2>2
<1>14. CASE AskAgain
  <2>1. /\ imp' = imp /\ receipt' = receipt /\ src' = src /\ mop'.status # "over"
        /\ job'.pc \in {"ask", "idle"}
    BY <1>14 DEF AskAgain, Hold, OpRow
  <2> QED BY <2>1, <1>14 DEF AskAgain
<1>15. CASE Tombstone
  BY <1>15 DEF Tombstone, AgentRow
<1>16. CASE UndoSource
  <2>1. /\ imp' = imp /\ receipt' = receipt /\ mop' = mop /\ job'.pc = "end" /\ NoneComes
        /\ job.pc = "undo"
    BY <1>16 DEF UndoSource
  <2>2. src'.moved = src.moved
    BY <1>16, UndoSourceIs DEF Good
  <2> QED BY <2>1, <2>2
<1>17. CASE EndMove
  <2>1. /\ imp' = imp /\ receipt' = receipt /\ src' = src /\ job.pc = "end" /\ job'.pc = "idle"
    BY <1>17 DEF EndMove
  <2> QED BY <2>1
<1>18. CASE CrashHere
  <2>1. /\ imp' = imp /\ receipt' = receipt /\ mop' = mop /\ job'.pc = "dead"
    BY <1>18 DEF CrashHere
  <2>2. src'.moved = src.moved /\ (src'.up => src.up \/ job.pc \in {"restart", "undo"})
    BY <1>18 DEF CrashHere, AgentRow
  <2>3. job.pc = "restart" => NoneComes
    BY NothingSentIsSo DEF Unsent
  <2> QED BY <2>1, <2>2, <2>3
<1>19. CASE BootHere
  <2>1. /\ imp' = imp /\ receipt' = receipt /\ src' = src /\ job'.pc = "idle"
        /\ (mop'.status = "over" <=> mop.status = "over")
    BY <1>19 DEF BootHere, OpRow
  <2> QED BY <2>1
<1>20. CASE ResumeMigrate
  <2>1. imp' = imp /\ receipt' = receipt /\ src' = src /\ Active /\ Active'
    BY <1>20 DEF ResumeMigrate, Hold, OpRow
  <2>2. \/ job'.pc \in {"idle", "ask"}
        \/ job'.pc = "end" /\ src.moved
        \/ job'.pc = "undo" /\ ~mop.sent
    BY <1>20 DEF ResumeMigrate, Hold, Resumed
  <2> QED BY <2>1, <2>2, NothingSentIsSo
<1>21. CASE SayArrived
  BY <1>21 DEF SayArrived, SomeLanded
<1>22. CASE SayNotThere
  <2>1. NoneComes
    BY <1>22, GoneIsSo DEF SayNotThere
  <2> QED BY <1>22, <2>1 DEF SayNotThere
<1> QED
  BY <1>1, <1>3, <1>4, <1>5, <1>6, <1>7, <1>8, <1>9, <1>10, <1>11, <1>12, <1>13, <1>14, <1>15,
     <1>16, <1>17, <1>18, <1>19, <1>20, <1>21, <1>22 DEF Next, MoveStep, ThereStep

(* It holds at first, with no move on record.                              *)
LEMMA MoverInit == Init => Mover
<1> SUFFICES ASSUME Init PROVE Mover
  OBVIOUS
<1>1. NoneComes /\ ~src.moved /\ job.pc = "idle"
  BY DEF Init, NoneComes, NoImport, Landed, Idle
<1> QED BY <1>1 DEF Mover

(* So it holds throughout.                                                 *)
LEMMA MoverAlways == ASSUME Closed PROVE Spec => [](Good /\ Unsent /\ Mover)
<1>1. Once
  BY DEF Closed, Once
<1>2. (Good /\ Unsent /\ Mover) /\ [Next]_vars => (Good /\ Unsent /\ Mover)'
  BY <1>1, GoodStep, MoverStep
<1> QED BY <1>2, GoodInit, MoverInit, PTL DEF Spec

(* However answers are lost, requests repeated and servers restarted: the   *)
(* agent never runs on both sides, nor twice there, and a move that is over *)
(* has marked it as moved exactly when it landed there, with no import of  *)
(* it under way (migrate.ts, destinationHasAgent, resumeMigrate).           *)
THEOREM OneSideAfterAll == ASSUME Closed PROVE Spec => []OverOnOneSide
<1>1. Good /\ Mover => OverOnOneSide
  <2> SUFFICES ASSUME Good, Mover PROVE OverOnOneSide
    OBVIOUS
  <2>1. \A c \in Copies : Shape(imp[c])
    BY DEF Good, Shapes
  <2>2. src.up => \A c \in Copies : imp[c].con # "running"
    BY DEF Mover, MayRunHere, NoneComes
  <2>3. ASSUME NEW c \in Copies, NEW e \in Copies, imp[c].con = "running", imp[e].con = "running"
        PROVE  c = e
    <3>1. imp[c].row # "none" /\ imp[e].row # "none"
      BY <2>1, <2>3 DEF Shape, Bare
    <3> QED BY <3>1, Pair DEF Good, OneRow
  <2>4. src.moved => SomeLanded
    BY DEF Mover
  <2>5. ~Active /\ ~src.moved => NoneComes
    BY DEF Mover, MayRunHere
  <2>6. ASSUME ~Active, NEW c \in Copies, Lives(c) PROVE imp[c].at = "ended"
    <3>1. CASE src.moved
      <4>1. PICK e \in Copies : Landed(e)
        BY <2>4, <3>1 DEF SomeLanded
      <4>2. c = e
        BY <2>6, <4>1, Pair DEF Good, OneRow, Lives, Landed
      <4> QED BY <2>1, <4>1, <4>2 DEF Shape, Landed, Bare
    <3>2. CASE ~src.moved
      <4>1. imp[c].at \in {"none", "flying", "lost", "checking", "ended"}
        BY <2>5, <2>6, <3>2 DEF NoneComes
      <4> QED BY <2>1, <2>6, <4>1 DEF Shape, Bare, Lives
    <3> QED BY <3>1, <3>2
  <2> QED BY <2>2, <2>3, <2>4, <2>5, <2>6 DEF OverOnOneSide, OneSide, SomeLanded, NoneComes
<1> QED BY <1>1, MoverAlways, PTL

-----------------------------------------------------------------------------
(* An agent that was asleep when its move began is so until it is stopped   *)
(* for the file, has its row at STOPPED all along, and is put back asleep  *)
(* before the move is over.                                                *)
Sleeper ==
  /\ src.asleep => src.state = "STOPPED"
  /\ job.pc \notin {"idle", "dead"} => Active
  /\ Active /\ mop.slept =>
       /\ ~mop.wasRunning /\ src.state = "STOPPED"
       /\ job.pc \in {"preflight", "stop", "export", "restart"} => src.asleep
       /\ job.pc = "end" => src.moved \/ src.asleep
  /\ Active /\ ~mop.slept => ~src.asleep

(* Every step keeps that, whatever a repeated request may do.              *)
LEMMA SleeperStep == ASSUME TypeOK, Sleeper, [Next]_vars PROVE Sleeper'
<1>k. job \in Job /\ src \in AgentRow /\ mop \in OpRow
  BY DEF TypeOK
<1>j. /\ \A p : At(p).pc = p
      /\ Idle.pc = "idle" /\ [Idle EXCEPT !.pc = "dead"].pc = "dead"
      /\ Asking(FALSE).pc = "ask" /\ Asking(mop.status = "held").pc = "ask"
  BY <1>k DEF At, Idle, Asking, Job
<1> USE <1>k, <1>j DEF Sleeper, Active
<1>1. CASE src' = src /\ mop' = mop /\ job' = job
  BY <1>1
<1>2. CASE ThereStep \/ Repeat \/ LinkFlips \/ RemovePeer \/ UNCHANGED vars
  <2>1. src' = src /\ mop' = mop /\ job' = job
    BY <1>2 DEF ThereStep, Arrive, FlightLost, ImportStep, CheckRefused, MakeRow, ImportOn, Land,
       UndoImport, ResumeImport, CrashThere, BootThere, Repeat, LinkFlips, RemovePeer, here, vars
  <2> QED BY <2>1, <1>1
<1>3. CASE StartRoute \/ StopOrSleep
  <2>1. /\ UNCHANGED <<mop, job>> /\ job.pc = "idle" /\ ~Active
        /\ src'.asleep => src'.state = "STOPPED"
    BY <1>3 DEF StartRoute, StopOrSleep, Free, AgentRow
  <2> QED BY <2>1
<1>4. CASE MoveBegin
  <2>1. /\ src' = src /\ job'.pc = "preflight" /\ mop'.status = "running"
        /\ mop'.slept = src.asleep /\ mop'.wasRunning = (src.state = "RUNNING")
    BY <1>4 DEF MoveBegin
  <2> QED BY <2>1
<1>5. CASE Preflight \/ Send
  BY <1>5 DEF Preflight, Send, OpRow
<1>16. CASE RestartSource
  <2>1. mop'.status = "over" /\ job'.pc = "idle" /\ Active
    BY <1>16 DEF RestartSource, OpRow
  <2>2. CASE mop.wasRunning
    <3>1. ~src.asleep
      BY <2>1, <2>2
    <3>2. src'.asleep = src.asleep
      BY <1>16 DEF RestartSource, AgentRow
    <3> QED BY <2>1, <3>1, <3>2
  <2>3. CASE ~mop.wasRunning
    BY <1>16, <2>1, <2>3 DEF RestartSource
  <2> QED BY <2>2, <2>3
<1>6. CASE StopSource \/ ExportSource
  <2>1. CASE StopSource
    <3>1. src'.asleep = src.asleep /\ src'.state \in {src.state, "STOPPED"}
      BY <2>1 DEF StopSource, AgentRow
    <3>2. \/ mop' = mop /\ job'.pc = "export"
          \/ mop'.status = "over" /\ job'.pc = "idle"
      BY <2>1 DEF StopSource, OpRow
    <3> QED BY <2>1, <3>1, <3>2 DEF StopSource
  <2>2. CASE ExportSource
    BY <2>2 DEF ExportSource, AgentRow
  <2> QED BY <1>6, <2>1, <2>2
<1>7. CASE (\E c \in Copies : Answered(c)) \/ AnswerLost \/ Ask \/ List
  <2>1. src' = src /\ mop' = mop /\ Active
    BY <1>7 DEF Answered, AnswerLost, Ask, List
  <2>2. job'.pc \in {"arrived", "undo", "ask", "again", "list"}
    <3>1. ASSUME NEW c \in Copies, Answered(c) PROVE job'.pc \in {"arrived", "undo", "ask"}
      <4>1. job' \in {At("arrived"), At("undo"), Asking(FALSE)}
        BY <3>1 DEF Answered
      <4> QED BY <4>1
    <3>2. CASE AnswerLost
      BY <3>2 DEF AnswerLost
    <3>3. CASE Ask
      BY <3>3 DEF Ask, Job
    <3>4. CASE List
      <4>1. [At("again") EXCEPT !.never = TRUE].pc = "again"
        BY DEF At, Job
      <4> QED BY <3>4, <4>1 DEF List
    <3> QED BY <1>7, <3>1, <3>2, <3>3, <3>4
  <2> QED BY <2>1, <2>2
<1>8. CASE AskAgain
  <2>1. /\ src' = src /\ Active /\ mop'.status # "over" /\ mop'.slept = mop.slept
        /\ mop'.wasRunning = mop.wasRunning /\ job'.pc \in {"ask", "idle"}
    BY <1>8 DEF AskAgain, Hold, OpRow
  <2> QED BY <2>1
<1>9. CASE Tombstone
  <2>1. /\ mop' = mop /\ job'.pc = "end" /\ src'.moved /\ src'.asleep = src.asleep
        /\ src'.state = src.state /\ Active
    BY <1>9 DEF Tombstone, AgentRow
  <2> QED BY <2>1
<1>10. CASE UndoSource
  <2>0. mop' = mop /\ job'.pc = "end" /\ Active
    BY <1>10 DEF UndoSource
  <2>1. CASE mop.wasRunning
    <3>1. ~mop.slept /\ PutBack(src) = src /\ ~src.asleep
      BY <2>0, <2>1 DEF PutBack
    <3>2. \/ src' = [src EXCEPT !.up = TRUE, !.state = "RUNNING", !.asleep = FALSE]
          \/ \E u \in {src.up, TRUE} : src' = [src EXCEPT !.up = u, !.state = "STOPPED"]
      BY <1>10, <2>1, <3>1 DEF UndoSource
    <3>4. ~src'.asleep
      BY <3>1, <3>2 DEF AgentRow
    <3> QED BY <2>0, <3>1, <3>4
  <2>2. CASE ~mop.wasRunning
    <3>1. src' = PutBack(src)
      BY <1>10, <2>2 DEF UndoSource
    <3>2. /\ src'.state = src.state /\ (src'.asleep => src'.state = "STOPPED")
          /\ mop.slept /\ src.state = "STOPPED" => src'.asleep
          /\ ~mop.slept => src' = src
      BY <3>1 DEF PutBack, AgentRow
    <3> QED BY <2>0, <2>2, <3>2
  <2> QED BY <2>1, <2>2
<1>11. CASE EndMove
  BY <1>11 DEF EndMove, OpRow
<1>12. CASE CrashHere
  <2>1. /\ mop' = mop /\ job'.pc = "dead" /\ src'.state = src.state
        /\ src'.asleep => src.asleep
    BY <1>12 DEF CrashHere, AgentRow
  <2> QED BY <2>1
<1>13. CASE BootHere
  <2>1. /\ src' = src /\ job'.pc = "idle" /\ (mop'.status = "over" <=> mop.status = "over")
        /\ mop'.slept = mop.slept /\ mop'.wasRunning = mop.wasRunning
    BY <1>13 DEF BootHere, OpRow
  <2> QED BY <2>1
<1>14. CASE ResumeMigrate
  <2>1. /\ src' = src /\ Active /\ Active' /\ mop'.slept = mop.slept
        /\ mop'.wasRunning = mop.wasRunning
    BY <1>14 DEF ResumeMigrate, Hold, OpRow
  <2>2. \/ job'.pc \in {"idle", "ask", "undo"}
        \/ job'.pc = "end" /\ src.moved
    BY <1>14 DEF ResumeMigrate, Hold, Resumed
  <2> QED BY <2>1, <2>2
<1>15. CASE SayArrived \/ SayNotThere
  BY <1>15 DEF SayArrived, SayNotThere
<1> QED
  BY <1>2, <1>3, <1>4, <1>5, <1>6, <1>7, <1>8, <1>9, <1>10, <1>11, <1>12, <1>13, <1>14, <1>15,
     <1>16 DEF Next, MoveStep, ThereStep

(* A move that did not happen leaves a sleeping agent asleep, whatever cut  *)
(* it off and on whichever way it ended (migrate.ts, undoSource).           *)
THEOREM StillAsleep == Spec => AsleepAgain
<1>1. Init => TypeOK /\ Sleeper
  <2> SUFFICES ASSUME Init PROVE Sleeper
    BY InitType
  <2>1. (src.asleep => src.state = "STOPPED") /\ ~Active /\ job.pc = "idle"
    BY DEF Init, Active, Idle
  <2> QED BY <2>1 DEF Sleeper
<1>2. (TypeOK /\ Sleeper) /\ [Next]_vars => (TypeOK /\ Sleeper)'
  BY TypeStep, SleeperStep
<1>3. ASSUME TypeOK, Sleeper, [Next]_vars, Active, mop'.status = "over", mop.slept, ~src'.moved
      PROVE  src'.asleep
  <2>k. job \in Job /\ src \in AgentRow /\ mop \in OpRow
    BY <1>3 DEF TypeOK
  <2>1. Preflight \/ StopSource \/ RestartSource \/ EndMove
    <3>1. CASE mop' = mop
      BY <1>3, <3>1 DEF Active
    <3>2. CASE ThereStep \/ Repeat \/ LinkFlips \/ RemovePeer \/ UNCHANGED vars
      BY <1>3, <3>1, <3>2 DEF ThereStep, Arrive, FlightLost, ImportStep, CheckRefused, MakeRow,
         ImportOn, Land, UndoImport, ResumeImport, CrashThere, BootThere, Repeat, LinkFlips,
         RemovePeer, here, vars
    <3>3. CASE StartRoute \/ StopOrSleep \/ MoveBegin
      BY <1>3, <3>3 DEF StartRoute, StopOrSleep, MoveBegin, Free
    <3>4. CASE Send \/ ExportSource \/ (\E c \in Copies : Answered(c)) \/ AnswerLost \/ Ask \/ List
               \/ AskAgain \/ Tombstone \/ UndoSource
      BY <1>3, <2>k, <3>4 DEF Send, ExportSource, Answered, AnswerLost, Ask, List, AskAgain, Hold,
         Tombstone, UndoSource, Active, OpRow
    <3>5. CASE CrashHere \/ BootHere \/ ResumeMigrate \/ SayArrived \/ SayNotThere
      BY <1>3, <2>k, <3>5 DEF CrashHere, BootHere, ResumeMigrate, Hold, SayArrived, SayNotThere,
         Active, OpRow
    <3> QED BY <1>3, <3>2, <3>3, <3>4, <3>5 DEF Next, MoveStep, ThereStep
  <2>2. CASE Preflight
    BY <1>3, <2>2 DEF Preflight, Sleeper
  <2>3. CASE StopSource
    BY <1>3, <2>k, <2>3 DEF StopSource, Sleeper, AgentRow
  <2>4. CASE RestartSource
    BY <1>3, <2>4 DEF RestartSource, Sleeper
  <2>5. CASE EndMove
    BY <1>3, <2>5 DEF EndMove, Sleeper
  <2> QED BY <2>1, <2>2, <2>3, <2>4, <2>5
<1> QED BY <1>1, <1>2, <1>3, PTL DEF Spec, AsleepAgain

-----------------------------------------------------------------------------
(* The three questions OnePoller asks of the other server.                 *)
HomeThere == \E c \in Copies : Landed(c) \/ imp[c].at \in {"configured", "started"}
HoldThere == \E c \in Copies : imp[c].memory
RunThere  == \E c \in Copies : imp[c].con = "running"

(* The five steps of OnePoller, said of the two sides.  Stop: nothing      *)
(* starts, no memory changes, home stays.                                  *)
LEMMA IsStop ==
  ASSUME HomeThere' <=> HomeThere, HoldThere' <=> HoldThere, RunThere' => RunThere,
         src'.up => src.up
  PROVE  Abstract!Next
<1>1. Abstract!Stop
  BY DEF Abstract!Stop, HomeThere, HoldThere, RunThere, Landed
<1> QED BY <1>1 DEF Abstract!Next

(* Copy: the memory is there too.                                          *)
LEMMA IsCopy ==
  ASSUME HomeThere' <=> HomeThere, HoldThere', RunThere' <=> RunThere, src'.up <=> src.up
  PROVE  Abstract!Next
<1>1. Abstract!Copy
  BY DEF Abstract!Copy, HomeThere, HoldThere, RunThere, Landed
<1> QED BY <1>1 DEF Abstract!Next

(* Remove: of the copy there, while the one here counts.                   *)
LEMMA IsRemove ==
  ASSUME ~HomeThere, ~HomeThere', HoldThere' => HoldThere, RunThere' => RunThere,
         src'.up => src.up
  PROVE  Abstract!Next
<1>1. Abstract!Remove
  BY DEF Abstract!Remove, HomeThere, HoldThere, RunThere, Landed
<1> QED BY <1>1 DEF Abstract!Next

(* Move: of what counts, when nothing but the side it leaves runs.         *)
LEMMA IsMove ==
  ASSUME src.up => ~HomeThere, RunThere => HomeThere, RunThere' => RunThere,
         src'.up => src.up, HoldThere' <=> HoldThere, HomeThere' => HoldThere
  PROVE  Abstract!Next
<1>1. Abstract!Move
  BY DEF Abstract!Move, HomeThere, HoldThere, RunThere, Landed
<1> QED BY <1>1 DEF Abstract!Next

(* Start: of the side that counts, when neither runs.                      *)
LEMMA IsStart ==
  ASSUME ~src.up, ~RunThere, HoldThere' <=> HoldThere, HomeThere' => HoldThere,
         RunThere' <=> HomeThere, src'.up <=> ~HomeThere
  PROVE  Abstract!Next
<1>1. Abstract!Start
  BY DEF Abstract!Start, HomeThere, HoldThere, RunThere, Landed
<1> QED BY <1>1 DEF Abstract!Next

(* An import without a row leaves no trace, so the answers are those of    *)
(* the one that has one.                                                   *)
Counts(i) == i.row = "RUNNING" \/ i.at \in {"configured", "started"}
LEMMA OneCounts ==
  ASSUME NEW c \in Copies, Shape(imp[Other(c)]), imp[Other(c)].row = "none"
  PROVE  /\ HomeThere <=> Counts(imp[c])
         /\ HoldThere <=> imp[c].memory
         /\ RunThere <=> imp[c].con = "running"
<1>1. /\ ~imp[Other(c)].memory /\ imp[Other(c)].con # "running"
      /\ imp[Other(c)].at \notin {"configured", "started"} /\ ~Landed(Other(c))
  BY DEF Shape, Bare, Landed
<1> QED BY <1>1, Pair DEF HomeThere, HoldThere, RunThere, Counts, Landed

(* A step of the import that has a row, alone, is a step of OnePoller.     *)
LEMMA ImportMaps ==
  ASSUME Good, Mover, NEW c \in Copies, Shape(imp'[c]), Shape(imp'[Other(c)]),
         imp[c].row # "none", imp'[Other(c)].row = "none", src' = src,
         Follows(imp[c], imp'[c])
  PROVE  Abstract!Next
<1> DEFINE i == imp[c]
           j == imp'[c]
<1>0. /\ Shape(i) /\ Shape(imp[Other(c)]) /\ imp[Other(c)].row = "none"
      /\ i \in Import /\ Other(c) \in Copies
  BY Pair DEF Good, TypeOK, Shapes, OneRow
<1>1. /\ HomeThere <=> Counts(i)
      /\ HoldThere <=> i.memory
      /\ RunThere <=> i.con = "running"
  BY <1>0, OneCounts
<1>2. /\ HomeThere' <=> Counts(j)
      /\ HoldThere' <=> j.memory
      /\ RunThere' <=> j.con = "running"
  <2>1. /\ ~imp'[Other(c)].memory /\ imp'[Other(c)].con # "running"
        /\ imp'[Other(c)].at \notin {"configured", "started"} /\ ~Landed(Other(c))'
    BY DEF Shape, Bare, Landed
  <2> QED BY <2>1, Pair DEF HomeThere, HoldThere, RunThere, Counts, Landed
<1>3. i.at \in {"made", "built", "configured", "started", "undoing"} => ~src.up
  BY DEF Mover, MayRunHere, NoneComes
<1>4. CASE i.at = "made"
  <2>1. ~Counts(i) /\ ~Counts(j) /\ i.con = "absent" /\ j.con # "running" /\ ~i.memory
    BY <1>0, <1>4 DEF Follows, Shape, Bare, Counts
  <2>2. CASE j.memory
    BY <1>1, <1>2, <2>1, <2>2, IsCopy
  <2>3. CASE ~j.memory
    BY <1>1, <1>2, <2>1, <2>3, IsStop
  <2> QED BY <2>2, <2>3
<1>5. CASE i.at = "built"
  <2>1. ~Counts(i) /\ i.con = "stopped" /\ j.con = "stopped" /\ i.memory /\ j.memory = i.memory
    BY <1>0, <1>5 DEF Follows, Shape, Bare, Counts
  <2> QED BY <1>1, <1>2, <2>1, IsMove
<1>6. CASE i.at = "configured"
  <2>1. /\ Counts(i) /\ i.con = "stopped" /\ j.con \in {"stopped", "running"} /\ i.memory
        /\ j.memory = i.memory
    BY <1>0, <1>6 DEF Follows, Shape, Bare, Counts
  <2>2. CASE j.con = "stopped"
    BY <1>1, <1>2, <1>3, <1>6, <2>1, <2>2, IsMove
  <2>3. CASE j.con = "running"
    BY <1>1, <1>2, <1>3, <1>6, <2>1, <2>3, IsStart
  <2> QED BY <2>1, <2>2, <2>3
<1>7. CASE i.at = "started"
  <2>1. /\ Counts(i) /\ j.con = i.con /\ i.memory /\ j.memory = i.memory
    BY <1>0, <1>7 DEF Follows, Shape, Bare, Counts
  <2> QED BY <1>1, <1>2, <1>3, <1>7, <2>1, IsMove
<1>8. CASE i.at \in {"undoing", "ended"}
  <2>1. CASE i.row = j.row /\ i.at = j.at /\ j.con = i.con /\ j.memory = i.memory
    BY <1>1, <1>2, <2>1, IsStop DEF Counts
  <2>2. CASE /\ i.row = "PROVISIONING" /\ j.at = "ended" /\ j.row \in {"PROVISIONING", "DELETED"}
             /\ j.con \in {i.con, "absent"} /\ (j.memory => i.memory)
    <3>1. ~Counts(i) /\ ~Counts(j)
      BY <1>8, <2>2 DEF Counts
    <3> QED BY <1>1, <1>2, <2>2, <3>1, IsRemove
  <2> QED BY <1>8, <2>1, <2>2 DEF Follows
<1> QED BY <1>4, <1>5, <1>6, <1>7, <1>8 DEF Follows

(* A step in which no import has a row, before or after, or gets only one. *)
LEMMA BareMaps ==
  ASSUME src'.up => src.up,
         \A c \in Copies : /\ ~imp[c].memory /\ imp[c].con # "running" /\ ~Counts(imp[c])
                           /\ ~imp'[c].memory /\ imp'[c].con # "running" /\ ~Counts(imp'[c])
  PROVE  Abstract!Next
BY IsStop DEF HomeThere, HoldThere, RunThere, Counts, Landed

(* Every step of an import is a step of OnePoller.                         *)
LEMMA BecomesMaps ==
  ASSUME Closed, Good, Mover, NEW c \in Copies, Becomes(c)
  PROVE  Abstract!Next
<1>0. /\ Shape(imp[c]) /\ Shape(imp[Other(c)]) /\ Other(c) \in Copies
      /\ imp'[Other(c)] = imp[Other(c)] /\ src' = src /\ imp[c] \in Import
  BY Pair DEF Good, TypeOK, Shapes, Becomes, here
<1>1. Shape(imp'[c])
  <2>1. Once
    BY DEF Closed, Once
  <2> QED BY <2>1, ShapesKept DEF Shapes
<1>2. CASE Refuses(c) \/ Checks(c) \/ Makes(c)
  <2>1. /\ ~imp[c].memory /\ imp[c].con = "absent" /\ ~Counts(imp[c])
        /\ ~imp'[c].memory /\ imp'[c].con = "absent" /\ ~Counts(imp'[c])
    BY <1>0, <1>1, <1>2 DEF Refuses, Checks, Makes, Bare, Shape, Counts
  <2>2. /\ HomeThere' <=> HomeThere
        /\ HoldThere' <=> HoldThere
        /\ RunThere' <=> RunThere
    BY <1>0, <2>1, Pair DEF HomeThere, HoldThere, RunThere, Counts, Landed
  <2> QED BY <1>0, <2>2, IsStop
<1>3. CASE Works(c) \/ Lands(c) \/ Undoes(c) \/ Owns(c)
  <2>1. imp[c].row # "none"
    BY <1>0, <1>3 DEF Works, Lands, Undoes, Owns, Shape, Bare
  <2>2. imp'[Other(c)].row = "none"
    BY <1>0, <2>1 DEF Good, OneRow
  <2>3. Follows(imp[c], imp'[c])
    <3>1. CASE Works(c)
      BY <3>1 DEF Works
    <3>2. CASE Lands(c)
      BY <1>0, <3>2 DEF Lands, Follows, Shape, Bare
    <3>3. CASE Undoes(c)
      BY <3>3 DEF Undoes, Follows
    <3>4. CASE Owns(c)
      BY <1>0, <3>4 DEF Owns, Follows, Import
    <3> QED BY <1>3, <3>1, <3>2, <3>3, <3>4
  <2> QED BY <1>0, <1>1, <2>1, <2>2, <2>3, ImportMaps
<1> QED BY <1>2, <1>3 DEF Becomes

(* So is a death of the other server.                                      *)
LEMMA CrashMaps ==
  ASSUME Closed, Good, Mover, CrashThere
  PROVE  Abstract!Next
<1>0. /\ src' = src /\ \A c \in Copies : imp'[c] \in CutOff(c)
      /\ \A c \in Copies : Shape(imp[c]) /\ Shape(imp'[c])
  BY CutOffIs DEF CrashThere, here, Good, Shapes
<1>1. CASE \E c \in Copies : imp[c].row # "none"
  <2>1. PICK c \in Copies : imp[c].row # "none"
    BY <1>1
  <2>2. Other(c) \in Copies /\ Other(Other(c)) = c /\ imp[Other(c)].row = "none"
    BY <2>1, Pair DEF Good, OneRow
  <2>3. imp'[Other(c)].row = "none"
    BY <1>0, <2>1, <2>2, CutOffIs DEF Shape, Bare
  <2>4. Follows(imp[c], imp'[c])
    <3>1. imp'[c] \in CutOff(c) /\ Shape(imp[c]) /\ Shape(imp'[c])
      BY <1>0
    <3>2. CASE imp[c].at = "ended"
      BY <3>1, <3>2, CutOffIs DEF Follows
    <3>3. CASE imp[c].at # "ended"
      <4>1. imp[c].row = "PROVISIONING"
        BY <2>1, <3>1, <3>3 DEF Shape, Bare
      <4> QED BY <3>1, <3>3, <4>1, CutOffIs DEF Follows, Shape, Bare
    <3> QED BY <3>2, <3>3
  <2> QED BY <1>0, <2>1, <2>2, <2>3, <2>4, ImportMaps
<1>2. CASE \A c \in Copies : imp[c].row = "none"
  <2>1. ASSUME NEW c \in Copies
        PROVE  /\ ~imp[c].memory /\ imp[c].con # "running" /\ ~Counts(imp[c])
               /\ ~imp'[c].memory /\ imp'[c].con # "running" /\ ~Counts(imp'[c])
    BY <1>0, <1>2, CutOffIs DEF Shape, Bare, Counts
  <2> QED BY <1>0, <2>1, BareMaps
<1> QED BY <1>1, <1>2

(* Here it starts only when nothing of its move will land.                 *)
LEMMA StartsHere ==
  ASSUME Good, Mover, NoneComes, imp' = imp
  PROVE  Abstract!Next
<1>1. ~HomeThere /\ ~RunThere
  BY DEF NoneComes, HomeThere, RunThere
<1>2. /\ HomeThere' <=> HomeThere
      /\ HoldThere' <=> HoldThere
      /\ RunThere' <=> RunThere
  BY DEF HomeThere, HoldThere, RunThere, Landed
<1>3. CASE src'.up /\ ~src.up
  BY <1>1, <1>2, <1>3, IsStart
<1>4. CASE src'.up => src.up
  BY <1>2, <1>4, IsStop
<1> QED BY <1>3, <1>4

(* Every step of either server, and of the network, is one of OnePoller.   *)
LEMMA StepMaps ==
  ASSUME Closed, Good, Unsent, Mover, [Next]_vars
  PROVE  Abstract!Next
<1>o. Once
  BY DEF Closed, Once
<1>k. src \in AgentRow /\ job \in Job
  BY DEF Good, TypeOK
<1>1. ASSUME NEW c \in Copies, Arrive(c) \/ FlightLost(c) \/ ImportStep(c) \/ ResumeImport(c)
      PROVE  Abstract!Next
  BY <1>o, <1>1, StepBecomes, BecomesMaps
<1>2. CASE CrashThere
  BY <1>2, CrashMaps
<1>3. CASE BootThere
  <2>1. \A c \in Copies : /\ imp'[c].at = imp[c].at /\ imp'[c].row = imp[c].row
                          /\ imp'[c].con = imp[c].con /\ imp'[c].memory = imp[c].memory
    BY <1>3 DEF BootThere, Good, TypeOK, Import
  <2> QED BY <1>3, <2>1, IsStop DEF BootThere, here, HomeThere, HoldThere, RunThere, Landed
<1>4. CASE Send \/ Repeat
  <2>1. Sends /\ src' = src
    <3>1. CASE Send
      <4>1. imp[1] = NoImport /\ 1 \in Copies
        BY <3>1 DEF Send, Unsent, Copies
      <4>2. imp[1].at = "none"
        BY <4>1 DEF NoImport
      <4> QED BY <3>1, <4>1, <4>2 DEF Send, Sends
    <3>2. CASE Repeat
      <4>1. 2 \in Copies
        BY DEF Copies
      <4> QED BY <3>2, <4>1 DEF Repeat, Sends, here
    <3> QED BY <1>4, <3>1, <3>2
  <2>2. PICK c \in Copies : imp[c].at = "none" /\ imp' = [imp EXCEPT ![c].at = "flying"]
    BY <2>1 DEF Sends
  <2>3. \A e \in Copies :
          /\ imp'[e].row = imp[e].row /\ imp'[e].con = imp[e].con
          /\ imp'[e].memory = imp[e].memory
          /\ imp'[e].at # imp[e].at => imp[e].at = "none" /\ imp'[e].at = "flying"
    BY <2>2 DEF Good, TypeOK, Import
  <2> QED BY <2>1, <2>3, IsStop DEF HomeThere, HoldThere, RunThere, Landed
<1>5. CASE MoveBegin
  <2>1. \A c \in Copies : imp[c].con # "running" /\ ~Counts(imp[c]) /\ ~imp[c].memory
    BY <1>5 DEF MoveBegin, Gone, Lives, Good, Shapes, Shape, Bare, Counts
  <2>2. \A c \in Copies : ~imp'[c].memory /\ imp'[c].con # "running" /\ ~Counts(imp'[c])
    BY <1>5 DEF MoveBegin, NoImport, Counts
  <2> QED BY <1>5, <2>1, <2>2, BareMaps DEF MoveBegin
<1>6. ASSUME imp' = imp, src'.up => src.up PROVE Abstract!Next
  BY <1>6, IsStop DEF HomeThere, HoldThere, RunThere, Landed
<1>7. CASE LinkFlips \/ RemovePeer \/ UNCHANGED vars
  BY <1>6, <1>7 DEF LinkFlips, RemovePeer, here, away, vars
<1>8. CASE StartRoute \/ StopOrSleep
  <2>1. imp' = imp /\ NoneComes
    BY <1>8 DEF StartRoute, StopOrSleep, Free, away, Mover, MayRunHere
  <2> QED BY <2>1, StartsHere
<1>9. CASE RestartSource \/ UndoSource
  <2>1. imp' = imp /\ NoneComes
    BY <1>9, NothingSentIsSo DEF RestartSource, UndoSource, away, Unsent, Mover, MayRunHere
  <2> QED BY <2>1, StartsHere
<1>10. CASE CrashHere
  <2>1. imp' = imp
    BY <1>10 DEF CrashHere, away
  <2>2. CASE job.pc \in {"restart", "undo"}
    <3>1. NoneComes
      BY <2>2, NothingSentIsSo DEF Unsent, Mover, MayRunHere
    <3> QED BY <2>1, <3>1, StartsHere
  <2>3. CASE job.pc \notin {"restart", "undo"}
    <3>1. src'.up => src.up
      BY <1>10, <1>k, <2>3 DEF CrashHere, AgentRow
    <3> QED BY <1>6, <2>1, <3>1
  <2> QED BY <2>2, <2>3
<1>11. CASE StopSource \/ ExportSource \/ Tombstone
  <2>1. imp' = imp /\ (src'.up => src.up)
    BY <1>11, <1>k DEF StopSource, ExportSource, Tombstone, away, AgentRow
  <2> QED BY <1>6, <2>1
<1>12. CASE Preflight \/ (\E c \in Copies : Answered(c)) \/ AnswerLost \/ Ask \/ List \/ AskAgain
            \/ EndMove \/ BootHere \/ ResumeMigrate \/ SayArrived \/ SayNotThere
  <2>1. imp' = imp /\ src' = src
    BY <1>12 DEF Preflight, Answered, AnswerLost, Ask, List, AskAgain, EndMove, BootHere,
       ResumeMigrate, SayArrived, SayNotThere, away
  <2> QED BY <1>6, <2>1
<1> QED
  BY <1>1, <1>2, <1>3, <1>4, <1>5, <1>7, <1>8, <1>9, <1>10, <1>11, <1>12 DEF Next, MoveStep

(* The initial states are OnePoller's.                                     *)
LEMMA InitMaps == Init => Abstract!Init
<1> SUFFICES ASSUME Init PROVE Abstract!Init
  OBVIOUS
<1>1. ~HomeThere /\ ~HoldThere /\ ~RunThere
  BY DEF Init, NoImport, HomeThere, HoldThere, RunThere, Landed
<1> QED BY <1>1 DEF Abstract!Init, HomeThere, HoldThere, RunThere, Landed

(* The two servers together implement OnePoller: whatever is lost, repeated *)
(* or restarted, the agent has one home that holds its memory, and is      *)
(* started nowhere else.                                                   *)
THEOREM MigrateIsOnePoller == ASSUME Closed PROVE Spec => OneHome
<1>1. (Good /\ Unsent /\ Mover) /\ [Next]_vars => [Abstract!Next]_(Abstract!vars)
  BY StepMaps
<1>2. Spec => [](Good /\ Unsent /\ Mover)
  BY MoverAlways
<1> QED BY <1>1, <1>2, InitMaps, PTL DEF Spec, OneHome, Abstract!Spec
=============================================================================
