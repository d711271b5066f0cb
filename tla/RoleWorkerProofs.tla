-------------------------- MODULE RoleWorkerProofs --------------------------
(***************************************************************************)
(* Proofs about RoleWorker, for any intervals and timeouts, any number of  *)
(* changes, faults and restarts, and any lag of the copy.                  *)
(***************************************************************************)
EXTENDS RoleWorker, TLAPS

USE WorkerAssumption, SessionAssumption

(***************************************************************************)
(* Types                                                                   *)
(***************************************************************************)
\* What a run writes is a status.
LEMMA StatusTypes ==
    /\ States \subseteq Statuses
    /\ "failed" \in Statuses
    /\ \A state \in States : Transition(state) \in Statuses /\ Other(state) \in States
BY DEF States, Statuses, Transition, Other

\* A document's state is a state, unless there is no document.
LEMMA DocTypes ==
    ASSUME NEW doc \in Docs
    PROVE  doc.state \in States /\ doc.managed \in BOOLEAN /\ doc # NoDoc
BY DEF Docs, NoDoc, Doc, States

\* A lease that lives has been granted.
LEMMA AliveTypes == ASSUME SessionTypeOK PROVE alive \subseteq Leases
BY DEF SessionTypeOK, Leases

\* No event is on its way.
LEMMA EmptyWatch == <<>> \in Seq(Events)
OBVIOUS

\* An event on its way to the copy.
LEMMA SendTypes ==
    ASSUME watch \in Seq(Events), NEW key, NEW value,
           [key |-> key, value |-> value] \in Events, Send(key, value)
    PROVE  watch' \in Seq(Events)
BY DEF Send

\* A put of a report.
LEMMA PutReportTypes ==
    ASSUME TypeOK, NEW status \in Statuses, NEW lease \in Leases, PutReport(status, lease)
    PROVE  /\ desired' \in Docs /\ copy' \in Copies /\ watching' \in BOOLEAN
           /\ report' \in Reports \cup {NoReport}
           /\ watch' \in Seq(Events)
<1>1. [key |-> "report", value |-> status] \in Events
  BY DEF Events
<1>2. Report(status, lease) \in Reports
  BY DEF Report, Reports
<1> QED BY <1>1, <1>2, SendTypes DEF TypeOK, PutReport, etcdVars

\* A process that died has not used up the starts, and its lease id is gone.
Down == sess = "down" => starts < MaxStarts /\ leaseId = 0

\* The session's own steps.
LEMMA SessionTypes ==
    ASSUME SessionTypeOK, Down,
           Grant \/ Register \/ NoticeLeaseGone \/ SessionFails \/ ProcessDies \/ ProcessStarts
           \/ UNCHANGED sessionVars
    PROVE  SessionTypeOK' /\ Down'
<1> USE DEF SessionTypeOK, Down
<1>1. CASE Grant
  BY <1>1 DEF Grant, Leases
<1>2. CASE Register
  BY <1>2 DEF Register
<1>3. CASE NoticeLeaseGone
  BY <1>3 DEF NoticeLeaseGone, EndSession
<1>4. CASE SessionFails
  BY <1>4 DEF SessionFails, EndSession
<1>5. CASE ProcessDies
  BY <1>5 DEF ProcessDies
<1>6. CASE ProcessStarts
  BY <1>6 DEF ProcessStarts, Leases
<1>7. CASE UNCHANGED sessionVars
  BY <1>7 DEF sessionVars
<1> QED BY <1>1, <1>2, <1>3, <1>4, <1>5, <1>6, <1>7

\* A worker without a document has no run.
Safe ==
    /\ TypeOK
    /\ Down
    /\ last = NoDoc => phase = "idle"
    /\ ReportsAreLeased

\* What a put of a report, under a lease that is not "no lease", leaves alone.
LEMMA PutReportSafe ==
    ASSUME Safe, NEW status \in Statuses, NEW lease \in Leases, PutReport(status, lease),
           UNCHANGED alive
    PROVE  /\ desired' \in Docs /\ copy' \in Copies /\ watching' \in BOOLEAN
           /\ report' \in Reports \cup {NoReport}
           /\ watch' \in Seq(Events)
           /\ ReportsAreLeased'
<1>1. lease # 0
  BY DEF Leases
<1> QED
  BY <1>1, PutReportTypes DEF Safe, PutReport, ReportsAreLeased, Report, etcdVars

\* writeStatus writes under the session's lease.
LEMMA WriteStatusSafe ==
    ASSUME Safe, NEW status \in Statuses, WriteStatus(status), UNCHANGED alive
    PROVE  /\ desired' \in Docs /\ copy' \in Copies /\ watching' \in BOOLEAN
           /\ report' \in Reports \cup {NoReport}
           /\ watch' \in Seq(Events)
           /\ ReportsAreLeased'
<1>1. CASE NeedsWrite(status)
  <2>1. leaseId \in Leases
    BY <1>1 DEF NeedsWrite, Safe, TypeOK, SessionTypeOK
  <2> QED BY <1>1, <2>1, PutReportSafe DEF WriteStatus
<1>2. CASE ~NeedsWrite(status)
  BY <1>2 DEF WriteStatus, etcdVars, Safe, TypeOK, ReportsAreLeased
<1> QED BY <1>1, <1>2

\* What is left of a run that is cancelled.
LEMMA CancelTypes ==
    ASSUME TypeOK, Cancel
    PROVE  /\ late' \in Reports \cup {NoReport}
           /\ orphan' \in States \cup {"none"}
           /\ faults' \in Nat
<1> USE DEF TypeOK
<1>1. last.state \in States \cup {"none"}
  BY DocTypes DEF NoDoc, Doc
<1>2. Pending \in Statuses
  BY <1>1 DEF Pending, Transition, Statuses
<1>3. NeedsWrite(Pending) => Report(Pending, leaseId) \in Reports
  BY <1>2 DEF NeedsWrite, Report, Reports, SessionTypeOK
<1> QED BY <1>1, <1>3 DEF Cancel, leftVars, Fault

\* etcd drops a lease, and what hangs on it.
LEMMA DropLeaseSafe ==
    ASSUME Safe, NEW l \in Leases, DropLease(l), faults' \in Nat
    PROVE  Safe'
<1> USE DEF Safe, TypeOK
<1>1. SessionTypeOK' /\ Down'
  BY DEF DropLease, Expires, SessionTypeOK, Down
<1>2. CASE report.lease = l
  <2>1. [key |-> "report", value |-> "absent"] \in Events
    BY DEF Events
  <2>2. watch' \in Seq(Events) /\ report' = NoReport
    BY <1>2, <2>1, SendTypes DEF DropLease
  <2> QED BY <1>1, <1>2, <2>2 DEF DropLease, runVars, leftVars, ReportsAreLeased
<1>3. CASE report.lease # l
  BY <1>1, <1>3 DEF DropLease, Expires, etcdVars, runVars, leftVars, ReportsAreLeased
<1> QED BY <1>2, <1>3

\* A step of the run.
LEMMA RunSafe == ASSUME Safe, RunStep PROVE Safe'
<1> USE DEF Safe, TypeOK
<1>1. /\ UNCHANGED <<sessionVars, last, age, leftVars, changes, faults>>
      /\ SessionTypeOK' /\ Down' /\ began' \in Nat
  BY SessionTypes DEF RunStep
<1>2. last # NoDoc => last \in Docs /\ last.state \in States
  BY DocTypes
<1>3. ASSUME NEW status \in Statuses, FinishWith(status)
      PROVE  phase' \in Phases /\ verdict' \in Statuses /\ transitioned' \in BOOLEAN
  BY <1>3 DEF FinishWith, Goto, Phases
<1>4. ASSUME NEW p \in Phases, GoOn(p)
      PROVE  phase' \in Phases /\ verdict' \in Statuses /\ transitioned' \in BOOLEAN
  BY <1>4 DEF GoOn, Goto
<1>5. {"idle", "wait", "probe", "notify", "set", "sleep", "retry", "force", "write"}
          \subseteq Phases
  BY DEF Phases
<1>6. ASSUME UNCHANGED etcdVars
      PROVE  /\ desired' \in Docs /\ copy' \in Copies /\ watching' \in BOOLEAN
             /\ report' \in Reports \cup {NoReport}
             /\ watch' \in Seq(Events)
             /\ ReportsAreLeased'
  BY <1>1, <1>6 DEF etcdVars, sessionVars, ReportsAreLeased
<1>7. CASE WaitForSessionLease
  <2>1. script' \in {"file", "joined", "mangled"}
    BY <1>7 DEF WaitForSessionLease, JoinPaths
  <2> QED BY <1>1, <1>4, <1>5, <1>6, <1>7, <2>1 DEF WaitForSessionLease, sessionVars, leftVars
<1>8. CASE ProbeOk
  <2>1. last.state \in Statuses /\ last # NoDoc
    BY <1>8, StatusTypes DEF ProbeOk, NoDoc, Doc, States
  <2> QED BY <1>1, <1>3, <1>6, <1>8, <2>1 DEF ProbeOk, sessionVars, leftVars
<1>9. CASE ProbeMiss
  <2>1. phase' \in Phases /\ verdict' \in Statuses /\ transitioned' \in BOOLEAN
    BY <1>3, <1>4, <1>5, <1>9, StatusTypes DEF ProbeMiss, Miss
  <2> QED BY <1>1, <1>6, <1>9, <2>1 DEF ProbeMiss, sessionVars, leftVars
<1>10. CASE NotifyTransition
  <2>1. Transition(last.state) \in Statuses
    BY DEF Transition, Statuses
  <2> QED BY <1>1, <1>5, <1>10, <2>1, WriteStatusSafe
          DEF NotifyTransition, Goto, sessionVars, leftVars
<1>11. CASE RunSet
  <2>1. service' \in States
    BY <1>2, <1>11 DEF RunSet
  <2> QED BY <1>1, <1>5, <1>6, <1>11, <2>1 DEF RunSet, Goto, sessionVars, leftVars
<1>12. CASE Retry
  <2>1. phase' \in Phases /\ verdict' \in Statuses /\ transitioned' \in BOOLEAN
    BY <1>3, <1>4, <1>5, <1>12, StatusTypes DEF Retry
  <2> QED BY <1>1, <1>6, <1>12, <2>1 DEF Retry, sessionVars, leftVars
<1>13. CASE ForceStop
  <2>1. service' \in States
    BY <1>13 DEF ForceStop, States
  <2> QED BY <1>1, <1>3, <1>6, <1>13, <2>1, StatusTypes DEF ForceStop, sessionVars, leftVars
<1>14. CASE WriteFinal
  BY <1>1, <1>5, <1>14, StatusTypes, WriteStatusSafe DEF WriteFinal, Goto, sessionVars, leftVars
<1> QED
  BY <1>7, <1>8, <1>9, <1>10, <1>11, <1>12, <1>13, <1>14 DEF RunStep

\* Every step of the worker, its process, its session, and of faults.
LEMMA SafeStep == Safe /\ [Next]_vars => Safe'
<1> SUFFICES ASSUME Safe, [Next]_vars PROVE Safe'
  OBVIOUS
<1> USE DEF Safe, TypeOK
<1>1. ASSUME UNCHANGED <<report, alive>> PROVE ReportsAreLeased'
  BY <1>1 DEF ReportsAreLeased
<1>2. ASSUME UNCHANGED sessionVars PROVE SessionTypeOK' /\ Down'
  BY <1>2, SessionTypes
<1>3. Fault => faults' \in Nat
  BY DEF Fault
<1>4. ASSUME NEW doc \in Docs \cup {NoDoc}, NEW p \in Phases, Begin(doc, p)
      PROVE  /\ last' \in Docs \cup {NoDoc} /\ age' \in Nat /\ began' \in Nat /\ phase' \in Phases
             /\ transitioned' \in BOOLEAN /\ verdict' \in Statuses
             /\ last' = doc /\ phase' = p
  BY <1>4, StatusTypes DEF Begin
<1>5. {"idle", "wait", "set", "retry"} \subseteq Phases
  BY DEF Phases
<1>6. ASSUME FinishWith("failed")
      PROVE  phase' \in Phases /\ verdict' \in Statuses /\ transitioned' \in BOOLEAN
  BY <1>6, StatusTypes DEF FinishWith, Goto, Phases
<1>7. CASE Deliver
  <2>1. Head(watch) \in Events /\ watch' \in Seq(Events)
    BY <1>7 DEF Deliver
  <2>2. copy' \in Copies
    BY <1>7, <2>1 DEF Deliver, Events, Copies
  <2> QED BY <1>1, <1>2, <1>7, <2>1, <2>2 DEF Deliver, runVars, leftVars, sessionVars
<1>8. CASE ChangeDesired
  <2>1. [key |-> "desired", value |-> desired'] \in Events
    BY <1>8 DEF ChangeDesired, Events
  <2>2. watch' \in Seq(Events)
    BY <1>8, <2>1, SendTypes DEF ChangeDesired
  <2> QED BY <1>1, <1>2, <1>8, <2>2 DEF ChangeDesired, runVars, leftVars, sessionVars
<1>9. ASSUME NEW l \in Leases, AbandonedLeaseExpires(l) PROVE Safe'
  BY <1>9, DropLeaseSafe DEF AbandonedLeaseExpires
<1>10. CASE SessionStep
  <2>1. SessionTypeOK' /\ Down' /\ ReportsAreLeased'
    BY <1>10, SessionTypes
       DEF SessionStep, etcdVars, ReportsAreLeased, Grant, Register, NoticeLeaseGone, EndSession
  <2> QED BY <1>10, <2>1 DEF SessionStep, etcdVars, runVars, leftVars
<1>11. CASE Reconcile
  <2>1. /\ last' \in Docs \cup {NoDoc} /\ last' # NoDoc
        /\ age' \in Nat /\ began' \in Nat /\ phase' \in Phases
        /\ transitioned' \in BOOLEAN /\ verdict' \in Statuses
    BY <1>4, <1>5, <1>11, DocTypes DEF Reconcile, Copies
  <2> QED BY <1>1, <1>2, <1>11, <2>1, CancelTypes DEF Reconcile, etcdVars, sessionVars
<1>12. CASE RunStep
  BY <1>12, RunSafe
<1>13. CASE LateCommits
  <2>1. late.state \in Statuses /\ late.lease \in Leases /\ UNCHANGED alive
    BY <1>13 DEF LateCommits, Reports, sessionVars
  <2> QED BY <1>2, <1>13, <2>1, PutReportSafe DEF LateCommits, runVars
<1>14. CASE OrphanActs
  BY <1>1, <1>2, <1>14 DEF OrphanActs, etcdVars, runVars, sessionVars
<1>15. ASSUME Advance, phase # "idle" \/ phase' = "idle", faults' \in Nat PROVE Safe'
  <2>1. phase' \in Phases /\ age' \in Nat
    BY <1>5, <1>15 DEF Advance, Goto
  <2> QED BY <1>1, <1>2, <1>15, <2>1 DEF Advance, etcdVars, leftVars, sessionVars
<1>16. CASE Tick
  BY <1>15, <1>16 DEF Tick, Advance, Goto
<1>17. CASE Slow
  BY <1>3, <1>15, <1>17 DEF Slow, Resting
<1>18. CASE ServiceFlips
  <2>1. service' \in States
    BY <1>18, StatusTypes DEF ServiceFlips
  <2> QED
    BY <1>1, <1>2, <1>3, <1>18, <2>1 DEF ServiceFlips, etcdVars, runVars, leftVars, sessionVars
<1>19. CASE ExecError
  BY <1>1, <1>2, <1>3, <1>6, <1>19 DEF ExecError, etcdVars, leftVars, sessionVars
<1>20. CASE ForceFails
  BY <1>1, <1>2, <1>3, <1>6, <1>20 DEF ForceFails, etcdVars, leftVars, sessionVars
<1>21. CASE WriteFails
  BY <1>1, <1>2, <1>3, <1>5, <1>21, StatusTypes
     DEF WriteFails, Goto, etcdVars, leftVars, sessionVars
<1>22. CASE CutOff
  <2>1. starts \in Leases
    BY DEF SessionTypeOK
  <2> QED BY <1>3, <1>22, <2>1, DropLeaseSafe DEF CutOff
<1>23. CASE SessionLost
  <2>1. SessionTypeOK' /\ Down' /\ UNCHANGED alive
    BY <1>23, SessionTypes DEF SessionLost, SessionFails, EndSession
  <2> QED BY <1>1, <1>3, <1>23, <2>1 DEF SessionLost, etcdVars, runVars, leftVars
<1>24. CASE WatchCloses
  <2>1. watch' \in Seq(Events) /\ watching' \in BOOLEAN
    BY <1>24, EmptyWatch DEF WatchCloses
  <2> QED BY <1>1, <1>2, <1>3, <1>24, <2>1 DEF WatchCloses, runVars, leftVars, sessionVars
<1>25. CASE Die
  <2>1. SessionTypeOK' /\ Down' /\ UNCHANGED alive
    BY <1>25, SessionTypes DEF Die, ProcessDies
  <2>2. watch' \in Seq(Events) /\ watching' \in BOOLEAN
    BY <1>25, EmptyWatch DEF Die
  <2>3. /\ last' \in Docs \cup {NoDoc} /\ age' \in Nat /\ began' \in Nat
        /\ phase' = "idle" /\ phase' \in Phases
        /\ transitioned' \in BOOLEAN /\ verdict' \in Statuses
    BY <1>4, <1>5, <1>25 DEF Die
  <2> QED BY <1>1, <1>25, <2>1, <2>2, <2>3, CancelTypes DEF Die
<1>26. CASE Restart
  <2>1. SessionTypeOK' /\ Down' /\ UNCHANGED alive
    BY <1>26, SessionTypes DEF Restart, ProcessStarts
  <2>2. report.state \in Statuses \cup {"absent"}
    BY DEF Reports, NoReport, Report
  <2>3. copy' \in Copies
    BY <1>26, <2>2 DEF Restart, Copies
  <2> QED BY <1>1, <1>26, <2>1, <2>3 DEF Restart, runVars, leftVars
<1>27. CASE ProbeFails
  <2>1. phase' \in {"notify", "set", "write"} /\ verdict' \in Statuses /\ transitioned' \in BOOLEAN
    BY <1>27, StatusTypes DEF ProbeFails, Miss, GoOn, FinishWith, Goto
  <2>2. phase' \in Phases
    BY <2>1 DEF Phases
  <2>3. last # NoDoc
    BY <1>27 DEF ProbeFails
  <2> QED
    BY <1>1, <1>2, <1>3, <1>27, <2>1, <2>2, <2>3 DEF ProbeFails, etcdVars, leftVars, sessionVars
<1>28. CASE UNCHANGED vars
  BY <1>1, <1>2, <1>28 DEF vars, etcdVars, runVars, leftVars, sessionVars
<1> QED
  BY <1>7, <1>8, <1>9, <1>10, <1>11, <1>12, <1>13, <1>14, <1>16, <1>17, <1>18, <1>19, <1>20,
     <1>21, <1>22, <1>23, <1>24, <1>25, <1>26, <1>27, <1>28 DEF Next

\* The worker starts without a document and without a report.
LEMMA SafeInit == Init => Safe
<1> SUFFICES ASSUME Init PROVE Safe
  OBVIOUS
<1>1. SessionTypeOK /\ Down
  BY DEF Init, SessionInit, SessionTypeOK, Down, Leases
<1>2. desired \in Docs /\ copy \in Copies
  BY DEF Init, Doc, Docs, States, Copies
<1>3. "idle" \in Phases /\ "failed" \in Statuses
  BY DEF Phases, Statuses
<1>4. watch \in Seq(Events) /\ NoReport.state = "absent"
  BY EmptyWatch DEF Init, NoReport, Report
<1> QED BY <1>1, <1>2, <1>3, <1>4 DEF Init, Safe, TypeOK, ReportsAreLeased

\* Every state is well typed, and a worker without a document has no run.
THEOREM SafeAlways == Spec => []Safe
BY SafeInit, SafeStep, PTL DEF Spec

\* All that a worker, its process and etcd hold is of its type.
THEOREM TypeCorrect == Spec => []TypeOK
<1>1. Safe => TypeOK
  BY DEF Safe
<1> QED BY <1>1, SafeAlways, PTL

\* No report outlives the lease it was written under: writeStatus asks for a
\* lease, a lease that is gone refuses the put, and one that goes takes its
\* reports along, whoever wrote them.
THEOREM ReportsAreLeasedAlways == Spec => []ReportsAreLeased
<1>1. Safe => ReportsAreLeased
  BY DEF Safe
<1> QED BY <1>1, SafeAlways, PTL

(***************************************************************************)
(* The refinement                                                          *)
(***************************************************************************)
\* The process has not died and nothing has failed yet.
Faultless == faults = 0 /\ starts = 1 /\ sess # "down"

\* What a run knows of the service then holds: nobody else touches it.
Smooth ==
    Faultless =>
        /\ late = NoReport /\ orphan = "none"
        /\ sess = "grant" \/ starts \in alive
        /\ sess # "over"
        /\ phase \in {"notify", "set", "sleep", "retry", "force"} => last.managed
        /\ phase \in {"notify", "set"} => service # last.state
        /\ phase = "force" => last.state = "passive"
        /\ phase = "write" => verdict = "failed" \/ (verdict = last.state /\ service = last.state)
        /\ phase = "write" /\ verdict = "failed" =>
             last.managed \/ script = "mangled" \/ service # last.state

\* "failed" is not a state that a document asks for.
LEMMA NotFailed == ASSUME TypeOK PROVE last.state # "failed"
BY DocTypes DEF TypeOK, States, NoDoc, Doc

\* The worker's run keeps to it.
LEMMA SmoothRun == ASSUME Safe, Smooth, RunStep PROVE Smooth'
<1> SUFFICES ASSUME Faultless' PROVE Smooth'
  BY DEF Smooth
<1>1. /\ Faultless /\ UNCHANGED <<sessionVars, last, leftVars>>
      /\ UNCHANGED <<sess, starts, alive, late, orphan>>
  BY DEF RunStep, Faultless, sessionVars, leftVars
<1> USE DEF Smooth, Goto, GoOn, FinishWith
<1>2. CASE WaitForSessionLease
  BY <1>1, <1>2 DEF WaitForSessionLease
<1>3. CASE ProbeOk
  <2>1. last.state # "failed"
    BY NotFailed DEF Safe
  <2> QED BY <1>1, <1>3, <2>1 DEF ProbeOk
<1>4. CASE ProbeMiss
  BY <1>1, <1>4 DEF ProbeMiss, Miss
<1>5. CASE NotifyTransition
  BY <1>1, <1>5 DEF NotifyTransition
<1>6. CASE RunSet
  BY <1>1, <1>6 DEF RunSet
<1>7. CASE Retry
  BY <1>1, <1>7 DEF Retry
<1>8. CASE ForceStop
  BY <1>1, <1>8 DEF ForceStop
<1>9. CASE WriteFinal
  BY <1>1, <1>9 DEF WriteFinal
<1> QED
  BY <1>2, <1>3, <1>4, <1>5, <1>6, <1>7, <1>8, <1>9 DEF RunStep

\* A step from a state with a fault, or with one, leaves none to look at.
LEMMA FaultsStay ==
    ASSUME Safe, [Next]_vars, Faultless'
    PROVE  /\ Faultless
           /\ ~(Slow \/ ServiceFlips \/ ProbeFails \/ ExecError \/ ForceFails \/ WriteFails \/ CutOff
                \/ SessionLost \/ WatchCloses \/ Die \/ Restart)
<1> USE DEF Safe, TypeOK, SessionTypeOK, Faultless, Leases
<1>1. ~Fault
  BY DEF Fault
<1>2. ~(Slow \/ ServiceFlips \/ ProbeFails \/ ExecError \/ ForceFails \/ WriteFails \/ CutOff
        \/ SessionLost \/ WatchCloses)
  BY <1>1 DEF Slow, ServiceFlips, ProbeFails, ExecError, ForceFails, WriteFails, CutOff,
              SessionLost, WatchCloses
<1>3. ~Die /\ ~Restart
  BY DEF Die, ProcessDies, Restart, ProcessStarts
<1>4. SUFFICES Faultless
  BY <1>2, <1>3
<1>5. CASE Deliver \/ ChangeDesired \/ LateCommits \/ OrphanActs
  BY <1>5 DEF Deliver, ChangeDesired, LateCommits, OrphanActs, sessionVars
<1>6. ASSUME NEW l \in Leases, AbandonedLeaseExpires(l) PROVE Faultless
  BY <1>6 DEF AbandonedLeaseExpires, DropLease, Expires
<1>7. CASE SessionStep
  BY <1>7 DEF SessionStep, Grant, Register, NoticeLeaseGone, EndSession
<1>8. CASE Reconcile
  BY <1>1, <1>8 DEF Reconcile, Cancel, sessionVars
<1>9. CASE RunStep
  BY <1>9 DEF RunStep, sessionVars
<1>10. CASE Tick
  BY <1>10 DEF Tick, Advance, sessionVars
<1>11. CASE UNCHANGED vars
  BY <1>11 DEF vars, sessionVars
<1> QED BY <1>2, <1>3, <1>5, <1>6, <1>7, <1>8, <1>9, <1>10, <1>11 DEF Next

\* So does everything else that moves before the first fault.
LEMMA SmoothStep == Safe /\ Smooth /\ [Next]_vars => Smooth'
<1> SUFFICES ASSUME Safe, Smooth, [Next]_vars, Faultless' PROVE Smooth'
  BY DEF Smooth
<1>1. Faultless
  BY FaultsStay
<1> USE DEF Smooth
<1>2. CASE Deliver \/ ChangeDesired
  BY <1>1, <1>2 DEF Deliver, ChangeDesired, sessionVars, runVars, leftVars
<1>3. ASSUME NEW l \in Leases, AbandonedLeaseExpires(l) PROVE Smooth'
  <2>1. l = starts /\ sess = "grant"
    BY <1>1, <1>3 DEF AbandonedLeaseExpires, Abandoned, DropLease, Expires, Faultless,
                      Safe, TypeOK, SessionTypeOK
  <2> QED BY <1>1, <1>3, <2>1 DEF AbandonedLeaseExpires, DropLease, Expires, runVars, leftVars
<1>4. CASE SessionStep
  BY <1>1, <1>4 DEF SessionStep, Grant, Register, NoticeLeaseGone, EndSession, runVars, leftVars
<1>5. CASE Reconcile
  <2>1. UNCHANGED <<late, orphan>>
    BY <1>1, <1>5 DEF Reconcile, Cancel, Fault, leftVars, Faultless
  <2> QED BY <1>1, <1>5, <2>1 DEF Reconcile, Begin, sessionVars
<1>6. CASE RunStep
  BY <1>6, SmoothRun
<1>7. CASE LateCommits \/ OrphanActs
  BY <1>1, <1>7 DEF LateCommits, OrphanActs
<1>8. CASE Tick
  BY <1>1, <1>8 DEF Tick, Advance, Resting, Goto, sessionVars, leftVars
<1>9. CASE UNCHANGED vars
  BY <1>1, <1>9 DEF vars, sessionVars, runVars, leftVars
<1> QED
  BY <1>2, <1>3, <1>4, <1>5, <1>6, <1>7, <1>8, <1>9, FaultsStay DEF Next

\* A report of the abstract worker, reliable or not; it may come to nothing.
LEMMA AbstractReport ==
    ASSUME NEW status, copy'.desired = copy.desired,
           report'.state = status \/ report'.state = report.state
    PROVE  Agents!Report(Me, status) /\ UnreliableAgents!Report(Me, status)
<1> DEFINE key == <<"role", 1, "role">>
<1>1. key \in MyKeys /\ \A k \in MyKeys : k[1] = "role" <=> k = key
  BY DEF MyKeys
<1>2. CASE report'.state = report.state
  <2>1. AbstractEtcd' = AbstractEtcd
    BY <1>2 DEF AbstractEtcd
  <2> QED BY <2>1 DEF Agents!Report, UnreliableAgents!Report,
                      Agents!storeVars, UnreliableAgents!storeVars
<1>3. CASE report'.state = status
  <2>1. AbstractEtcd' = [AbstractEtcd EXCEPT ![key] = status]
    <3>1. ASSUME NEW k \in MyKeys
          PROVE  AbstractEtcd'[k] = IF k = key THEN status ELSE AbstractEtcd[k]
      <4>1. k[1] \in {"desired", "config", "status", "role"}
        BY DEF MyKeys
      <4> QED BY <1>1, <1>3, <4>1 DEF AbstractEtcd
    <3>2. /\ AbstractEtcd = [k \in MyKeys |-> AbstractEtcd[k]]
          /\ AbstractEtcd' = [k \in MyKeys |-> AbstractEtcd'[k]]
      BY DEF AbstractEtcd, MyKeys
    <3> HIDE DEF key
    <3> QED BY <3>1, <3>2
  <2>2. /\ Agents!RoleKey(Me[1], Me[2]) = key
        /\ UnreliableAgents!RoleKey(Me[1], Me[2]) = key
    BY DEF Me, Agents!RoleKey, UnreliableAgents!RoleKey
  <2>3. Agents!Put(key, status) /\ UnreliableAgents!Put(key, status)
    BY <1>1, <2>1 DEF Agents!Put, UnreliableAgents!Put, Agents!storeVars,
                      UnreliableAgents!storeVars, AbstractEtcd
  <2> QED BY <2>2, <2>3 DEF Agents!Report, UnreliableAgents!Report
<1> QED BY <1>2, <1>3

\* The functions of the abstract worker have one element.
LEMMA OneWorker ==
    ASSUME NEW a, NEW b
    PROVE  /\ [w \in {Me} |-> a][Me] = a
           /\ [w \in {Me} |-> b] = [[w \in {Me} |-> a] EXCEPT ![Me] = b]
OBVIOUS

\* What ImplementsAgents asks of a step, and what it observes.
AbstractStep ==
    \/ HearsOfDesired
    \/ Agents!Observe(Me)
    \/ Agents!AgentStep(Me)
    \/ CutShort /\ (UnreliableAgents!SetFails(Me) \/ UnreliableAgents!GiveUp(Me))

Observed == <<AbstractEtcd, service, last, AbstractRun>>

\* The copy hears of a desired document.
LEMMA DeliverRefines ==
    ASSUME Safe, Deliver PROVE AbstractStep \/ UNCHANGED Observed
<1> DEFINE key == <<"desired", 1>>
<1>1. key \in MyKeys /\ \A k \in MyKeys : k[1] = "desired" <=> k = key
  BY DEF MyKeys
<1>2. UNCHANGED <<service, last, phase, report>> /\ AbstractRun' = AbstractRun
  BY DEF Deliver, runVars, AbstractRun
<1>3. copy'.desired \in Docs
  BY SafeStep DEF Next, Safe, TypeOK, Copies
<1>4. AbstractEtcd' = [AbstractEtcd EXCEPT ![key] = copy'.desired]
  <2>1. ASSUME NEW k \in MyKeys
        PROVE  AbstractEtcd'[k] = IF k = key THEN copy'.desired ELSE AbstractEtcd[k]
    <3>1. k[1] \in {"desired", "config", "status", "role"}
      BY DEF MyKeys
    <3> QED BY <1>1, <1>2, <3>1 DEF AbstractEtcd
  <2>2. /\ AbstractEtcd = [k \in MyKeys |-> AbstractEtcd[k]]
        /\ AbstractEtcd' = [k \in MyKeys |-> AbstractEtcd'[k]]
    BY DEF AbstractEtcd, MyKeys
  <2> HIDE DEF key
  <2> QED BY <2>1, <2>2
<1>5. Agents!Put(Agents!Desired(1), copy'.desired)
  <2>1. Agents!Desired(1) = key
    BY DEF Agents!Desired
  <2>2. AbstractEtcd[key] = copy'.desired => AbstractEtcd' = AbstractEtcd
    BY <1>1, <1>4 DEF AbstractEtcd
  <2> HIDE DEF key
  <2> QED BY <1>4, <2>1, <2>2 DEF Agents!Put, Agents!storeVars
<1>6. UNCHANGED Agents!agentVars
  BY <1>2 DEF Agents!agentVars
<1> QED BY <1>3, <1>5, <1>6 DEF HearsOfDesired, AbstractStep

\* A step that does not touch what a report is made of.
LEMMA Unreported ==
    ASSUME UNCHANGED <<copy, report>>
    PROVE  AbstractEtcd' = AbstractEtcd
BY DEF AbstractEtcd

\* writeStatus, or not: the abstract worker's report may come to nothing.
LEMMA WriteRefines ==
    ASSUME NEW status, WriteStatus(status)
    PROVE  Agents!Report(Me, status) /\ UnreliableAgents!Report(Me, status)
<1>1. copy' = copy /\ report'.state \in {status, report.state}
  BY DEF WriteStatus, PutReport, Report, etcdVars
<1> QED BY <1>1, AbstractReport

\* The worker hears of a document, or starts to check.
LEMMA ReconcileRefines ==
    ASSUME Safe, Smooth, Faultless, Reconcile PROVE AbstractStep \/ UNCHANGED Observed
<1>1. /\ UNCHANGED <<copy, report, service>> /\ AbstractEtcd' = AbstractEtcd
      /\ last' = copy.desired /\ phase' = "wait" /\ copy.desired \in Docs
  BY Unreported DEF Reconcile, Begin, etcdVars, Safe, TypeOK, Copies
<1>2. copy.desired # NoDoc
  BY <1>1, DocTypes
<1>3. AbstractRun' = "probe"
  BY <1>1, <1>2 DEF AbstractRun
<1>4. AbstractEtcd[Agents!Desired(Me[1])] = copy.desired
  BY DEF AbstractEtcd, MyKeys, Me, Agents!Desired
<1>5. CASE last # copy.desired
  <2>1. AbstractRun # "off"
    BY DEF AbstractRun
  <2> QED
    BY <1>1, <1>3, <1>4, <1>5, <2>1, OneWorker
       DEF AbstractStep, Agents!Observe, Agents!Goto, Agents!storeVars
<1>6. CASE last = copy.desired /\ phase = "set"
  <2>1. AbstractRun = "set"
    BY <1>2, <1>6 DEF AbstractRun
  <2>2. UnreliableAgents!SetFails(Me)
    BY <1>1, <1>3, <1>6, <2>1, OneWorker
       DEF UnreliableAgents!SetFails, UnreliableAgents!Goto, UnreliableAgents!storeVars, Me
  <2>3. CutShort
    BY <1>1, <1>6 DEF CutShort, Smooth
  <2> QED BY <2>2, <2>3 DEF AbstractStep
<1>7. CASE last = copy.desired /\ phase # "set"
  <2>1. AbstractRun = "probe"
    BY <1>2, <1>7 DEF AbstractRun
  <2> QED BY <1>1, <1>3, <1>7, <2>1 DEF Observed
<1> QED BY <1>5, <1>6, <1>7

\* The run: what it reports, sets and forces is what the abstract one does.
LEMMA RunRefines ==
    ASSUME Safe, Smooth, Faultless, RunStep PROVE AbstractStep \/ UNCHANGED Observed
<1> USE DEF Smooth, Goto, GoOn, FinishWith
<1>1. last' = last
  BY DEF RunStep
<1>2. ASSUME UNCHANGED etcdVars PROVE AbstractEtcd' = AbstractEtcd
  BY <1>2, Unreported DEF etcdVars
<1>3. ASSUME UNCHANGED <<etcdVars, service>>, AbstractRun' = AbstractRun
      PROVE  UNCHANGED Observed
  BY <1>1, <1>2, <1>3 DEF Observed
<1>4. phase # "idle" => last # NoDoc
  BY DEF Safe
<1>5. ASSUME phase # "idle" PROVE AbstractRun = IF phase = "set" THEN "set" ELSE "probe"
  BY <1>4, <1>5 DEF AbstractRun
<1>6. ASSUME phase # "idle" PROVE AbstractRun' = IF phase' = "set" THEN "set" ELSE "probe"
  BY <1>1, <1>4, <1>6 DEF AbstractRun
<1>7. CASE WaitForSessionLease
  BY <1>3, <1>5, <1>6, <1>7 DEF WaitForSessionLease
<1>8. CASE ProbeOk
  BY <1>3, <1>5, <1>6, <1>8 DEF ProbeOk
<1>9. CASE ProbeMiss
  <2>1. CASE phase' = "set"
    <3>1. AbstractRun = "probe" /\ AbstractRun' = "set" /\ service # last.state /\ last.managed
          /\ UNCHANGED <<service, copy, report>>
      BY <1>5, <1>6, <1>9, <2>1 DEF ProbeMiss, Miss, etcdVars
    <3>2. Agents!Report(Me, Transition(last.state))
      BY <3>1, AbstractReport
    <3>3. Agents!ProbeMismatch(Me)
      BY <1>1, <3>1, <3>2, OneWorker DEF Agents!ProbeMismatch, Agents!Goto, Transition
    <3> QED BY <3>3 DEF AbstractStep, Agents!AgentStep
  <2>2. CASE phase' # "set"
    BY <1>3, <1>5, <1>6, <1>9, <2>2 DEF ProbeMiss
  <2> QED BY <2>1, <2>2
<1>10. CASE NotifyTransition
  <2>1. AbstractRun = "probe" /\ AbstractRun' = "set" /\ service # last.state /\ last.managed
        /\ UNCHANGED service
    BY <1>5, <1>6, <1>10 DEF NotifyTransition
  <2>2. Agents!Report(Me, Transition(last.state))
    BY <1>10, WriteRefines DEF NotifyTransition
  <2>3. Agents!ProbeMismatch(Me)
    BY <1>1, <2>1, <2>2, OneWorker DEF Agents!ProbeMismatch, Agents!Goto, Transition
  <2> QED BY <2>3 DEF AbstractStep, Agents!AgentStep
<1>11. CASE RunSet
  <2>1. AbstractRun = "set" /\ AbstractRun' = "probe" /\ AbstractEtcd' = AbstractEtcd
    BY <1>2, <1>5, <1>6, <1>11 DEF RunSet
  <2>2. CASE service' = last.state
    <3>1. Agents!SetService(Me)
      BY <1>1, <2>1, <2>2, OneWorker DEF Agents!SetService, Agents!Goto, Agents!storeVars
    <3> QED BY <3>1 DEF AbstractStep, Agents!AgentStep
  <2>3. CASE service' = service
    <3>1. UnreliableAgents!SetFails(Me)
      BY <1>1, <2>1, <2>3, OneWorker
         DEF UnreliableAgents!SetFails, UnreliableAgents!Goto, UnreliableAgents!storeVars, Me
    <3>2. CutShort
      BY <1>1, <1>11, <2>3 DEF CutShort, RunSet
    <3> QED BY <3>1, <3>2 DEF AbstractStep
  <2> QED BY <1>11, <2>2, <2>3 DEF RunSet
<1>12. CASE Retry
  BY <1>3, <1>5, <1>6, <1>12 DEF Retry
<1>13. CASE ForceStop
  <2>1. AbstractRun = "probe" /\ AbstractRun' = "probe" /\ service' = "passive"
        /\ last = Doc("passive", TRUE) /\ UNCHANGED <<copy, report>>
    <3>1. last \in Docs /\ last.state = "passive" /\ last.managed
      BY <1>4, <1>13 DEF ForceStop, Safe, TypeOK
    <3> QED BY <1>5, <1>6, <1>13, <3>1 DEF ForceStop, Docs, Doc, etcdVars
  <2>2. UnreliableAgents!Report(Me, "failed")
    BY <2>1, AbstractReport
  <2>3. UnreliableAgents!GiveUp(Me)
    BY <1>1, <2>1, <2>2, OneWorker
       DEF UnreliableAgents!GiveUp, UnreliableAgents!Goto, UnreliableAgents!Doc, Doc, Me
  <2>4. CutShort
    BY <1>13 DEF CutShort, ForceStop
  <2> QED BY <2>3, <2>4 DEF AbstractStep
<1>14. CASE WriteFinal
  <2>1. AbstractRun = "probe" /\ AbstractRun' = "probe" /\ UNCHANGED service
    BY <1>5, <1>6, <1>14 DEF WriteFinal
  <2>2. Agents!Report(Me, verdict) /\ UnreliableAgents!Report(Me, verdict)
    BY <1>14, WriteRefines DEF WriteFinal
  <2>3. CASE verdict = "failed" /\ (last.managed \/ script = "mangled")
    <3>1. UnreliableAgents!GiveUp(Me)
      BY <1>1, <2>1, <2>2, <2>3, OneWorker DEF UnreliableAgents!GiveUp, UnreliableAgents!Goto, Me
    <3>2. CutShort
      BY <1>14, <2>3 DEF CutShort, WriteFinal
    <3> QED BY <3>1, <3>2 DEF AbstractStep
  <2>4. CASE verdict = "failed" /\ ~last.managed /\ service # last.state
    <3>1. Agents!ProbeMismatch(Me)
      BY <1>1, <2>1, <2>2, <2>4, OneWorker DEF Agents!ProbeMismatch
    <3> QED BY <3>1 DEF AbstractStep, Agents!AgentStep
  <2>5. CASE verdict = last.state /\ service = last.state
    <3>1. Agents!ProbeOk(Me)
      BY <1>1, <2>1, <2>2, <2>5, OneWorker DEF Agents!ProbeOk
    <3> QED BY <3>1 DEF AbstractStep, Agents!AgentStep
  <2> QED BY <1>14, <2>3, <2>4, <2>5 DEF WriteFinal
<1> QED
  BY <1>7, <1>8, <1>9, <1>10, <1>11, <1>12, <1>13, <1>14 DEF RunStep

\* Every step before the first fault.
LEMMA StepRefines ==
    ASSUME Safe, Smooth, [Next]_vars, Faultless'
    PROVE  AbstractStep \/ UNCHANGED Observed
<1>1. Faultless
  BY FaultsStay
<1>2. ASSUME UNCHANGED <<copy, report, service, last>>, AbstractRun' = AbstractRun
      PROVE  UNCHANGED Observed
  BY <1>2, Unreported DEF Observed
<1>3. CASE ChangeDesired \/ SessionStep
  BY <1>2, <1>3 DEF ChangeDesired, SessionStep, etcdVars, runVars, AbstractRun
<1>4. ASSUME NEW l \in Leases, AbandonedLeaseExpires(l) PROVE FALSE
  BY <1>1, <1>4 DEF AbandonedLeaseExpires, Abandoned, DropLease, Expires, Faultless, Smooth,
                    Safe, TypeOK, SessionTypeOK
<1>5. CASE Tick
  <2>1. UNCHANGED <<copy, report, service, last>>
    BY <1>5 DEF Tick, Advance, etcdVars
  <2>2. phase' = IF phase = "sleep" THEN "retry" ELSE phase
    BY <1>5 DEF Tick, Advance, Goto
  <2> QED BY <1>2, <2>1, <2>2 DEF AbstractRun
<1>6. ~LateCommits /\ ~OrphanActs
  BY <1>1 DEF Smooth, LateCommits, OrphanActs
<1>7. CASE UNCHANGED vars
  BY <1>2, <1>7 DEF vars, etcdVars, runVars, AbstractRun
<1> QED
  BY <1>1, <1>3, <1>4, <1>5, <1>6, <1>7, FaultsStay, DeliverRefines, ReconcileRefines, RunRefines
     DEF Next

\* Until the first fault or death every step of a worker is one that it cannot
\* see, or one of the worker that the switchover is checked and proved with:
\* of the one of Planned, which never fails, unless the set actor fails, is cut
\* off or the run gives up, and of Failover's unreliable one then.
THEOREM Refines == Spec => ImplementsAgents
<1>1. Init => Smooth
  BY DEF Init, SessionInit, Smooth
<1>2. Safe /\ Smooth /\ [Next]_vars =>
        [faults' = 0 /\ starts' = 1 /\ sess' # "down"
           => \/ HearsOfDesired
              \/ Agents!Observe(Me)
              \/ Agents!AgentStep(Me)
              \/ CutShort /\ (UnreliableAgents!SetFails(Me) \/ UnreliableAgents!GiveUp(Me))
        ]_<<AbstractEtcd, service, last, AbstractRun>>
  BY StepRefines DEF Faultless, AbstractStep, Observed
<1>3. Safe /\ Smooth /\ [Next]_vars => Safe' /\ Smooth'
  BY SafeStep, SmoothStep
<1>4. Init => Safe
  BY SafeInit
<1> QED BY <1>1, <1>2, <1>3, <1>4, PTL DEF Spec, ImplementsAgents

=============================================================================
