------------------------------- MODULE Progress -------------------------------
(***************************************************************************)
(* Three components that must come to an end, each under its own fairness.  *)
(* They share no state and a behaviour moves one of them, chosen at its     *)
(* start.  WorkspaceLock is the module extended; the others are instances,  *)
(* with variables renamed where names meet.                                 *)
(***************************************************************************)
EXTENDS WorkspaceLock

CONSTANTS
    \* LegacyJobs
    Jobs, Workers, MaxTools,
    \* ProcessSupervisor
    Ops, Kinds

VARIABLES
    subject,   \* the component this behaviour is about
    \* LegacyJobs
    closing, fault, dirty, job, tools, shown, journal, broker, consent, close,
    \* ProcessSupervisor
    platform, op, tree, reader, term, kills, open, registered, failed,
    process_closing, process_close

Legacy == INSTANCE LegacyJobs
Supervisor == INSTANCE ProcessSupervisor WITH
    closing <- process_closing, close <- process_close

ASSUME ProgressAssumption == Supervisor!KindsAreKnown

jobsVars == <<closing, fault, dirty, job, tools, shown, journal, broker,
              consent, close>>
processVars == <<platform, op, tree, reader, term, kills, open, registered,
                 failed, process_closing, process_close>>

allVars == <<subject, vars, jobsVars, processVars>>

Subjects == {"lock", "jobs", "process"}

\* One component moves in a behaviour; the others rest where they start.
SumInit ==
    /\ subject \in Subjects
    /\ Init
    /\ Legacy!Init
    /\ Supervisor!Init

SumNext ==
    \/ /\ subject = "lock" /\ Next
       /\ UNCHANGED <<subject, jobsVars, processVars>>
    \/ /\ subject = "jobs" /\ Legacy!Next
       /\ UNCHANGED <<subject, vars, processVars>>
    \/ /\ subject = "process" /\ Supervisor!Next
       /\ UNCHANGED <<subject, vars, jobsVars>>

\* The fairness of each component, for the behaviours that are about it.
SumFairness ==
    /\ \A t \in Tasks : /\ WF_vars(subject = "lock" /\ (Resume(t) \/ Abandon(t)))
                       /\ WF_vars(subject = "lock" /\ Release(t))
    /\ WF_jobsVars(subject = "jobs" /\ Legacy!Closer)
    /\ \A j \in Jobs :
          /\ WF_jobsVars(subject = "jobs" /\ Legacy!Worker(j))
          /\ WF_jobsVars(subject = "jobs" /\ (Legacy!Refuse(j) \/ Legacy!Accept(j) \/ Legacy!Submit(j)))
    /\ WF_processVars(subject = "process" /\ Supervisor!CloseSteps)
    /\ \A o \in Ops :
          /\ WF_processVars(subject = "process"
                            /\ (Supervisor!OverflowKills(o) \/ Supervisor!OverflowKillFails(o)))
          /\ WF_processVars(subject = "process" /\ Supervisor!CallSteps(o))

SumSpec == SumInit /\ [][SumNext]_allVars /\ SumFairness

----------------------------------------------------------------------------
(* web/server.py: when the jobs' manager is closed, no thread works, and     *)
(* every job has the status and the journal that tell how it ended.          *)
JobsAreAccounted == subject = "jobs" => Legacy!JobsAreAccounted

(* close_owned ends, whatever approvals are asked for while it runs.         *)
CloseEnds == Legacy!CloseEnds

(* process_supervisor.py: a supervised tree is let go of only when it is     *)
(* proved gone, and is terminated at most once.                              *)
ReleaseNeedsProof == subject = "process" => Supervisor!TypeOK /\ Supervisor!ReleaseNeedsProof

(* close returns, with every call's pipes closed or reported.                *)
CloseReturns == Supervisor!CloseReturns
==============================================================================
