------------------------------ MODULE LogStream ------------------------------
(***************************************************************************)
(* What logData() promises whoever reads the file: the records are taken   *)
(* one after the other, the file is always a prefix of them, and a log     *)
(* ends in one of three ways, each with a limit on what is missing from    *)
(* the end of the file.  Buffers, queues and the card's timing are         *)
(* invisible here; LogBuffers implements this specification.               *)
(***************************************************************************)
EXTENDS Integers, Sequences

CONSTANTS Messages,     \* in the order of their arrival
          SilentLoss,   \* records a log ended by a silent bus may lack
          FullLoss      \* ... and one ended by a full file

VARIABLES recorded, file, phase

streamVars == <<recorded, file, phase>>

StreamInit ==
    /\ recorded = <<>>
    /\ file = <<>>
    /\ phase = "logging"

Record ==
    /\ phase = "logging"
    /\ \E m \in Messages :
         /\ \A i \in DOMAIN recorded : recorded[i] < m
         /\ recorded' = Append(recorded, m)
    /\ UNCHANGED <<file, phase>>

\* Some more of the records, in order, reach the file; perhaps they fill it.
Save ==
    /\ phase \in {"logging", "stopped", "silent"}
    /\ \E k \in Len(file) .. Len(recorded) : file' = SubSeq(recorded, 1, k)
    /\ phase' \in {phase, "full"}
    /\ UNCHANGED recorded

Stop ==
    /\ phase \in {"logging", "silent"}
    /\ phase' = "stopped"
    /\ UNCHANGED <<recorded, file>>

GoSilent ==
    /\ phase = "logging"
    /\ phase' = "silent"
    /\ UNCHANGED <<recorded, file>>

Missing == Len(recorded) - Len(file)

Close ==
    /\ \/ phase = "stopped" /\ Missing = 0
       \/ phase = "silent" /\ Missing <= SilentLoss
       \/ phase = "full" /\ Missing <= FullLoss
    /\ phase' = "closed"
    /\ UNCHANGED <<recorded, file>>

Fail ==
    /\ phase \notin {"closed", "failed"}
    /\ phase' = "failed"
    /\ UNCHANGED <<recorded, file>>

StreamNext == Record \/ Save \/ Stop \/ GoSilent \/ Close \/ Fail

StreamSpec == StreamInit /\ [][StreamNext]_streamVars
=============================================================================
