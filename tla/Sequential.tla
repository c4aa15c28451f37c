------------------------------ MODULE Sequential ------------------------------
(***************************************************************************)
(* The parts of the program that run alone, one behaviour after the other: *)
(* a behaviour is of one task, and the state of the others stays what it   *)
(* was.  Each task has its own module, and starts in any of its states.    *)
(***************************************************************************)
EXTENDS SymmetricPorts, HeaderRewrite, Launch, PemSplit, Labels

Tasks == {"ports", "header", "launch", "pem", "label"}

VARIABLE task

\* A task that is not run has one state.
Idle ==
    /\ task # "ports" => port = 1 /\ i = 0
    /\ task # "header" =>
          /\ received = <<>> /\ header = NoHeader /\ tool = FALSE /\ wire = <<>>
          /\ headerStage = ""
    /\ task # "launch" =>
          opts = <<>> /\ launchStage = "" /\ call = NoCall /\ code = 0 /\ run = NoRun
    /\ task # "pem" =>
          /\ lines = <<>> /\ read = 0
          /\ certificates = <<>> /\ current_cert = <<>> /\ in_certificate = FALSE
    /\ task # "label" => text = <<>> /\ labelStage = "text" /\ mac = NoMac /\ printed = <<>>

SequentialInit ==
    /\ task \in Tasks
    /\ Idle
    /\ task = "ports" => Init
    /\ task = "header" => HeaderInit
    /\ task = "launch" => LaunchInit
    /\ task = "pem" => PemInit
    /\ task = "label" => LabelInit

SequentialNext ==
    \/ /\ task = "ports" /\ Next
       /\ UNCHANGED <<task, headerVars, launchVars, pemVars, labelVars>>
    \/ /\ task = "header" /\ HeaderNext
       /\ UNCHANGED <<task, vars, launchVars, pemVars, labelVars>>
    \/ /\ task = "launch" /\ LaunchNext
       /\ UNCHANGED <<task, vars, headerVars, pemVars, labelVars>>
    \/ /\ task = "pem" /\ PemNext
       /\ UNCHANGED <<task, vars, headerVars, launchVars, labelVars>>
    \/ /\ task = "label" /\ LabelNext
       /\ UNCHANGED <<task, vars, headerVars, launchVars, pemVars>>

SequentialSpec ==
    /\ SequentialInit
    /\ [][SequentialNext]_<<task, vars, headerVars, launchVars, pemVars, labelVars>>

\* The types of each part, where it is the one that runs.
SequentialTypeOK ==
    /\ task \in Tasks
    /\ task = "ports" => TypeOK
    /\ task = "header" => HeaderTypeOK
    /\ task = "launch" => LaunchTypeOK
    /\ task = "pem" => PemTypeOK
    /\ task = "label" => LabelTypeOK
==============================================================================
