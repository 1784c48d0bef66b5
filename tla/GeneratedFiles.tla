--------------------------- MODULE GeneratedFiles ---------------------------
(* Names the dashboard chooses for the recording or outcome file of a run    *)
(* whose path was left blank (internal/webui/outcome_paths.go, and the path  *)
(* of the setting through handleStartRun). The setting is one of the three;  *)
(* a run whose setting is "kept" sends it as the page shows it, or not at all. *)
EXTENDS Naturals, FiniteSets

CONSTANTS
    FileNames,      \* names the server can choose
    UserFile,       \* a name of the user
    MaxFileStarts,  \* bound
    NameAttempts    \* maxOutcomeNameAttempts

ASSUME FilesAssumption ==
    UserFile \notin FileNames /\ "" \notin FileNames \cup {UserFile} /\ MaxFileStarts \in Nat

VARIABLES
    appPath,        \* the path in s.AppConfig; "" is blank
    chosen,         \* the paths in s.generated
    slotOf,         \* the start that holds s.IsRunning, 0 when free
    starts,         \* starts[n]: the start request and its run
    fileDisk,       \* fileDisk[f]: "none", "empty", "data"
    wroteTo         \* wroteTo[f]: the starts whose data the file got (history)

fileVars == <<appPath, chosen, slotOf, starts, fileDisk, wroteTo>>

AllFiles == FileNames \cup {UserFile}
StartNos == 1..MaxFileStarts
NoStart  == [at |-> "none", path |-> "", made |-> {}, tries |-> 0, blank |-> FALSE]

FTypeOK ==
    /\ {appPath} \cup chosen \subseteq AllFiles \cup {""}
    /\ slotOf \in 0..MaxFileStarts
    /\ starts \in [StartNos ->
          [at : {"none", "check", "reserve", "connect", "run", "ended"}, path : AllFiles \cup {""},
           made : SUBSET FileNames, tries : 0..NameAttempts, blank : BOOLEAN]]
    /\ fileDisk \in [AllFiles -> {"none", "empty", "data"}]
    /\ wroteTo \in [AllFiles -> SUBSET StartNos]

FInit ==
    /\ appPath \in {"", UserFile} /\ chosen = {} /\ slotOf = 0
    /\ starts = [n \in StartNos |-> NoStart]
    /\ fileDisk = [f \in AllFiles |-> "none"] /\ wroteTo = [f \in AllFiles |-> {}]

\* forgetGeneratedPaths: what the page and later starts see of the setting.
Shown == IF appPath \in chosen THEN "" ELSE appPath
Submitted == {"", UserFile, Shown}

BeginStart(n, path) ==
    /\ slotOf = 0 /\ starts[n].at = "none" /\ \A m \in 1..n-1 : starts[m].at # "none"
    /\ slotOf' = n
    /\ starts' = [starts EXCEPT ![n] = [NoStart EXCEPT !.at = "check", !.path = path,
                                                       !.blank = path = ""]]
    /\ UNCHANGED <<appPath, chosen, fileDisk, wroteTo>>

\* abortRun: the slot is free, also when a later start has it.
Aborted(n) == slotOf' = 0 /\ starts' = [starts EXCEPT ![n].at = "ended"]

\* A setting of the form is invalid: nothing was reserved yet.
Invalid(n) ==
    /\ starts[n].at = "check" /\ Aborted(n)
    /\ UNCHANGED <<appPath, chosen, fileDisk, wroteTo>>

Valid(n) ==
    /\ starts[n].at = "check"
    /\ starts' = [starts EXCEPT ![n].at = IF starts[n].path = "" THEN "reserve" ELSE "connect"]
    /\ UNCHANGED <<appPath, chosen, slotOf, fileDisk, wroteTo>>

\* reserveGenerated: a name that exists is replaced by another, some times.
ReserveIf(n, f, free) ==
    /\ starts[n].at = "reserve"
    /\ IF free
       THEN /\ fileDisk' = [fileDisk EXCEPT ![f] = "empty"]
            /\ chosen' = {f}
            /\ starts' = [starts EXCEPT ![n] = [@ EXCEPT !.at = "connect", !.path = f, !.made = {f}]]
            /\ UNCHANGED slotOf
       ELSE /\ IF starts[n].tries + 1 < NameAttempts
               THEN starts' = [starts EXCEPT ![n].tries = @ + 1] /\ UNCHANGED slotOf
               ELSE Aborted(n)
            /\ UNCHANGED <<fileDisk, chosen>>
    /\ UNCHANGED <<appPath, wroteTo>>

\* A plausible mistake: the file is created without O_EXCL.
ReserveAnyway(n, f) == ReserveIf(n, f, TRUE)
Reserve(n, f) == ReserveIf(n, f, fileDisk[f] = "none")

\* removeEmptyFiles
WithoutEmpty(made) == [f \in AllFiles |-> IF f \in made /\ fileDisk[f] = "empty" THEN "none" ELSE fileDisk[f]]

\* A step between the reservation and the launch fails, the connection too.
ConnectFails(n) ==
    /\ starts[n].at = "connect" /\ Aborted(n)
    /\ fileDisk' = WithoutEmpty(starts[n].made)
    /\ UNCHANGED <<appPath, chosen, wroteTo>>

Launch(n) ==
    /\ starts[n].at = "connect"
    /\ appPath' = starts[n].path
    /\ starts' = [starts EXCEPT ![n].at = "run"]
    /\ UNCHANGED <<chosen, slotOf, fileDisk, wroteTo>>

\* The writer opens its file with O_TRUNC; the run may fail before.
WriteFile(n) ==
    LET f == starts[n].path IN
    /\ starts[n].at = "run" /\ n \notin wroteTo[f]
    /\ fileDisk' = [fileDisk EXCEPT ![f] = "data"]
    /\ wroteTo' = [wroteTo EXCEPT ![f] = @ \cup {n}]
    /\ UNCHANGED <<appPath, chosen, slotOf, starts>>

\* The goroutine ends: the slot is freed, then the deferred removal.
EndWith(n, files) ==
    /\ starts[n].at = "run"
    /\ slotOf' = 0 /\ starts' = [starts EXCEPT ![n].at = "ended"]
    /\ fileDisk' = files
    /\ UNCHANGED <<appPath, chosen, wroteTo>>

\* A plausible mistake: the run removes what it made although it wrote to it.
EndRemovingAll(n) == EndWith(n, [f \in AllFiles |-> IF f \in starts[n].made THEN "none" ELSE fileDisk[f]])
EndRun(n) == EndWith(n, WithoutEmpty(starts[n].made))

\* handleStop frees the slot at once.
StopFiles ==
    /\ slotOf # 0 /\ slotOf' = 0
    /\ UNCHANGED <<appPath, chosen, starts, fileDisk, wroteTo>>

FileNext ==
    \/ \E n \in StartNos :
           \/ \E path \in Submitted : BeginStart(n, path)
           \/ Invalid(n) \/ Valid(n) \/ ConnectFails(n) \/ Launch(n) \/ WriteFile(n) \/ EndRun(n)
           \/ \E f \in FileNames : Reserve(n, f)
    \/ StopFiles

FileSpec == FInit /\ [][FileNext]_fileVars

-----------------------------------------------------------------------------
Ended(n) == starts[n].at = "ended"

\* A run whose path was blank gets a file no run wrote before; no other run with
\* a blank path writes to it ever, what a run wrote stays, and reserved files
\* that nobody wrote go with their run, whatever was stopped or failed between.
GeneratedFilesKept ==
    \A f \in FileNames :
        /\ Cardinality({n \in wroteTo[f] : starts[n].blank}) <= 1
        /\ wroteTo[f] # {} => fileDisk[f] = "data"
        /\ (\A n \in StartNos : f \in starts[n].made => Ended(n)) => fileDisk[f] # "empty"

\* "A name generated for an earlier run is never reused."
NameNeverReused == \A f \in FileNames : Cardinality(wroteTo[f]) <= 1
=============================================================================
