-------------------------------- MODULE Process --------------------------------
(***************************************************************************)
(* The life of the aos_vis process, as the adapters that keep a file see   *)
(* it: main creates the VIS server, whose data provider creates the        *)
(* enabled adapters one after the other in the order of the configuration; *)
(* if one fails the process exits.  SIGTERM runs Close and returns from    *)
(* main; the process may also crash at any point, New included.            *)
(*                                                                         *)
(* The VIN and the unit model adapter read one value from a file, and make *)
(* one up and write it if the file cannot be read, for whatever reason.    *)
(* The subjects adapter is the module SubjectsAdapter.  What a process has *)
(* written is in the file after its end.                                   *)
(***************************************************************************)
EXTENDS SubjectsAdapter

CONSTANTS
    Files,          \* the adapters of one value: VIN and unit model
    TheSubjects,    \* the subjects adapter
    Order,          \* the enabled adapters, in the order of the configuration;
                    \* the subjects adapter is one of them
    ValuesOf,       \* [Files -> sets of values]: what a file may hold
    Generated,      \* [Files -> sets of values]: what New may make up; two random
                    \* VINs may be the same
    NoFile          \* there is no file

ASSUME ProcessAssumption ==
    /\ TheSubjects \notin Files
    /\ Order \in Seq(Files \cup {TheSubjects})
    /\ TheSubjects \in Range(Order)
    /\ \A f \in Files : Generated[f] \subseteq ValuesOf[f]
    /\ NoFile \notin [value : UNION {ValuesOf[f] : f \in Files}, whole : BOOLEAN]

VARIABLES
    process,        \* "down", "starting", "up", "closed" (Close has returned)
    created,        \* how many adapters of Order there are
    stored,         \* content of the files
    making,         \* the value that New makes up and writes, or Nothing
    opened,         \* New has opened, and emptied, the file for it
    waiting,        \* a set request waits for the VIS server's mutex when Close
                    \* gets it
    \* What clients see, and a history variable after the process's end:
    served,         \* the value of an adapter
    \* History variables:
    misread,        \* adapters whose file was there, and reading it failed, since
                    \* they were last created from a file read or written in whole
    cut             \* files whose last writing was not completed

fileVars == <<stored, making, opened, served, misread, cut>>
vars == <<subjectsVars, process, created, waiting, fileVars>>

\* What can be in a file: a value, or what there is of it after a writing that was
\* cut short, be it nothing.
Whole(v) == [value |-> v, whole |-> TRUE]
Part(v)  == [value |-> v, whole |-> FALSE]

Init ==
    /\ SubjectsInit
    /\ process = "down" /\ created = 0 /\ waiting = FALSE
    /\ stored \in {s \in [Files -> {NoFile} \cup {Whole(v) : v \in UNION {ValuesOf[f] : f \in Files}}] :
                      \A f \in Files : s[f] = NoFile \/ s[f].value \in ValuesOf[f]}
    /\ making = Nothing /\ opened = FALSE
    /\ served = [f \in Files |-> Nothing]
    /\ misread = {} /\ cut = {}

\* The adapter whose New is running.
Creating(a) == process = "starting" /\ created < Len(Order) /\ Order[created + 1] = a

-----------------------------------------------------------------------------
(* The end *)

\* log.Fatal, the return of main, or a crash; c are the files it cuts.
Ends(c) ==
    /\ process' = "down" /\ created' = 0 /\ waiting' = FALSE
    /\ making' = Nothing /\ opened' = FALSE
    /\ cut' = cut \cup c
    /\ Forgotten
    /\ UNCHANGED <<stored, served, misread>>

BeingWritten == {f \in Files : Creating(f) /\ opened}

\* At any point; after Close also because main returns, whoever still runs.
End == process # "down" /\ Ends(BeingWritten)

-----------------------------------------------------------------------------
(* Start: main, visserver.New, dataprovider.New, createAdapter *)

Start ==
    /\ process = "down"
    /\ process' = "starting"
    /\ UNCHANGED <<subjectsVars, created, waiting, fileVars>>

\* The file is read.
ReadFile(f) ==
    /\ Creating(f) /\ making = Nothing
    /\ stored[f] # NoFile
    /\ served' = [served EXCEPT ![f] = stored[f]]
    /\ misread' = misread \ {f}
    /\ created' = created + 1
    /\ UNCHANGED <<subjectsVars, process, waiting, stored, making, opened, cut>>

\* The file is not there, or cannot be read just now: New makes up a value.
ReadFails(f) ==
    /\ Creating(f) /\ making = Nothing
    /\ making' \in Generated[f]
    /\ misread' = IF stored[f] = NoFile THEN misread ELSE misread \cup {f}
    /\ UNCHANGED <<subjectsVars, process, created, waiting, stored, opened, served, cut>>

OpenFile(f) ==
    /\ Creating(f) /\ making # Nothing /\ ~ opened
    /\ opened' = TRUE
    /\ stored' = [stored EXCEPT ![f] = Part(making)]
    /\ UNCHANGED <<subjectsVars, process, created, waiting, making, served, misread, cut>>

\* MkdirAll fails, or the file cannot be opened.
OpenFails(f) == Creating(f) /\ making # Nothing /\ ~ opened /\ Ends({})

\* The value is written and the adapter is there.  The slip is to keep it in
\* memory only, because nothing is written or the error is ignored.
KeepValue(f) ==
    /\ Creating(f) /\ opened
    /\ served' = [served EXCEPT ![f] = Whole(making)]
    /\ cut' = cut \ {f} /\ misread' = misread \ {f}
    /\ making' = Nothing /\ opened' = FALSE
    /\ created' = created + 1
    /\ UNCHANGED <<subjectsVars, process, waiting, stored>>
WriteValue(f) ==
    /\ Creating(f) /\ opened
    /\ stored' = [stored EXCEPT ![f] = Whole(making)]
    /\ served' = [served EXCEPT ![f] = Whole(making)]
    /\ cut' = cut \ {f} /\ misread' = misread \ {f}
    /\ making' = Nothing /\ opened' = FALSE
    /\ created' = created + 1
    /\ UNCHANGED <<subjectsVars, process, waiting>>

\* The write fails half way, and New with it.
WriteValueFails(f) == Creating(f) /\ opened /\ Ends({f})

\* readSubjects: the file is read, to its end or to the first line that is too
\* long ...
ReadSubjects ==
    /\ Creating(TheSubjects) /\ file # Absent
    /\ Created(Stored)
    /\ misread' = misread \ {TheSubjects}
    /\ created' = created + 1
    /\ UNCHANGED <<process, waiting, stored, making, opened, served, cut>>

\* ... or reading fails and it ends earlier, at the latest where the file cannot be
\* opened.
MisreadSubjects ==
    /\ Creating(TheSubjects) /\ file # Absent
    /\ \E n \in 0 .. Len(Stored) : Created(SubSeq(Stored, 1, n))
    /\ misread' = misread \cup {TheSubjects}
    /\ created' = created + 1
    /\ UNCHANGED <<process, waiting, stored, making, opened, served, cut>>

NoSubjectsFile ==
    /\ Creating(TheSubjects) /\ file = Absent
    /\ Created(<<>>)
    /\ created' = created + 1
    /\ UNCHANGED <<process, waiting, fileVars>>

\* MkdirAll fails after the file could not be opened.
MkdirFails == Creating(TheSubjects) /\ Ends({})

\* Every adapter is there, and the web socket server listens.
Listen ==
    /\ process = "starting" /\ created = Len(Order)
    /\ process' = "up"
    /\ UNCHANGED <<subjectsVars, created, waiting, fileVars>>

-----------------------------------------------------------------------------
(* Requests, and Close *)

Running == process \in {"up", "closed"}

\* A set request gets the mutex; after Close only one that waited for it.
Set ==
    /\ \/ process = "up"
       \/ process = "closed" /\ waiting
    /\ SetData
    /\ waiting' = FALSE
    /\ UNCHANGED <<process, created, fileVars>>

Continue == Running /\ SubjectsStep /\ UNCHANGED <<process, created, waiting, fileVars>>

\* SIGTERM: Close gets the mutex, so no request is under way, and returns.
Close ==
    /\ process = "up" /\ pc = "idle"
    /\ process' = "closed"
    /\ waiting' \in BOOLEAN
    /\ UNCHANGED <<subjectsVars, created, fileVars>>

-----------------------------------------------------------------------------
Next ==
    \/ Start \/ Listen \/ Set \/ Continue \/ Close \/ End
    \/ \E f \in Files : ReadFile(f) \/ ReadFails(f) \/ OpenFile(f) \/ OpenFails(f)
                        \/ WriteValue(f) \/ WriteValueFails(f)
    \/ ReadSubjects \/ MisreadSubjects \/ NoSubjectsFile \/ MkdirFails

Spec == Init /\ [][Next]_vars

-----------------------------------------------------------------------------
(* Properties *)

\* The variables of the adapters of one value have their types.
FilesTypeOK ==
    /\ stored \in [Files -> {NoFile} \cup [value : UNION {ValuesOf[f] : f \in Files}, whole : BOOLEAN]]
    /\ \A f \in Files :
          /\ stored[f] \in {NoFile} \cup [value : ValuesOf[f], whole : BOOLEAN]
          /\ served[f] \in {Nothing} \cup [value : ValuesOf[f], whole : BOOLEAN]
          /\ Creating(f) => making \in {Nothing} \cup Generated[f]
    /\ DOMAIN served = Files
    /\ opened \in BOOLEAN
    /\ misread \subseteq Files \cup {TheSubjects} /\ cut \subseteq Files

\* Every variable has its type.
TypeOK ==
    /\ SubjectsTypeOK /\ FilesTypeOK
    /\ process \in {"down", "starting", "up", "closed"}
    /\ created \in 0 .. Len(Order)
    /\ waiting \in BOOLEAN

\* A vehicle keeps its VIN and its unit model: through failed starts, crashes and
\* restarts what clients are served is what they were served before, unless at a
\* start since then the file was there and could not be read.
ValuesPermanent ==
    [][\A f \in Files : served[f] # Nothing /\ f \notin misread => served'[f] = served[f]]_vars

\* A value that is served in part was cut by a crash or by a write that failed
\* and that the process did not survive; a start that goes on has written it all.
ServedInWhole ==
    \A f \in Files : served[f] # Nothing /\ f \notin cut => served[f].whole

\* What is not written in whole was cut, or is being written.
PartsAreCut ==
    \A f \in Files : stored[f] # NoFile /\ f \notin cut =>
        stored[f].whole \/ f \in BeingWritten

\* The file holds what is served, unless it was there and could not be read; while
\* a value that is to replace a served one is made up, that has happened.
FilesHoldServed ==
    \A f \in Files : served[f] # Nothing =>
        /\ stored[f] # NoFile
        /\ f \notin misread => stored[f] = served[f]
        /\ Creating(f) /\ making # Nothing => f \in misread

\* The inductive invariant behind ServedInWhole and ValuesPermanent.
FilesInv ==
    /\ FilesTypeOK
    /\ opened => making # Nothing
    /\ making # Nothing => \E f \in Files : Creating(f)
    /\ PartsAreCut
    /\ FilesHoldServed
    /\ ServedInWhole

\* What SetData acknowledged is there when the server listens again, unless
\* another SetData has begun to write or reading failed at this start, whatever
\* was refused, failed to open the file, or made other starts fail since.
AckedSurvives ==
    [][Listen /\ acked # Nothing /\ TheSubjects \notin misread
           => (OneLineEach(acked) => subjects' = acked)]_vars

\* What a start has read of an acknowledged list, whatever its strings, unless reading
\* failed: the lines of these strings, to the first that the scanner does not take.
AckedIsRead ==
    process = "starting" /\ (\E i \in 1 .. created : Order[i] = TheSubjects)
        /\ acked # Nothing /\ TheSubjects \notin misread
    => /\ Len(subjects) <= Len(Lines(acked))
       /\ \A i \in 1 .. Len(subjects) :
              subjects[i] = Lines(acked)[i] /\ subjects[i] \notin TooLong
       /\ Len(subjects) < Len(Lines(acked)) => Lines(acked)[Len(subjects) + 1] \in TooLong

\* The inductive invariant of the subjects adapter: who is told of what, and what the
\* file holds of the acknowledged list.
SubjectsInv ==
    /\ ~ Running => ~ subscribed /\ pc = "idle"
    /\ subscribed /\ pc # "send" => told \in {subjects, Nothing}
    /\ pc = "write" => acked = Nothing
    /\ acked # Nothing => file = Lines(acked)

\* What the subjects adapter has in memory before the server listens: once its New
\* is done, and unless it could not read the file, what the file gives back.
ListIsRead ==
    /\ process = "down" => created = 0
    /\ process = "starting" /\ file # Absent /\ TheSubjects \notin misread
          /\ (\E i \in 1 .. created : Order[i] = TheSubjects) => subjects = Stored
=============================================================================
