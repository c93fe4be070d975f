----------------------------- MODULE ProcessProofs -----------------------------
(***************************************************************************)
(* Proofs about the adapters of one value (VIN and unit model) and the     *)
(* subjects adapter in Process, for any files, values, lists and order of  *)
(* the adapters.                                                           *)
(***************************************************************************)
EXTENDS Process, ListLemmas

-----------------------------------------------------------------------------
(* Who is being created *)

\* The adapters are created one after the other.
LEMMA OneAtATime ==
    ASSUME NEW a, NEW b, Creating(a), Creating(b)
    PROVE  a = b
BY DEF Creating

\* While the subjects adapter is created, or none is, no value is made up.
LEMMA NothingMade ==
    ASSUME FilesInv, Creating(TheSubjects) \/ \A f \in Files : ~ Creating(f)
    PROVE  making = Nothing
BY OneAtATime, ProcessAssumption DEF FilesInv

\* An adapter is created only during the start, before all of them are there.
LEMMA NoneCreated ==
    ASSUME process # "starting" \/ created = Len(Order), NEW a
    PROVE  ~ Creating(a)
<1>1. Len(Order) \in Nat
    BY ProcessAssumption
<1>. QED  BY <1>1 DEF Creating

\* What is in a file is not the mark for no file.
LEMMA ContentIsAFile ==
    ASSUME NEW f \in Files, NEW v \in ValuesOf[f]
    PROVE  /\ Whole(v) \in [value : ValuesOf[f], whole : BOOLEAN]
           /\ Part(v) \in [value : ValuesOf[f], whole : BOOLEAN]
           /\ Whole(v) \in [value : UNION {ValuesOf[g] : g \in Files}, whole : BOOLEAN]
           /\ Part(v) \in [value : UNION {ValuesOf[g] : g \in Files}, whole : BOOLEAN]
           /\ Whole(v) # NoFile /\ Part(v) # NoFile
<1>1. v \in UNION {ValuesOf[g] : g \in Files}
    OBVIOUS
<1>2. /\ Whole(v) \in [value : UNION {ValuesOf[g] : g \in Files}, whole : BOOLEAN]
      /\ Part(v) \in [value : UNION {ValuesOf[g] : g \in Files}, whole : BOOLEAN]
    BY <1>1 DEF Whole, Part
<1>3. /\ Whole(v) \in [value : ValuesOf[f], whole : BOOLEAN]
      /\ Part(v) \in [value : ValuesOf[f], whole : BOOLEAN]
    BY DEF Whole, Part
<1>. QED  BY <1>2, <1>3, ProcessAssumption

-----------------------------------------------------------------------------
(* The inductive invariant *)

\* Before the first start nothing is served, and every file is whole.
LEMMA InitFilesInv == Init => FilesInv
<1> SUFFICES ASSUME Init PROVE FilesInv
    OBVIOUS
<1> DEFINE Values == UNION {ValuesOf[f] : f \in Files}
<1>1. \A f \in Files : ~ Creating(f)
    BY NoneCreated DEF Init
<1>2. stored \in [Files -> {NoFile} \cup {Whole(v) : v \in Values}]
    BY DEF Init
<1>3. ASSUME NEW f \in Files, stored[f] # NoFile
      PROVE  stored[f] \in [value : ValuesOf[f], whole : BOOLEAN] /\ stored[f].whole
    <2>1. PICK v \in Values : stored[f] = Whole(v)
        BY <1>2, <1>3
    <2>2. v = stored[f].value
        BY <2>1 DEF Whole
    <2>3. v \in ValuesOf[f]
        BY <1>3, <2>2 DEF Init
    <2>. QED  BY <2>1, <2>3, ContentIsAFile DEF Whole
<1>4. stored \in [Files -> {NoFile} \cup [value : Values, whole : BOOLEAN]]
    <2>1. \A v \in Values : Whole(v) \in [value : Values, whole : BOOLEAN]
        BY DEF Whole
    <2>2. {Whole(v) : v \in Values} \subseteq [value : Values, whole : BOOLEAN]
        BY <2>1
    <2>3. {NoFile} \cup {Whole(v) : v \in Values} \subseteq
              {NoFile} \cup [value : Values, whole : BOOLEAN]
        BY <2>2
    <2>. HIDE DEF Values
    <2>. QED  BY <1>2, <2>3
<1>5. FilesTypeOK
    BY <1>1, <1>3, <1>4 DEF Init, FilesTypeOK
<1>6. PartsAreCut /\ FilesHoldServed /\ ServedInWhole
    BY <1>3 DEF Init, PartsAreCut, FilesHoldServed, ServedInWhole
<1>. QED  BY <1>5, <1>6 DEF Init, FilesInv

\* A step of something else, while no value is made up.
LEMMA QuietStep ==
    ASSUME FilesInv, making = Nothing,
           UNCHANGED <<stored, making, opened, served, cut>>,
           misread' \subseteq Files \cup {TheSubjects},
           \A f \in Files : f \in misread' <=> f \in misread
    PROVE  FilesInv'
<1>1. ~ opened /\ ~ opened'
    BY DEF FilesInv, FilesTypeOK
<1>2. FilesTypeOK'
    BY DEF FilesInv, FilesTypeOK
<1>3. PartsAreCut'
    BY <1>1 DEF FilesInv, PartsAreCut, BeingWritten
<1>4. FilesHoldServed' /\ ServedInWhole'
    BY DEF FilesInv, FilesHoldServed, ServedInWhole
<1>. QED  BY <1>1, <1>2, <1>3, <1>4 DEF FilesInv

\* A step of something else, in the same place of a start or of none.
LEMMA OtherStep ==
    ASSUME FilesInv, UNCHANGED <<process, created, fileVars>>
    PROVE  FilesInv'
<1>1. \A f \in Files : Creating(f)' <=> Creating(f)
    BY DEF Creating
<1>2. FilesTypeOK'
    BY <1>1 DEF FilesInv, FilesTypeOK, fileVars
<1>3. PartsAreCut'
    BY <1>1 DEF FilesInv, PartsAreCut, BeingWritten, fileVars
<1>4. FilesHoldServed' /\ ServedInWhole'
    BY <1>1 DEF FilesInv, FilesHoldServed, ServedInWhole, fileVars
<1>. QED  BY <1>1, <1>2, <1>3, <1>4 DEF FilesInv, fileVars

\* The process ends, and cuts the file that is being written.
LEMMA EndsFilesInv ==
    ASSUME FilesInv, NEW c \in SUBSET Files, BeingWritten \subseteq c, Ends(c)
    PROVE  FilesInv'
<1>1. /\ making' = Nothing /\ opened' = FALSE /\ cut' = cut \cup c
      /\ UNCHANGED <<stored, served, misread>>
      /\ \A f \in Files : ~ Creating(f)'
    <2>1. process' = "down"
        BY DEF Ends
    <2>. QED  BY <2>1 DEF Ends, Creating
<1>2. FilesTypeOK'
    BY <1>1 DEF FilesInv, FilesTypeOK
<1>3. PartsAreCut'
    BY <1>1 DEF FilesInv, PartsAreCut
<1>4. FilesHoldServed' /\ ServedInWhole'
    BY <1>1 DEF FilesInv, FilesHoldServed, ServedInWhole
<1>. QED  BY <1>1, <1>2, <1>3, <1>4 DEF FilesInv

\* An adapter takes the value that is in its file.
LEMMA ReadFileFilesInv ==
    ASSUME FilesInv, NEW f \in Files, ReadFile(f)
    PROVE  FilesInv'
<1>1. /\ making = Nothing /\ making' = Nothing /\ ~ opened /\ ~ opened'
      /\ stored[f] # NoFile
      /\ served' = [served EXCEPT ![f] = stored[f]]
      /\ misread' = misread \ {f}
      /\ UNCHANGED <<stored, opened, cut>>
    BY DEF ReadFile, FilesInv, FilesTypeOK
<1>2. /\ served'[f] = stored[f]
      /\ \A g \in Files \ {f} : served'[g] = served[g]
      /\ DOMAIN served' = Files
    BY <1>1 DEF FilesInv, FilesTypeOK
<1>3. FilesTypeOK'
    BY <1>1, <1>2 DEF FilesInv, FilesTypeOK
<1>4. f \notin cut => stored[f].whole
    BY <1>1 DEF FilesInv, PartsAreCut, BeingWritten
<1>5. PartsAreCut'
    BY <1>1 DEF FilesInv, PartsAreCut, BeingWritten
<1>6. FilesHoldServed'
    BY <1>1, <1>2 DEF FilesInv, FilesHoldServed
<1>7. ServedInWhole'
    BY <1>1, <1>2, <1>4 DEF FilesInv, ServedInWhole
<1>. QED  BY <1>1, <1>3, <1>5, <1>6, <1>7 DEF FilesInv

\* An adapter whose file cannot be read makes up a value: if it has served one
\* before, the file was there.
LEMMA ReadFailsFilesInv ==
    ASSUME FilesInv, NEW f \in Files, ReadFails(f)
    PROVE  FilesInv'
<1>1. /\ Creating(f) /\ making = Nothing /\ ~ opened
      /\ making' \in Generated[f]
      /\ misread' = IF stored[f] = NoFile THEN misread ELSE misread \cup {f}
      /\ UNCHANGED <<process, created, stored, opened, served, cut>>
    BY DEF ReadFails, FilesInv, FilesTypeOK
<1>2. \A g \in Files : (Creating(g)' <=> Creating(g)) /\ (Creating(g)' => g = f)
    BY <1>1, OneAtATime DEF Creating
<1>3. FilesTypeOK'
    BY <1>1, <1>2 DEF FilesInv, FilesTypeOK
<1>4. PartsAreCut'
    BY <1>1 DEF FilesInv, PartsAreCut, BeingWritten
<1>5. FilesHoldServed'
    BY <1>1, <1>2 DEF FilesInv, FilesHoldServed
<1>6. ServedInWhole'
    BY <1>1 DEF FilesInv, ServedInWhole
<1>. QED  BY <1>1, <1>2, <1>3, <1>4, <1>5, <1>6 DEF FilesInv

\* The file is emptied: what was served from it, if anything, was misread.
LEMMA OpenFileFilesInv ==
    ASSUME FilesInv, NEW f \in Files, OpenFile(f)
    PROVE  FilesInv'
<1>1. /\ Creating(f) /\ making # Nothing /\ opened' = TRUE
      /\ stored' = [stored EXCEPT ![f] = Part(making)]
      /\ UNCHANGED <<process, created, making, served, misread, cut>>
    BY DEF OpenFile
<1>2. \A g \in Files : (Creating(g)' <=> Creating(g)) /\ (Creating(g)' => g = f)
    BY <1>1, OneAtATime DEF Creating
<1>3. making \in ValuesOf[f]
    BY <1>1, ProcessAssumption DEF FilesInv, FilesTypeOK
<1>4. /\ stored'[f] = Part(making)
      /\ \A g \in Files \ {f} : stored'[g] = stored[g]
    BY <1>1 DEF FilesInv, FilesTypeOK
<1>5. FilesTypeOK'
    <2>1. stored' \in [Files -> {NoFile} \cup [value : UNION {ValuesOf[g] : g \in Files}, whole : BOOLEAN]]
        BY <1>1, <1>3, ContentIsAFile DEF FilesInv, FilesTypeOK
    <2>2. \A g \in Files : stored'[g] \in {NoFile} \cup [value : ValuesOf[g], whole : BOOLEAN]
        BY <1>3, <1>4, ContentIsAFile DEF FilesInv, FilesTypeOK
    <2>. QED  BY <1>1, <1>2, <2>1, <2>2 DEF FilesInv, FilesTypeOK
<1>6. PartsAreCut'
    <2>1. f \in BeingWritten'
        BY <1>1, <1>2 DEF BeingWritten
    <2>2. \A g \in Files \ {f} : g \notin BeingWritten
        BY <1>1, OneAtATime DEF BeingWritten
    <2>. QED  BY <1>1, <1>4, <2>1, <2>2 DEF FilesInv, PartsAreCut
<1>7. FilesHoldServed'
    <2>1. served[f] # Nothing => f \in misread /\ stored'[f] # NoFile
        BY <1>1, <1>3, <1>4, ContentIsAFile DEF FilesInv, FilesHoldServed
    <2>. QED  BY <1>1, <1>2, <1>4, <2>1 DEF FilesInv, FilesHoldServed
<1>8. ServedInWhole'
    BY <1>1 DEF FilesInv, ServedInWhole
<1>. QED  BY <1>1, <1>2, <1>5, <1>6, <1>7, <1>8 DEF FilesInv

\* The value is in the file and in the adapter.
LEMMA WriteValueFilesInv ==
    ASSUME FilesInv, NEW f \in Files, WriteValue(f)
    PROVE  FilesInv'
<1>1. /\ Creating(f) /\ opened /\ making # Nothing
      /\ stored' = [stored EXCEPT ![f] = Whole(making)]
      /\ served' = [served EXCEPT ![f] = Whole(making)]
      /\ cut' = cut \ {f} /\ misread' = misread \ {f}
      /\ making' = Nothing /\ opened' = FALSE
    BY DEF WriteValue, FilesInv
<1>2. making \in ValuesOf[f]
    BY <1>1, ProcessAssumption DEF FilesInv, FilesTypeOK
<1>3. /\ stored'[f] = Whole(making) /\ served'[f] = Whole(making)
      /\ \A g \in Files \ {f} : stored'[g] = stored[g] /\ served'[g] = served[g]
      /\ DOMAIN served' = Files
    BY <1>1 DEF FilesInv, FilesTypeOK
<1>4. FilesTypeOK'
    <2>1. stored' \in [Files -> {NoFile} \cup [value : UNION {ValuesOf[g] : g \in Files}, whole : BOOLEAN]]
        BY <1>1, <1>2, ContentIsAFile DEF FilesInv, FilesTypeOK
    <2>2. \A g \in Files : /\ stored'[g] \in {NoFile} \cup [value : ValuesOf[g], whole : BOOLEAN]
                           /\ served'[g] \in {Nothing} \cup [value : ValuesOf[g], whole : BOOLEAN]
        BY <1>2, <1>3, ContentIsAFile DEF FilesInv, FilesTypeOK
    <2>. QED  BY <1>1, <1>3, <2>1, <2>2 DEF FilesInv, FilesTypeOK
<1>5. Whole(making).whole
    BY DEF Whole
<1>6. PartsAreCut'
    <2>1. \A g \in Files \ {f} : g \notin BeingWritten
        BY <1>1, OneAtATime DEF BeingWritten
    <2>. QED  BY <1>1, <1>3, <1>5, <2>1 DEF FilesInv, PartsAreCut
<1>7. FilesHoldServed'
    <2>1. stored'[f] # NoFile
        BY <1>2, <1>3, ContentIsAFile
    <2>. QED  BY <1>1, <1>3, <2>1 DEF FilesInv, FilesHoldServed
<1>8. ServedInWhole'
    BY <1>1, <1>3, <1>5 DEF FilesInv, ServedInWhole
<1>. QED  BY <1>1, <1>4, <1>6, <1>7, <1>8 DEF FilesInv

\* No step breaks the invariant.
LEMMA NextFilesInv == FilesInv /\ [Next]_vars => FilesInv'
<1> SUFFICES ASSUME FilesInv, [Next]_vars PROVE FilesInv'
    OBVIOUS
<1>1. CASE Start
    BY <1>1, NoneCreated, NothingMade, QuietStep DEF Start, fileVars, FilesInv, FilesTypeOK
<1>2. CASE Listen
    BY <1>2, NoneCreated, NothingMade, QuietStep DEF Listen, fileVars, FilesInv, FilesTypeOK
<1>3. CASE Set
    BY <1>3, OtherStep DEF Set
<1>4. CASE Continue
    BY <1>4, OtherStep DEF Continue
<1>5. CASE Close
    BY <1>5, NoneCreated, NothingMade, QuietStep DEF Close, fileVars, FilesInv, FilesTypeOK
<1>6. CASE End
    <2>1. BeingWritten \in SUBSET Files
        BY DEF BeingWritten
    <2>. QED  BY <1>6, <2>1, EndsFilesInv DEF End
<1>7. ASSUME NEW f \in Files, ReadFile(f) PROVE FilesInv'
    BY <1>7, ReadFileFilesInv
<1>8. ASSUME NEW f \in Files, ReadFails(f) PROVE FilesInv'
    BY <1>8, ReadFailsFilesInv
<1>9. ASSUME NEW f \in Files, OpenFile(f) PROVE FilesInv'
    BY <1>9, OpenFileFilesInv
<1>10. ASSUME NEW f \in Files, OpenFails(f) PROVE FilesInv'
    BY <1>10, EndsFilesInv DEF OpenFails, BeingWritten
<1>11. ASSUME NEW f \in Files, WriteValue(f) PROVE FilesInv'
    BY <1>11, WriteValueFilesInv
<1>12. ASSUME NEW f \in Files, WriteValueFails(f) PROVE FilesInv'
    <2>1. BeingWritten \subseteq {f}
        BY <1>12, OneAtATime DEF BeingWritten, WriteValueFails
    <2>. QED  BY <1>12, <2>1, EndsFilesInv DEF WriteValueFails
<1>13. CASE ReadSubjects
    BY <1>13, NothingMade, QuietStep, ProcessAssumption DEF ReadSubjects, FilesInv, FilesTypeOK
<1>14. CASE MisreadSubjects
    BY <1>14, NothingMade, QuietStep, ProcessAssumption DEF MisreadSubjects, FilesInv, FilesTypeOK
<1>15. CASE NoSubjectsFile
    BY <1>15, NothingMade, QuietStep DEF NoSubjectsFile, fileVars, FilesInv, FilesTypeOK
<1>16. CASE MkdirFails
    <2>1. BeingWritten = {}
        BY <1>16, OneAtATime, ProcessAssumption DEF MkdirFails, BeingWritten
    <2>. QED  BY <1>16, <2>1, EndsFilesInv DEF MkdirFails
<1>17. CASE UNCHANGED vars
    BY <1>17, OtherStep DEF vars
<1>. QED
    BY <1>1, <1>2, <1>3, <1>4, <1>5, <1>6, <1>7, <1>8, <1>9, <1>10, <1>11, <1>12,
       <1>13, <1>14, <1>15, <1>16, <1>17 DEF Next

\* What is in the files, what is served and what is made up agree in every state of
\* every behaviour (New of the VIN and the unit model adapter).
THEOREM FilesInvariant == Spec => []FilesInv
BY InitFilesInv, NextFilesInv, PTL DEF Spec

-----------------------------------------------------------------------------
(* What it is for *)

\* Clients are served a part of a value only if a writing of it was cut by the end
\* of a process, whatever failed and in whatever order the adapters are created.
THEOREM NothingServedInPart == Spec => []ServedInWhole
<1>1. FilesInv => ServedInWhole
    BY DEF FilesInv
<1>. QED  BY <1>1, FilesInvariant, PTL

\* The variables of the adapters of one value have their types.
THEOREM FilesTyped == Spec => []FilesTypeOK
<1>1. FilesInv => FilesTypeOK
    BY DEF FilesInv
<1>. QED  BY <1>1, FilesInvariant, PTL

\* A step that changes what is served: only one that reads or writes the file.
LEMMA ServedByTwoSteps ==
    ASSUME [Next]_vars, NEW g \in Files, served'[g] # served[g]
    PROVE  \E f \in Files : ReadFile(f) \/ WriteValue(f)
BY DEF Next, Start, Listen, Set, Continue, Close, End, Ends, ReadFails, OpenFile,
       OpenFails, WriteValueFails, ReadSubjects, MisreadSubjects, NoSubjectsFile,
       MkdirFails, fileVars, vars

\* A vehicle keeps its VIN and its unit model through crashes, failed starts and
\* restarts, unless its file was there and could not be read (New).
THEOREM ValuesArePermanent == Spec => ValuesPermanent
<1>1. FilesInv /\ [Next]_vars =>
          \A f \in Files : served[f] # Nothing /\ f \notin misread => served'[f] = served[f]
    <2> SUFFICES ASSUME FilesInv, [Next]_vars, NEW f \in Files,
                        served[f] # Nothing, f \notin misread, served'[f] # served[f]
                 PROVE  FALSE
        OBVIOUS
    <2>1. PICK g \in Files : ReadFile(g) \/ WriteValue(g)
        BY ServedByTwoSteps
    <2>2. g = f
        BY <2>1 DEF ReadFile, WriteValue, FilesInv, FilesTypeOK
    <2>3. ~ ReadFile(f)
        BY DEF ReadFile, FilesInv, FilesTypeOK, FilesHoldServed
    <2>4. ~ WriteValue(f)
        BY DEF WriteValue, FilesInv, FilesHoldServed
    <2>. QED  BY <2>1, <2>2, <2>3, <2>4
<1>. QED  BY <1>1, FilesInvariant, PTL DEF Spec, ValuesPermanent

-----------------------------------------------------------------------------
(* The subjects adapter *)

LEMMA InitSubjects == Init => SubjectsInv
BY DEF Init, SubjectsInit, SubjectsInv, Running

\* SetData, and the calls of the provider, while the process runs.
LEMMA SubjectsGoOn ==
    ASSUME SubjectsInv, Running, Running', SetData \/ SubjectsStep
    PROVE  SubjectsInv'
<1>1. CASE SetData
    <2>1. PICK list \in Requested : SetAccepted(list) \/ SetRefused(list)
        BY <1>1 DEF SetData
    <2>2. CASE SetAccepted(list)
        BY <2>2 DEF SetAccepted, SubjectsInv
    <2>3. CASE SetRefused(list)
        BY <2>3 DEF SetRefused, SubjectsInv
    <2>. QED  BY <2>1, <2>2, <2>3
<1>2. CASE Send
    BY <1>2 DEF Send, SubjectsInv
<1>3. CASE CreateFile \/ CreateFails
    BY <1>3 DEF CreateFile, CreateFails, SubjectsInv
<1>4. CASE WriteFile
    BY <1>4 DEF WriteFile, SubjectsInv, Lines
<1>5. CASE \E n \in 0 .. Len(Lines(subjects)) : WriteFails(n)
    BY <1>5 DEF WriteFails, SubjectsInv
<1>6. CASE \E on \in BOOLEAN : SetSubscribed(on)
    BY <1>6 DEF SetSubscribed, SubjectsInv
<1>7. CASE Receive
    BY <1>7 DEF Receive, SubjectsInv
<1>. QED  BY <1>1, <1>2, <1>3, <1>4, <1>5, <1>6, <1>7 DEF SubjectsStep

\* The end of a process leaves the file as it is, and nobody subscribed.
LEMMA ForgottenSubjects ==
    ASSUME SubjectsInv, NEW c, Ends(c)
    PROVE  SubjectsInv'
BY DEF Ends, Forgotten, SubjectsInv, Running, Lines

\* New reads the list before anybody subscribes.
LEMMA CreatedSubjects ==
    ASSUME SubjectsInv, NEW s, Created(s), process = "starting", process' = process
    PROVE  SubjectsInv'
BY DEF Created, SubjectsInv, Running, Lines

LEMMA NextSubjects == SubjectsInv /\ [Next]_vars => SubjectsInv'
<1> SUFFICES ASSUME SubjectsInv, [Next]_vars PROVE SubjectsInv'
    OBVIOUS
<1>1. ASSUME UNCHANGED subjectsVars, Running => Running' \/ (~ subscribed /\ pc = "idle")
      PROVE  SubjectsInv'
    BY <1>1 DEF subjectsVars, SubjectsInv, Lines
<1>2. CASE Start \/ Listen
    BY <1>1, <1>2 DEF Start, Listen, Running
<1>3. CASE Close
    BY <1>1, <1>3 DEF Close, Running
<1>4. CASE Set
    BY <1>4, SubjectsGoOn DEF Set, Running
<1>5. CASE Continue
    BY <1>5, SubjectsGoOn DEF Continue, Running
<1>6. CASE End \/ MkdirFails \/ \E f \in Files : OpenFails(f) \/ WriteValueFails(f)
    BY <1>6, ForgottenSubjects DEF End, MkdirFails, OpenFails, WriteValueFails
<1>7. CASE \E f \in Files : ReadFile(f) \/ ReadFails(f) \/ OpenFile(f) \/ WriteValue(f)
    BY <1>1, <1>7 DEF ReadFile, ReadFails, OpenFile, WriteValue, Running
<1>8. CASE ReadSubjects \/ MisreadSubjects \/ NoSubjectsFile
    BY <1>8, CreatedSubjects DEF ReadSubjects, MisreadSubjects, NoSubjectsFile, Creating
<1>9. CASE UNCHANGED vars
    BY <1>1, <1>9 DEF vars, Running
<1>. QED  BY <1>2, <1>3, <1>4, <1>5, <1>6, <1>7, <1>8, <1>9 DEF Next

\* Who is told of which list, and what the file holds of the acknowledged one.
THEOREM SubjectsInvariant == Spec => []SubjectsInv
BY InitSubjects, NextSubjects, PTL DEF Spec

\* Subscribers know the list that clients get, whenever no SetData is under way,
\* unless one was refused since.
THEOREM SubscribersKnowTheList == Spec => []ToldOfChanges
<1>1. SubjectsInv => ToldOfChanges
    BY DEF SubjectsInv, ToldOfChanges
<1>. QED  BY <1>1, SubjectsInvariant, PTL

\* While a list counts as acknowledged its lines are in the file, through refused
\* lists, files that could not be opened, failed starts and crashes.
THEOREM AcknowledgedIsInFile == Spec => [](acked # Nothing => file = Lines(acked))
<1>1. SubjectsInv => (acked # Nothing => file = Lines(acked))
    BY DEF SubjectsInv
<1>. QED  BY <1>1, SubjectsInvariant, PTL

-----------------------------------------------------------------------------
(* The list and the lines of its file *)

\* Strings are written, and nothing else.
LEMMA LinesAreStrings ==
    ASSUME NEW s \in Seq(Subjects)
    PROVE  Lines(s) \in Seq(Subjects)
<1> DEFINE lines == [i \in 1 .. Len(s) |-> LinesOf[s[i]]]
<1>1. lines \in Seq(Seq(Subjects))
    BY SubjectsAssumption
<1>. QED  BY <1>1, FlattenSeqType DEF Lines

\* A list of one line each is the lines of its file.
LEMMA LinesAreTheList ==
    ASSUME NEW s \in Seq(Subjects), OneLineEach(s)
    PROVE  Lines(s) = s
<1> DEFINE lines == [i \in 1 .. Len(s) |-> LinesOf[s[i]]]
<1>1. lines \in Seq(Seq(Subjects)) /\ Len(lines) = Len(s)
    BY SubjectsAssumption
<1>2. \A i \in 1 .. Len(s) : lines[i] = <<s[i]>>
    BY DEF OneLineEach
<1>3. FlattenSeq(lines) = s
    <2>. HIDE DEF lines
    <2>. QED  BY <1>1, <1>2, FlattenSeqOfOnes
<1>. QED  BY <1>3 DEF Lines

\* The file gives back its lines from the first on, to the first that is too long, and
\* all of them if none is.
LEMMA StoredIsPrefix ==
    ASSUME file \in Seq(Subjects)
    PROVE  /\ Stored \in Seq(Subjects)
           /\ Len(Stored) <= Len(file)
           /\ \A i \in 1 .. Len(Stored) : Stored[i] = file[i] /\ Stored[i] \notin TooLong
           /\ Len(Stored) < Len(file) => file[Len(Stored) + 1] \in TooLong
           /\ (\A i \in 1 .. Len(file) : file[i] \notin TooLong) => Stored = file
<1> DEFINE I == {i \in 1 .. Len(file) : file[i] \in TooLong}
           first == IF I # {} THEN Min(I) ELSE 0
<1>1. Stored = IF first = 0 THEN file ELSE SubSeq(file, 1, first - 1)
    BY DEF Stored, SelectInSeq
<1>2. I # {} => first \in I /\ \A i \in I : first <= i
    <2>1. I \in SUBSET Nat
        OBVIOUS
    <2>2. I # {} => Min(I) \in I /\ \A i \in I : Min(I) <= i
        BY <2>1, MinIsLeast
    <2>. QED  BY <2>2
<1>3. CASE I = {}
    BY <1>1, <1>3
<1>4. CASE I # {}
    <2>1. first \in 1 .. Len(file) /\ file[first] \in TooLong
        BY <1>2, <1>4
    <2>2. \A i \in 1 .. first - 1 : file[i] \notin TooLong
        <3>1. \A i \in 1 .. Len(file) : file[i] \in TooLong => first <= i
            BY <1>2, <1>4
        <3>. HIDE DEF first
        <3>. QED  BY <2>1, <3>1
    <2>. HIDE DEF first
    <2>3. Stored = SubSeq(file, 1, first - 1)
        BY <1>1, <2>1
    <2>4. /\ Stored \in Seq(Subjects) /\ Len(Stored) = first - 1
          /\ \A i \in 1 .. first - 1 : Stored[i] = file[i]
        BY <2>1, <2>3
    <2>. QED  BY <2>1, <2>2, <2>4
<1>. QED  BY <1>3, <1>4

\* What comes before the first element that is not a string is strings.
LEMMA BeforeTheRefused ==
    ASSUME NEW list \in Seq(Subjects \cup {NotAString}), ~ Strings(list)
    PROVE  Before(list, SelectInSeq(list, LAMBDA e : e = NotAString)) \in Seq(Subjects)
<1> DEFINE I == {i \in 1 .. Len(list) : list[i] = NotAString}
<1>1. SelectInSeq(list, LAMBDA e : e = NotAString) = IF I # {} THEN Min(I) ELSE 0
    BY DEF SelectInSeq
<1>2. I # {}
    BY DEF Strings, Range
<1>3. Min(I) \in I /\ \A k \in I : Min(I) <= k
    <2>1. I \in SUBSET Nat
        OBVIOUS
    <2>. QED  BY <1>2, <2>1, MinIsLeast
<1>4. \A k \in 1 .. Min(I) - 1 : list[k] \in Subjects
    BY <1>3
<1>5. SubSeq(list, 1, Min(I) - 1) \in Seq(Subjects)
    <2>. HIDE DEF I
    <2>1. Min(I) \in 1 .. Len(list)
        BY <1>3 DEF I
    <2>. QED  BY <1>4, <2>1
<1>. QED  BY <1>1, <1>2, <1>5 DEF Before

\* A list that is not refused is a list of strings.
LEMMA ListOfStrings ==
    ASSUME NEW list \in Requested, Strings(list)
    PROVE  list \in Seq(Subjects)
<1>1. list \in Seq(Subjects \cup {NotAString})
    BY SubjectsAssumption
<1>2. \A i \in 1 .. Len(list) : list[i] \in Subjects
    BY <1>1 DEF Strings, Range
<1>. QED  BY <1>1, <1>2

-----------------------------------------------------------------------------
(* The types of the subjects adapter *)

LEMMA SubjectsInitTyped == SubjectsInit => SubjectsTypeOK
<1> SUFFICES ASSUME SubjectsInit PROVE SubjectsTypeOK
    OBVIOUS
<1>1. file \in Seq(Subjects) \cup {Absent}
    BY ListOfStrings DEF SubjectsInit
<1>2. <<>> \in Seq(Seq(Subjects)) /\ Len(<<>>) <= ChanSize /\ <<>> \in Seq(Subjects)
    BY SubjectsAssumption
<1>. QED  BY <1>1, <1>2 DEF SubjectsInit, SubjectsTypeOK

\* SetData begins.
LEMMA SetDataTyped ==
    ASSUME SubjectsTypeOK, SetData
    PROVE  SubjectsTypeOK'
<1>1. PICK list \in Requested : SetAccepted(list) \/ SetRefused(list)
    BY DEF SetData
<1>2. CASE SetAccepted(list)
    BY <1>2, ListOfStrings DEF SetAccepted, SubjectsTypeOK
<1>3. CASE SetRefused(list)
    <2>1. list \in Seq(Subjects \cup {NotAString}) /\ ~ Strings(list)
        BY <1>3, SubjectsAssumption DEF SetRefused
    <2>2. subjects' \in Seq(Subjects)
        BY <1>3, <2>1, BeforeTheRefused DEF SetRefused
    <2>. QED  BY <1>3, <2>2 DEF SetRefused, SubjectsTypeOK
<1>. QED  BY <1>1, <1>2, <1>3

\* SetData goes on, or the provider calls.
LEMMA SubjectsStepTyped ==
    ASSUME SubjectsTypeOK, SubjectsStep
    PROVE  SubjectsTypeOK'
<1>1. Lines(subjects) \in Seq(Subjects)
    BY LinesAreStrings DEF SubjectsTypeOK
<1>2. CASE Send
    <2>1. CASE channel' = channel
        BY <1>2, <2>1 DEF Send, SubjectsTypeOK
    <2>2. CASE Len(channel) < ChanSize /\ channel' = Append(channel, subjects)
        <3>1. /\ channel \in Seq(Seq(Subjects)) /\ subjects \in Seq(Subjects)
              /\ ChanSize \in Nat
            BY SubjectsAssumption DEF SubjectsTypeOK
        <3>2. channel' \in Seq(Seq(Subjects)) /\ Len(channel') <= ChanSize
            BY <2>2, <3>1
        <3>. QED  BY <1>2, <3>2 DEF Send, SubjectsTypeOK
    <2>. QED  BY <1>2, <2>1, <2>2 DEF Send
<1>3. CASE CreateFile \/ CreateFails
    <2>1. <<>> \in Seq(Subjects)
        OBVIOUS
    <2>. QED  BY <1>3, <2>1 DEF CreateFile, CreateFails, SubjectsTypeOK
<1>4. CASE WriteFile
    BY <1>1, <1>4 DEF WriteFile, SubjectsTypeOK
<1>5. ASSUME NEW n \in 0 .. Len(Lines(subjects)), WriteFails(n)
      PROVE  SubjectsTypeOK'
    <2>1. SubSeq(Lines(subjects), 1, n) \in Seq(Subjects)
        BY <1>1
    <2>. QED  BY <1>5, <2>1 DEF WriteFails, SubjectsTypeOK
<1>6. ASSUME NEW on \in BOOLEAN, SetSubscribed(on)
      PROVE  SubjectsTypeOK'
    BY <1>6 DEF SetSubscribed, SubjectsTypeOK
<1>7. CASE Receive
    <2>1. channel' \in Seq(Seq(Subjects)) /\ Len(channel') <= ChanSize
        BY <1>7, SubjectsAssumption DEF Receive, SubjectsTypeOK
    <2>. QED  BY <1>7, <2>1 DEF Receive, SubjectsTypeOK
<1>. QED  BY <1>2, <1>3, <1>4, <1>5, <1>6, <1>7 DEF SubjectsStep

\* New, and the end of the process.
LEMMA CreatedTyped ==
    ASSUME SubjectsTypeOK, NEW s \in Seq(Subjects), Created(s)
    PROVE  SubjectsTypeOK'
BY DEF Created, SubjectsTypeOK

LEMMA ForgottenTyped ==
    ASSUME SubjectsTypeOK, Forgotten
    PROVE  SubjectsTypeOK'
<1>1. <<>> \in Seq(Seq(Subjects)) /\ Len(<<>>) <= ChanSize /\ <<>> \in Seq(Subjects)
    BY SubjectsAssumption
<1>. QED  BY <1>1 DEF Forgotten, SubjectsTypeOK

-----------------------------------------------------------------------------
(* The types of the process *)

LEMMA InitTypeOK == Init => TypeOK
<1> SUFFICES ASSUME Init PROVE TypeOK
    OBVIOUS
<1>1. Len(Order) \in Nat /\ 0 \in 0 .. Len(Order)
    BY ProcessAssumption
<1>2. SubjectsTypeOK
    BY SubjectsInitTyped DEF Init
<1>3. FilesTypeOK
    BY InitFilesInv DEF FilesInv
<1>. QED  BY <1>1, <1>2, <1>3 DEF Init, TypeOK

\* A step that leaves the subjects adapter alone.
LEMMA SubjectsAloneTyped ==
    ASSUME SubjectsTypeOK, UNCHANGED subjectsVars
    PROVE  SubjectsTypeOK'
BY DEF subjectsVars, SubjectsTypeOK

\* New takes what there is in the file, or less.
LEMMA ReadTyped ==
    ASSUME SubjectsTypeOK, ReadSubjects \/ MisreadSubjects \/ NoSubjectsFile
    PROVE  SubjectsTypeOK'
<1>1. file # Absent => Stored \in Seq(Subjects)
    BY StoredIsPrefix DEF SubjectsTypeOK
<1>2. CASE ReadSubjects
    BY <1>1, <1>2, CreatedTyped DEF ReadSubjects
<1>3. CASE MisreadSubjects
    <2>1. PICK n \in 0 .. Len(Stored) : Created(SubSeq(Stored, 1, n))
        BY <1>3 DEF MisreadSubjects
    <2>2. SubSeq(Stored, 1, n) \in Seq(Subjects)
        BY <1>1, <1>3 DEF MisreadSubjects
    <2>. QED  BY <2>1, <2>2, CreatedTyped
<1>4. CASE NoSubjectsFile
    <2>1. <<>> \in Seq(Subjects)
        OBVIOUS
    <2>. QED  BY <1>4, <2>1, CreatedTyped DEF NoSubjectsFile
<1>. QED  BY <1>2, <1>3, <1>4

LEMMA NextTypeOK == FilesInv /\ FilesInv' /\ TypeOK /\ [Next]_vars => TypeOK'
<1> SUFFICES ASSUME FilesInv, FilesInv', TypeOK, [Next]_vars PROVE TypeOK'
    OBVIOUS
<1>1. FilesTypeOK'
    BY DEF FilesInv
<1>2. Len(Order) \in Nat
    BY ProcessAssumption
<1>3. ASSUME NEW a, Creating(a) PROVE created + 1 \in 0 .. Len(Order)
    BY <1>2, <1>3 DEF Creating, TypeOK
<1>4. ASSUME NEW c, Ends(c) PROVE TypeOK'
    <2>1. SubjectsTypeOK'
        BY <1>4, ForgottenTyped DEF Ends, TypeOK
    <2>2. process' = "down" /\ created' = 0 /\ waiting' = FALSE
        BY <1>4 DEF Ends
    <2>3. created' \in 0 .. Len(Order)
        BY <1>2, <2>2
    <2>. QED  BY <1>1, <2>1, <2>2, <2>3 DEF TypeOK
<1>5. CASE Start \/ Listen \/ Close
    <2>1. SubjectsTypeOK' /\ created' = created
        BY <1>5, SubjectsAloneTyped DEF Start, Listen, Close, TypeOK
    <2>2. process' \in {"down", "starting", "up", "closed"} /\ waiting' \in BOOLEAN
        BY <1>5 DEF Start, Listen, Close, TypeOK
    <2>. QED  BY <1>1, <2>1, <2>2 DEF TypeOK
<1>6. CASE Set
    BY <1>1, <1>6, SetDataTyped DEF Set, TypeOK
<1>7. CASE Continue
    BY <1>1, <1>7, SubjectsStepTyped DEF Continue, TypeOK
<1>8. CASE End \/ MkdirFails \/ \E f \in Files : OpenFails(f) \/ WriteValueFails(f)
    BY <1>4, <1>8 DEF End, MkdirFails, OpenFails, WriteValueFails
<1>9. ASSUME NEW f \in Files, ReadFile(f) \/ WriteValue(f) PROVE TypeOK'
    BY <1>1, <1>3, <1>9, SubjectsAloneTyped DEF ReadFile, WriteValue, TypeOK
<1>10. ASSUME NEW f \in Files, ReadFails(f) \/ OpenFile(f) PROVE TypeOK'
    BY <1>1, <1>10, SubjectsAloneTyped DEF ReadFails, OpenFile, TypeOK
<1>11. CASE ReadSubjects \/ MisreadSubjects \/ NoSubjectsFile
    BY <1>1, <1>3, <1>11, ReadTyped DEF ReadSubjects, MisreadSubjects, NoSubjectsFile, TypeOK
<1>12. CASE UNCHANGED vars
    BY <1>1, <1>12, SubjectsAloneTyped DEF vars, TypeOK
<1>. QED  BY <1>5, <1>6, <1>7, <1>8, <1>9, <1>10, <1>11, <1>12 DEF Next

\* Every variable has its type: no element that is not a string gets into the list,
\* the channel or the file (SetData, readSubjects, writeSubjects, New).
THEOREM TypeCorrect == Spec => []TypeOK
BY InitTypeOK, NextTypeOK, FilesInvariant, PTL DEF Spec

-----------------------------------------------------------------------------
(* An acknowledged list survives *)

LEMMA InitListIsRead == Init => ListIsRead
BY DEF Init, ListIsRead

\* Between two News, and while another adapter's New runs, the list and the file
\* stay as they are.
LEMMA NewOfAnother ==
    ASSUME TypeOK, ListIsRead, NEW f \in Files, Creating(f),
           UNCHANGED subjectsVars, process' = process,
           created' = created \/ created' = created + 1,
           TheSubjects \in misread' <=> TheSubjects \in misread
    PROVE  ListIsRead'
<1>1. Order[created + 1] # TheSubjects
    BY ProcessAssumption DEF Creating
<1>2. Stored' = Stored
    BY DEF Stored, SelectInSeq, subjectsVars
<1>3. \A i \in 1 .. created' : Order[i] = TheSubjects => i \in 1 .. created
    BY <1>1 DEF TypeOK
<1>. QED  BY <1>2, <1>3 DEF ListIsRead, Creating, subjectsVars

\* The New of the subjects adapter itself.
LEMMA NewOfSubjects ==
    ASSUME TypeOK, ReadSubjects \/ MisreadSubjects \/ NoSubjectsFile
    PROVE  ListIsRead'
<1>1. CASE ReadSubjects
    <2>1. Stored' = Stored
        BY <1>1 DEF Stored, SelectInSeq, ReadSubjects, Created
    <2>. QED  BY <1>1, <2>1 DEF ReadSubjects, Created, ListIsRead, Creating
<1>2. CASE MisreadSubjects
    BY <1>2 DEF MisreadSubjects, ListIsRead, Creating
<1>3. CASE NoSubjectsFile
    BY <1>3 DEF NoSubjectsFile, Created, ListIsRead, Creating
<1>. QED  BY <1>1, <1>2, <1>3

LEMMA NextListIsRead == TypeOK /\ ListIsRead /\ [Next]_vars => ListIsRead'
<1> SUFFICES ASSUME TypeOK, ListIsRead, [Next]_vars PROVE ListIsRead'
    OBVIOUS
<1>1. CASE Start
    BY <1>1 DEF Start, ListIsRead
<1>2. CASE Listen \/ Close
    BY <1>2 DEF Listen, Close, ListIsRead
<1>3. CASE Set \/ Continue
    BY <1>3 DEF Set, Continue, Running, ListIsRead
<1>4. CASE End \/ MkdirFails \/ \E f \in Files : OpenFails(f) \/ WriteValueFails(f)
    BY <1>4 DEF End, MkdirFails, OpenFails, WriteValueFails, Ends, ListIsRead
<1>5. ASSUME NEW f \in Files, ReadFile(f) \/ ReadFails(f) \/ OpenFile(f) \/ WriteValue(f)
      PROVE  ListIsRead'
    BY <1>5, NewOfAnother, ProcessAssumption DEF ReadFile, ReadFails, OpenFile, WriteValue
<1>6. CASE ReadSubjects \/ MisreadSubjects \/ NoSubjectsFile
    BY <1>6, NewOfSubjects
<1>7. CASE UNCHANGED vars
    <2>1. Stored' = Stored
        BY <1>7 DEF Stored, SelectInSeq, vars, subjectsVars
    <2>. QED  BY <1>7, <2>1 DEF vars, subjectsVars, fileVars, ListIsRead
<1>. QED  BY <1>1, <1>2, <1>3, <1>4, <1>5, <1>6, <1>7 DEF Next

\* A start that has read the file holds what the file gives back, until it listens.
LEMMA ListIsReadAlways == Spec => []ListIsRead
<1>1. Spec => []TypeOK
    BY TypeCorrect
<1>. QED  BY <1>1, InitListIsRead, NextListIsRead, PTL DEF Spec

\* What a start has read of an acknowledged list, of any strings, is the lines of these
\* strings from the first on, up to the first that bufio.Scanner does not take
\* (writeSubjects, readSubjects, New): the file holds these lines still, and reading
\* stops nowhere else.
THEOREM AcknowledgedListIsRead == Spec => []AckedIsRead
<1>1. TypeOK /\ SubjectsInv /\ ListIsRead => AckedIsRead
    <2> SUFFICES ASSUME TypeOK, SubjectsInv, ListIsRead,
                        process = "starting", acked # Nothing,
                        \E i \in 1 .. created : Order[i] = TheSubjects,
                        TheSubjects \notin misread
                 PROVE  /\ Len(subjects) <= Len(Lines(acked))
                        /\ \A i \in 1 .. Len(subjects) :
                              subjects[i] = Lines(acked)[i] /\ subjects[i] \notin TooLong
                        /\ Len(subjects) < Len(Lines(acked))
                              => Lines(acked)[Len(subjects) + 1] \in TooLong
        BY DEF AckedIsRead
    <2>1. file = Lines(acked)
        BY DEF SubjectsInv
    <2>2. acked \in Seq(Subjects)
        BY DEF TypeOK, SubjectsTypeOK
    <2>3. file \in Seq(Subjects) /\ file # Absent
        BY <2>1, <2>2, LinesAreStrings, SubjectsAssumption
    <2>4. subjects = Stored
        BY <2>3 DEF ListIsRead
    <2>. QED  BY <2>1, <2>3, <2>4, StoredIsPrefix
<1>. QED
    BY <1>1, TypeCorrect, SubjectsInvariant, ListIsReadAlways, PTL

\* What SetData acknowledged is there when the server listens again (SetData,
\* writeSubjects, readSubjects, New), for any lists, files and order of the adapters.
THEOREM AcknowledgedSurvives == Spec => AckedSurvives
<1>1. TypeOK /\ SubjectsInv /\ ListIsRead /\ [Next]_vars =>
          (Listen /\ acked # Nothing /\ TheSubjects \notin misread
              => (OneLineEach(acked) => subjects' = acked))
    <2> SUFFICES ASSUME TypeOK, SubjectsInv, ListIsRead, Listen, acked # Nothing,
                        TheSubjects \notin misread, OneLineEach(acked)
                 PROVE  subjects' = acked
        OBVIOUS
    <2>1. acked \in Seq(Subjects) /\ file = acked
        BY LinesAreTheList DEF TypeOK, SubjectsTypeOK, SubjectsInv
    <2>2. file # Absent /\ Stored = file
        BY <2>1, StoredIsPrefix, SubjectsAssumption DEF OneLineEach
    <2>3. \E i \in 1 .. created : Order[i] = TheSubjects
        BY ProcessAssumption DEF Listen, Range
    <2>4. subjects = Stored
        BY <2>2, <2>3 DEF ListIsRead, Listen
    <2>. QED  BY <2>1, <2>2, <2>4 DEF Listen, subjectsVars
<1>. QED
    BY <1>1, TypeCorrect, SubjectsInvariant, ListIsReadAlways, PTL DEF Spec, AckedSurvives
=============================================================================
