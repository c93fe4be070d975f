---------------------------- MODULE SubjectsAdapter ----------------------------
(***************************************************************************)
(* plugins/subjectsadapter: a list of subjects in memory and in a file,    *)
(* one line for each.  SetData changes the memory, tells the subscribers,  *)
(* and only then writes the file, which os.Create empties first.  Process  *)
(* composes it with the life of the program: New, crash and exit are there.*)
(*                                                                         *)
(* The adapter has no mutex of its own: its callers are requests, which    *)
(* the VIS server runs one at a time.  A write that is cut short is cut    *)
(* between two lines.                                                      *)
(***************************************************************************)
EXTENDS Naturals, Sequences, SequencesExt

CONSTANTS
    Subjects,       \* strings that may be set as subjects
    NotAString,     \* an element of another JSON type
    LinesOf,        \* [Subjects -> Seq(Subjects)]: the lines of a string
    TooLong,        \* strings longer than a line that bufio.Scanner takes
    Requested,      \* the lists that set requests carry
    Absent,         \* there is no file
    Nothing,        \* no list
    ChanSize        \* capacity of subscribeChannel (subscribeChannelSize)

ASSUME SubjectsAssumption ==
    /\ NotAString \notin Subjects
    /\ LinesOf \in [Subjects -> Seq(Subjects)]
    /\ TooLong \subseteq Subjects
    /\ Requested \subseteq Seq(Subjects \cup {NotAString})
    /\ Absent \notin Seq(Subjects)
    /\ ChanSize \in Nat \ {0}

VARIABLES
    subjects,       \* adapter.subjects
    file,           \* lines of the file, or Absent
    subscribed,     \* adapter.subscribed
    channel,        \* subscribeChannel
    pc,             \* where SetData is
    \* History variables, which the code does not have:
    acked,          \* the list of the last SetData that returned no error, or
                    \* Nothing once another one starts to write
    told            \* the list the subscribers know: the last one that was sent,
                    \* or the one there was when the first of them came; Nothing
                    \* after a refused one, until the next is accepted

subjectsVars == <<subjects, file, subscribed, channel, pc, acked, told>>

\* A line for each string, and more for one that holds line breaks.
Lines(s) == FlattenSeq([i \in 1 .. Len(s) |-> LinesOf[s[i]]])

Strings(s) == NotAString \notin Range(s)

\* Lists that a file of lines can hold, and readSubjects can read again.
OneLineEach(s) ==
    \A i \in 1 .. Len(s) : LinesOf[s[i]] = <<s[i]>> /\ s[i] \notin TooLong

\* What the scanner makes of the lines of the file: it stops at one that is too
\* long, and readSubjects does not ask whether it was stopped.
Stored ==
    LET n == SelectInSeq(file, LAMBDA line : line \in TooLong)
    IN  IF n = 0 THEN file ELSE SubSeq(file, 1, n - 1)

SubjectsInit ==
    /\ file \in {Absent} \cup {s \in Requested : Strings(s) /\ OneLineEach(s)}
    /\ subjects = <<>>
    /\ subscribed = FALSE
    /\ channel = <<>>
    /\ pc = "idle"
    /\ acked = Nothing
    /\ told = Nothing

-----------------------------------------------------------------------------
(* SetData *)

\* What is in memory when the element n of a list is refused: what came before
\* it.  The slip is to take it in first.
WithIt(list, n) == SubSeq(list, 1, n)
Before(list, n) == SubSeq(list, 1, n - 1)

\* The first element that is not a string ends SetData.  Subscribers are not
\* told that the list was cut.
SetRefused(list) ==
    /\ pc = "idle"
    /\ ~ Strings(list)
    /\ subjects' = Before(list, SelectInSeq(list, LAMBDA e : e = NotAString))
    /\ told' = Nothing
    /\ UNCHANGED <<file, subscribed, channel, pc, acked>>

SetAccepted(list) ==
    /\ pc = "idle"
    /\ Strings(list)
    /\ subjects' = list
    /\ pc' = "send"
    /\ UNCHANGED <<file, subscribed, channel, acked, told>>

\* The slip of dropping the message if the channel is full.
SendUnlessFull ==
    /\ pc = "send"
    /\ channel' = IF subscribed /\ Len(channel) < ChanSize
                  THEN Append(channel, subjects) ELSE channel
    /\ told' = IF channel' # channel THEN subjects ELSE told
    /\ pc' = "create"
    /\ UNCHANGED <<subjects, file, subscribed, acked>>

\* A subscriber is told of every list, also of one that is no change.
Send ==
    /\ pc = "send"
    /\ \/ ~ subscribed /\ UNCHANGED channel
       \/ subscribed /\ Len(channel) < ChanSize /\ channel' = Append(channel, subjects)
    /\ told' = IF subscribed THEN subjects ELSE told
    /\ pc' = "create"
    /\ UNCHANGED <<subjects, file, subscribed, acked>>

CreateFile ==
    /\ pc = "create"
    /\ file' = <<>>
    /\ pc' = "write"
    /\ acked' = Nothing
    /\ UNCHANGED <<subjects, subscribed, channel, told>>

\* The slip of an error of os.Create that is only logged.
CreateErrorIgnored ==
    /\ pc = "create"
    /\ pc' = "idle"
    /\ acked' = subjects
    /\ UNCHANGED <<subjects, file, subscribed, channel, told>>

\* The file cannot be opened and stays as it is; SetData returns the error.
CreateFails ==
    /\ pc = "create"
    /\ pc' = "idle"
    /\ UNCHANGED <<subjects, file, subscribed, channel, acked, told>>

\* The slip of returning without the Flush.
WriteWithoutFlush ==
    /\ pc = "write"
    /\ acked' = subjects
    /\ pc' = "idle"
    /\ UNCHANGED <<subjects, file, subscribed, channel, told>>

WriteFile ==
    /\ pc = "write"
    /\ file' = Lines(subjects)
    /\ acked' = subjects
    /\ pc' = "idle"
    /\ UNCHANGED <<subjects, subscribed, channel, told>>

\* Only some of the lines reach the file; SetData returns the error.
WriteFails(n) ==
    /\ pc = "write"
    /\ n < Len(Lines(subjects))
    /\ file' = SubSeq(Lines(subjects), 1, n)
    /\ pc' = "idle"
    /\ UNCHANGED <<subjects, subscribed, channel, acked, told>>

-----------------------------------------------------------------------------
(* The provider: Subscribe, Unsubscribe, the handler's receive *)

SetSubscribed(on) ==
    /\ pc = "idle"
    /\ subscribed' = on
    /\ told' = IF subscribed THEN told ELSE subjects
    /\ UNCHANGED <<subjects, file, channel, pc, acked>>

Receive ==
    /\ channel # <<>>
    /\ channel' = Tail(channel)
    /\ UNCHANGED <<subjects, file, subscribed, pc, acked, told>>

-----------------------------------------------------------------------------
(* New and the end of the process *)

\* New has read the lines s.  Nobody has subscribed yet.
Created(s) ==
    /\ subjects' = s
    /\ UNCHANGED <<file, subscribed, channel, pc, acked, told>>

\* The process ends: what was in memory is gone, SetData too.
Forgotten ==
    /\ subjects' = <<>> /\ told' = Nothing
    /\ subscribed' = FALSE /\ channel' = <<>>
    /\ pc' = "idle"
    /\ UNCHANGED <<file, acked>>

-----------------------------------------------------------------------------
\* SetData begins.
SetData == \E list \in Requested : SetAccepted(list) \/ SetRefused(list)

\* What goes on once it has begun, and the provider's calls.
SubjectsStep ==
    \/ Send \/ CreateFile \/ CreateFails \/ WriteFile
    \/ \E n \in 0 .. Len(Lines(subjects)) : WriteFails(n)
    \/ \E on \in BOOLEAN : SetSubscribed(on)
    \/ Receive

-----------------------------------------------------------------------------
(* Properties *)

\* Every variable has its type: no element that is not a string gets into the
\* list or into the file.
SubjectsTypeOK ==
    /\ subjects \in Seq(Subjects)
    /\ file \in Seq(Subjects) \cup {Absent}
    /\ subscribed \in BOOLEAN
    /\ channel \in Seq(Seq(Subjects)) /\ Len(channel) <= ChanSize
    /\ pc \in {"idle", "send", "create", "write"}
    /\ acked \in Seq(Subjects) \cup {Nothing}
    /\ told \in Seq(Subjects) \cup {Nothing}

\* While no SetData is under way the subscribers know the list that a client
\* gets, though the channel has little room and clients come and go; only after
\* a refused list they may not.
ToldOfChanges == subscribed /\ pc = "idle" => told \in {subjects, Nothing}
=============================================================================
