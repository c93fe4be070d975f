\* The three adapters that keep a file, through failed starts, crashes, failed
\* writes and stops.
SPECIFICATION Spec
CONSTANTS
    x = x  xy = xy  long = long  no = no
    vin = vin  model = model  subj = subj
    v1 = v1  v2 = v2  unit = unit  other = other
    Subjects = {x, xy, long}
    NotAString = no
    LinesOf <- TwoLines
    TooLong = {long}
    Requested <- SomeLists
    Absent = Absent
    Nothing = Nothing
    ChanSize = 1
    Files = {vin, model}
    TheSubjects = subj
    Order <- VinFirst
    ValuesOf <- Held
    Generated <- MadeUp
    NoFile = NoFile
INVARIANTS
    TypeOK ToldOfChanges FilesInv ServedInWhole AckedIsRead
PROPERTIES
    ValuesPermanent AckedSurvives
