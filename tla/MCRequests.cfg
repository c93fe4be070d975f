\* Requests over four kinds of adapters, with a ticker and a connection.
SPECIFICATION Spec
CONSTANTS
    storage = storage  telemetry = telemetry  vin = vin  renesas = renesas
    left = left  right = right  speed = speed  turns = turns  stop = stop  number = number  east = east
    rpm = rpm  kmh = kmh  wheel = wheel  other = other
    lon = lon  long = long  extra = extra  version = version
    cabin = cabin  car = car
    everything = everything  settable = settable
    oneDoor = oneDoor  attributes = attributes  motion = motion  nowhere = nowhere
    full = full  doorman = doorman  visitor = visitor
    v1 = v1  v2 = v2
    Adapters = {storage, telemetry, vin, renesas}
    Paths = {left, right, speed, turns, stop, number, east}
    AdapterOf <- Served
    Storing = {storage}
    Posting = {telemetry}
    ReadOnly = {right}
    Emulated = {stop}
    Simulated = {renesas}
    Stats <- Trees
    Messages <- Sent
    Leaves = {rpm, kmh, wheel, other, lon, long, extra, version}
    Depth <- Depths
    PathConverter <- Converter
    SignalMap <- Signals
    NoSignal = NoSignal
    Longitude = east
    Minus <- Negative
    ParentOf <- Branches
    Masks = {everything, settable, oneDoor, attributes, motion, nowhere}
    MatchedBy <- Matched
    Spelled <- Exact
    EndsWith <- Ends
    Auths = {full, doorman, visitor}
    Authorized = {full, doorman}
    Public = {speed, turns, stop, number, east}
    Readable <- CanRead
    Writable <- CanWrite
    Values = {v1, v2}
    Null = Null
    Initial <- Start
    Data <- Requested
INVARIANTS
    RequestsInv OnlyGranted AcceptedIsComplete NothingLost ReadAtOneMoment SourcesCount
